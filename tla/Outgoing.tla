------------------------------- MODULE Outgoing -------------------------------
(***************************************************************************)
(* The automatic posts and the limiter they pass: the owner's commands and *)
(* the rows they write, autopost_worker, and RateLimiter.wait, whose lock  *)
(* the worker is the only one to take (bot/handlers/autopost.py,           *)
(* bot/rate_limiter.py).  A process has loaded its rows in one step when   *)
(* the first command comes: what a command meets before that is in         *)
(* Settings.  The worker's polls of 5 s are short against every interval:  *)
(* it may look at any instant.                                             *)
(***************************************************************************)
EXTENDS Environment, FiniteSetsExt

CONSTANTS PostChat,      \* chats that can be destinations
          PostTask,      \* commands that can be saving at the same time
          Interval,      \* intervals the owner can ask for
          MinInterval,   \* AUTOPOST_MIN_INTERVAL_MINUTES
          Gap,           \* 1 / max_per_second
          Minute,        \* the sliding window of the limiter
          PerMinute      \* max_per_minute

OutgoingAssumption ==
    /\ EnvironmentAssumption
    /\ Interval \subseteq Nat /\ MinInterval \in Nat
    /\ Gap \in Nat \ {0} /\ Minute \in Nat \ {0} /\ PerMinute \in Nat \ {0}

VARIABLES
    post,      \* autopost_state: on, text, chats, interval
    nextRun,   \* _autopost_next_run
    force,     \* _autopost_force_now
    postRows,  \* what is stored of autopost_state
    postSaves, \* for each task: the transaction it has under way
    poster,    \* where autopost_worker waits: place, until, left, to
    lastSend,  \* RateLimiter._last_send
    window,    \* RateLimiter._send_count_minute: instants, no two the same
    \* -- history, read by properties only
    passed,    \* instants the limiter let a send go
    roundEnd,  \* when the last round ended, or the process started
    late,      \* for each chat the owner took off the list: posts since then
    loose      \* chats whose last command failed, or met another one's save

savedVars == <<postRows, postSaves, loose>>
postVars  == <<post, nextRun, force, poster, lastSend, window, passed, roundEnd, late, savedVars>>

Longest(n) == IF n < MinInterval THEN MinInterval ELSE n
TimerReset(n) == now + Longest(n)
Asleep == [place |-> "sleep", until |-> 0, left |-> {}, to |-> {}]

\* A transaction: the chats it inserts, those it deletes, and the row it writes.
Nothing     == [put |-> {}, drop |-> {}, row |-> {}]
RowOf(p)    == [Nothing EXCEPT !.row = {[p EXCEPT !.chats = {}]}]
Pending     == UNION {postSaves[t].put \cup postSaves[t].drop : t \in PostTask}

\* A process that has just loaded its settings, whatever they were.
PostInit ==
    /\ post \in [on : BOOLEAN, text : BOOLEAN, chats : SUBSET PostChat, interval : Interval]
    /\ nextRun = Longest(post.interval)
    /\ force = FALSE
    /\ poster = Asleep
    /\ lastSend = 0 - Gap     \* the float 0 of a monotonic clock
    /\ window = {} /\ passed = <<>>
    /\ roundEnd = 0
    /\ late = << >>
    /\ postRows = post /\ postSaves = [t \in PostTask |-> Nothing] /\ loose = {}

-----------------------------------------------------------------------------
(* Commands: `autopost ...`, the settings centre, a restored backup.       *)

\* A command begins its save, `w`, in a task of its own.
Saves(w) ==
    /\ \E t \in PostTask :
         postSaves[t] = Nothing /\ postSaves' = [postSaves EXCEPT ![t] = w]
    /\ loose' = (loose \ (w.put \cup w.drop)) \cup (Pending \cap (w.put \cup w.drop))

Owner == Ordered /\ UNCHANGED <<poster, lastSend, window, passed, roundEnd, postRows>>

\* The owner takes the chats C off the list.
Off(C) == [c \in (DOMAIN late) \cup C |-> IF c \in C THEN 0 ELSE late[c]]

PostOn ==
    /\ post.text /\ post.chats # {}
    /\ post' = [post EXCEPT !.on = TRUE]
    /\ nextRun' = TimerReset(post.interval)
    /\ Saves(RowOf(post')) /\ Owner /\ UNCHANGED <<force, late>>

PostOff ==
    /\ post' = [post EXCEPT !.on = FALSE]
    /\ Saves(RowOf(post')) /\ Owner /\ UNCHANGED <<nextRun, force, late>>

PostInterval(n) ==
    /\ post' = [post EXCEPT !.interval = Longest(n)]
    /\ nextRun' = TimerReset(Longest(n))
    /\ Saves(RowOf(post')) /\ Owner /\ UNCHANGED <<force, late>>

PostText ==
    /\ post' = [post EXCEPT !.text = TRUE]
    /\ Saves(RowOf(post')) /\ Owner /\ UNCHANGED <<nextRun, force, late>>

PostAdd(c) ==
    /\ post' = [post EXCEPT !.chats = @ \cup {c}]
    /\ late' = [x \in DOMAIN late \ {c} |-> late[x]]
    /\ Saves([Nothing EXCEPT !.put = {c}]) /\ Owner /\ UNCHANGED <<nextRun, force>>

PostRemoveKept(c) ==             \* variant: the row is not deleted
    /\ c \in post.chats
    /\ post' = [post EXCEPT !.chats = @ \ {c}]
    /\ late' = Off({c})
    /\ Saves(Nothing) /\ Owner /\ UNCHANGED <<nextRun, force>>

PostRemove(c) ==
    /\ c \in post.chats
    /\ post' = [post EXCEPT !.chats = @ \ {c}]
    /\ late' = Off({c})
    /\ Saves([Nothing EXCEPT !.drop = {c}]) /\ Owner /\ UNCHANGED <<nextRun, force>>

PostClear ==
    /\ post' = [post EXCEPT !.chats = {}]
    /\ late' = Off(post.chats)
    /\ Saves([Nothing EXCEPT !.drop = PostChat]) /\ Owner /\ UNCHANGED <<nextRun, force>>

PostNow == force' = TRUE /\ Owner /\ UNCHANGED <<post, nextRun, late, postSaves, loose>>

\* The settings centre and a restored backup set the values and no timer.
PostSwitch(b, n) ==
    /\ post' = [post EXCEPT !.on = b, !.interval = n]
    /\ Saves(RowOf(post')) /\ Owner /\ UNCHANGED <<nextRun, force, late>>

\* The rows once the transaction `w` is in them.
After(w) == LET row == IF w.row = {} THEN postRows ELSE CHOOSE p \in w.row : TRUE
            IN  [row EXCEPT !.chats = (postRows.chats \ w.drop) \cup w.put]

SaveEnds(t) ==
    /\ postSaves[t] # Nothing
    /\ postSaves' = [postSaves EXCEPT ![t] = Nothing]
    /\ UNCHANGED <<post, nextRun, force, poster, lastSend, window, passed, roundEnd, late>>

\* The transaction commits.
PostSaved(t) ==
    /\ SaveEnds(t)
    /\ postRows' = After(postSaves[t])
    /\ Calm /\ UNCHANGED loose

\* It raises, and so does the command: it was rolled back, or its answer was lost.
PostSaveFails(t) ==
    /\ SaveEnds(t)
    /\ postRows' \in {postRows, After(postSaves[t])}
    /\ loose' = loose \cup postSaves[t].drop
    /\ Fault

-----------------------------------------------------------------------------
(* RateLimiter.wait, for the chat p.to of a round.                         *)

Recent == {t \in window : now - t < Minute}

PassUncounted(p, w) ==           \* variant: a send after a wait is not counted
    /\ poster' = [p EXCEPT !.place = "send"]
    /\ lastSend' = now
    /\ window' = IF w = {} THEN w ELSE w \cup {now}
    /\ passed' = Append(passed, now)

\* The send goes now, and counts.
Pass(p, w) ==
    /\ poster' = [p EXCEPT !.place = "send"]
    /\ lastSend' = now
    /\ window' = w \cup {now}
    /\ passed' = Append(passed, now)

\* The second half of `wait`: the budget of a minute.
CheckMinute(p) ==
    IF Cardinality(Recent) < PerMinute
    THEN Pass(p, Recent)
    ELSE /\ poster' = [p EXCEPT !.place = "minute", !.until = Min(Recent) + Minute + 1]
         /\ window' = Recent
         /\ UNCHANGED <<lastSend, passed>>

Limiter == Calm /\ UNCHANGED <<post, nextRun, force, roundEnd, late, savedVars>>

\* The next chat of the round: down to the first sleep of `wait`, or past it.
NextChat(c) ==
    /\ poster.place = "next" /\ c \in poster.left
    /\ LET p == [poster EXCEPT !.left = @ \ {c}, !.to = {c}]
       IN  IF now - lastSend < Gap
           THEN /\ poster' = [p EXCEPT !.place = "gap", !.until = lastSend + Gap]
                /\ UNCHANGED <<lastSend, window, passed>>
           ELSE CheckMinute(p)
    /\ Limiter

GapOver ==
    /\ poster.place = "gap" /\ now >= poster.until
    /\ CheckMinute(poster)
    /\ Limiter

\* After the wait the whole window is forgotten.
MinuteOver ==
    /\ poster.place = "minute" /\ now >= poster.until
    /\ Pass(poster, {})
    /\ Limiter

-----------------------------------------------------------------------------
(* autopost_worker.                                                        *)

Working == UNCHANGED <<post, lastSend, window, passed, savedVars>>

\* A round starts, on a copy of the list.
Round ==
    /\ poster.place = "sleep"
    /\ post.on /\ post.text /\ post.chats # {}
    /\ force \/ now >= nextRun
    /\ force' = FALSE
    /\ poster' = [poster EXCEPT !.place = "next", !.left = post.chats]
    /\ Working /\ Calm /\ UNCHANGED <<nextRun, roundEnd, late>>

\* send_message is under way when `place` is "send"; its three outcomes.
Sent(c) == [x \in DOMAIN late |-> late[x] + (IF x \in c THEN 1 ELSE 0)]

SendOk ==
    /\ poster.place = "send"
    /\ poster' = [poster EXCEPT !.place = "next", !.to = {}]
    /\ late' = Sent(poster.to)
    /\ Working /\ Calm /\ UNCHANGED <<nextRun, force, roundEnd>>

\* Any other error, and the message may have arrived.
SendFails ==
    /\ poster.place = "send"
    /\ poster' = [poster EXCEPT !.place = "next", !.to = {}]
    /\ late' \in {late, Sent(poster.to)}
    /\ Working /\ Fault /\ UNCHANGED <<nextRun, force, roundEnd>>

SendFloodKept ==                \* variant: the chat that met the flood is not let go
    /\ poster.place = "send"
    /\ poster' = [poster EXCEPT !.place = "flood", !.until = now + Gap]
    /\ Working /\ Fault /\ UNCHANGED <<nextRun, force, roundEnd, late>>

\* Flood wait: the chat is skipped, and the round waits.
SendFlood ==
    /\ poster.place = "send"
    /\ poster' = [poster EXCEPT !.place = "flood", !.until = now + Gap, !.to = {}]
    /\ Working /\ Fault /\ UNCHANGED <<nextRun, force, roundEnd, late>>

FloodOver ==
    /\ poster.place = "flood" /\ now >= poster.until
    /\ poster' = [poster EXCEPT !.place = "next"]
    /\ Working /\ Calm /\ UNCHANGED <<nextRun, force, roundEnd, late>>

RoundOverUntimed ==              \* variant: the timer runs from the round's start
    /\ poster.place = "next" /\ poster.left = {}
    /\ poster' = Asleep
    /\ nextRun' = nextRun + Longest(post.interval)
    /\ roundEnd' = now
    /\ Working /\ Calm /\ UNCHANGED <<force, late>>

\* The round is over.  save_stats never raises.
RoundOver ==
    /\ poster.place = "next" /\ poster.left = {}
    /\ poster' = Asleep
    /\ nextRun' = TimerReset(post.interval)
    /\ roundEnd' = now
    /\ Working /\ Calm /\ UNCHANGED <<force, late>>

-----------------------------------------------------------------------------
\* The process dies, perhaps when a message was on its way; the next one loads the
\* rows.  A chat that was taken off is on the list again when its row is there
\* because its deletion failed, was cut off, or met another save of that chat.
PostCrash ==
    /\ Fault
    /\ post' = postRows
    /\ nextRun' = TimerReset(postRows.interval)
    /\ force' = FALSE
    /\ poster' = Asleep
    /\ lastSend' = now - Gap
    /\ window' = {} /\ passed' = <<>>
    /\ roundEnd' = now
    /\ LET back == postRows.chats \cap (loose \cup Pending)
       IN  \E l \in {late, IF poster.place = "send" THEN Sent(poster.to) ELSE late} :
             late' = [c \in DOMAIN late \ back |-> l[c]]
    /\ postSaves' = [t \in PostTask |-> Nothing] /\ loose' = {}
    /\ UNCHANGED postRows

PostTick == Advance /\ UNCHANGED postVars

-----------------------------------------------------------------------------
\* A round nobody asked for with `now` starts at the shortest interval, at
\* least, after the last one ended, whatever commands, floods, failures and
\* restarts came between (autopost.py:134, 148; autopost_store.py:59-63).
RoundsApart ==
    [][poster.place = "sleep" /\ poster'.place = "next" /\ ~force
         => now - roundEnd >= MinInterval]_<<poster, force, now, roundEnd>>

\* Two sends are Gap apart, at least (rate_limiter.py:24-28).
GapKept == \A i \in 1..(Len(passed) - 1) : passed[i + 1] - passed[i] >= Gap

\* Sends are Gap apart.  The window is forgotten after a wait, so a minute can
\* hold more than PerMinute of them, but never twice as many
\* (rate_limiter.py:33-41).
PacedSends ==
    /\ GapKept
    /\ \A i \in 1..(Len(passed) + 1 - 2 * PerMinute) :
         passed[i + 2 * PerMinute - 1] - passed[i] >= Minute

\* A chat taken off the list gets one more post at most, that of the round whose
\* copy of the list still has it, in this process and in those after it, until it
\* is put on the list again (autopost.py:136): by a command, or by a restart that
\* finds its row because the deletion failed, was cut off, or met another save of
\* that chat (autopost_store.py:20-30, 47-56).
OneLatePost == \A c \in DOMAIN late : late[c] <= 1

OutgoingTypes ==
    /\ post \in [on : BOOLEAN, text : BOOLEAN, chats : SUBSET PostChat,
                 interval : Interval \cup {Longest(n) : n \in Interval}]
    /\ poster.place \in {"sleep", "next", "gap", "minute", "send", "flood"}
    /\ postRows \in [on : BOOLEAN, text : BOOLEAN, chats : SUBSET PostChat,
                     interval : Interval \cup {Longest(n) : n \in Interval}]
    /\ Pending \cup loose \subseteq PostChat
    /\ poster.left \subseteq PostChat /\ poster.to \subseteq PostChat
    /\ (poster.place \in {"gap", "minute", "send"}) = (poster.to # {})
    /\ window \subseteq 0..now
    /\ roundEnd \in 0..now /\ force \in BOOLEAN
=============================================================================
