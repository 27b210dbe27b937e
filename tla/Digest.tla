-------------------------------- MODULE Digest --------------------------------
(***************************************************************************)
(* The daily digest (bot/handlers/daily_digest.py): the worker that looks  *)
(* at the clock once a minute, the runs it and the owner start, and the    *)
(* day marked as done, in memory and in the row.  An instant is a minute.  *)
(* Collecting and summarising a chat are one wait each; what they yield is *)
(* left out.  The lists of chats and their saves are in Settings.          *)
(***************************************************************************)
EXTENDS Environment

CONSTANTS DigestChat,  \* chats a digest can read
          Day          \* minutes of a day

DigestAssumption == EnvironmentAssumption /\ Day \in Nat \ {0}

VARIABLES
    digest,   \* daily_digest_state: on, mode, minute, chats
    lastRun,  \* its last_run_date
    marked,   \* last_run_date of the row
    looked,   \* the minute the worker last looked at
    run,      \* the run of the worker and that of the `now` command
    save,     \* the saves under way, of the runs and of a command
    \* -- history, read by properties only
    sent,     \* who delivered reports of which date
    twice,    \* dates the worker delivered more than one report of
    excused,  \* days whose mark was lost, or never made
    steady    \* since midnight nothing failed, changed, or ran over it

digestVars == <<digest, lastRun, marked, looked, run, save, sent, twice, excused, steady>>

Runner == {"worker", "owner"}
Saving == Runner \cup {"command"}
Never  == 0 - 1                  \* no date

Today      == now \div Day       \* _today_str
MinuteNow  == now % Day

NoRun  == [at |-> "idle", left |-> {}, date |-> Never]
NoSave == [at |-> "idle", want |-> Never, seen |-> Never]

\* A process that has just loaded its settings, at the start of a day.
DigestInit ==
    /\ digest \in [on : BOOLEAN, mode : {"all", "custom"}, minute : 0..(Day - 1),
                   chats : SUBSET DigestChat]
    /\ lastRun = Never /\ marked = Never
    /\ looked = Never
    /\ run = [r \in Runner |-> NoRun]
    /\ save = [w \in Saving |-> NoSave]
    /\ sent = {} /\ twice = {} /\ excused = {}
    /\ steady = digest.on

-----------------------------------------------------------------------------
(* Commands.  Each saves the whole row, the day of the last run with it.   *)

Quiet == UNCHANGED <<looked, run, sent, twice, excused>>

\* save_daily_digest takes the value when it is called.
Saved(w, d) == save' = [save EXCEPT ![w] = [at |-> "begun", want |-> d, seen |-> Never]]

Configure(d) ==
    /\ save["command"].at = "idle"
    /\ digest' = d
    /\ Saved("command", lastRun)
    /\ steady' = FALSE
    /\ Ordered /\ Quiet /\ UNCHANGED <<lastRun, marked>>

DigestOn ==
    /\ digest.mode = "custom" => digest.chats # {}
    /\ Configure([digest EXCEPT !.on = TRUE])
DigestOff     == Configure([digest EXCEPT !.on = FALSE])
DigestMode(m) == Configure([digest EXCEPT !.mode = m])
DigestTime(t) == Configure([digest EXCEPT !.minute = t])

\* The list has rows of its own.
DigestList(C) ==
    /\ digest' = [digest EXCEPT !.chats = C]
    /\ Ordered /\ Quiet /\ UNCHANGED <<lastRun, marked, save, steady>>
DigestAdd(c)    == DigestList(digest.chats \cup {c})
DigestRemove(c) == c \in digest.chats /\ DigestList(digest.chats \ {c})
DigestClear     == DigestList({})

\* A save reads the row, and writes what differs from what it read.
DigestRead(w) ==
    /\ save[w].at = "begun"
    /\ save' = [save EXCEPT ![w].at = "read", ![w].seen = marked]
    /\ Calm /\ Quiet /\ UNCHANGED <<digest, lastRun, marked, steady>>

DigestCommit(w) ==
    /\ save[w].at = "read"
    /\ marked' = IF save[w].want # save[w].seen THEN save[w].want ELSE marked
    /\ save' = [save EXCEPT ![w] = NoSave]
    /\ Calm /\ Quiet /\ UNCHANGED <<digest, lastRun, steady>>

DigestSaveFails(w) ==
    /\ save[w].at # "idle"
    /\ save' = [save EXCEPT ![w] = NoSave]
    /\ Fault /\ Quiet /\ UNCHANGED <<digest, lastRun, marked, steady>>

-----------------------------------------------------------------------------
(* A run.                                                                  *)

Settled == UNCHANGED <<digest, save>>

\* _target_chats: a list of dialogs, or a copy of the owner's.
Targets == IF digest.mode = "custom" THEN digest.chats ELSE DigestChat

Begun(r) == run' = [run EXCEPT ![r] = [at |-> "collect", left |-> Targets, date |-> Never]]

WantedNextDay ==                 \* variant: the date is asked to be older by two days
    digest.on /\ MinuteNow = digest.minute /\ lastRun < Today - 1

\* The worker looks, and does not start a run twice for one date.
Wanted == digest.on /\ MinuteNow = digest.minute /\ lastRun # Today

Free(r) == run[r].at = "idle" /\ save[r].at = "idle"
Awake   == Free("worker") /\ looked < now

Look ==
    /\ Awake /\ looked' = now
    /\ IF Wanted THEN Begun("worker") ELSE UNCHANGED run
    /\ Calm /\ Settled /\ UNCHANGED <<lastRun, marked, sent, twice, excused, steady>>

DigestNow ==
    /\ Free("owner")
    /\ Begun("owner")
    /\ Ordered /\ Settled /\ UNCHANGED <<lastRun, marked, looked, sent, twice, excused, steady>>

\* One chat is read, and summarised if it has lines of today; an error yields
\* fewer lines, or their number only.
Collect(r, c) ==
    /\ run[r].at = "collect" /\ c \in run[r].left
    /\ run' = [run EXCEPT ![r].left = @ \ {c}]
    /\ Calm /\ Settled /\ UNCHANGED <<lastRun, marked, looked, sent, twice, excused, steady>>

ComposeMarked(r) ==              \* variant: the date is marked before the report is sent
    /\ run[r].at = "collect" /\ run[r].left = {}
    /\ run' = [run EXCEPT ![r].at = "send", ![r].date = Today]
    /\ lastRun' = Today
    /\ Calm /\ Settled /\ UNCHANGED <<marked, looked, sent, twice, excused, steady>>

\* The report gets the date at which the last chat was done.
Compose(r) ==
    /\ run[r].at = "collect" /\ run[r].left = {}
    /\ run' = [run EXCEPT ![r].at = "send", ![r].date = Today]
    /\ Calm /\ Settled /\ UNCHANGED <<lastRun, marked, looked, sent, twice, excused, steady>>

\* The last piece of a report arrives; the ones before it may have arrived alone.
Arrive(R) ==
    /\ sent' = sent \cup {<<r, run[r].date>> : r \in R}
    /\ twice' = IF "worker" \in R /\ <<"worker", run["worker"].date>> \in sent
                THEN twice \cup {run["worker"].date} ELSE twice

Deliver(r) ==
    /\ run[r].at = "send"
    /\ run' = [run EXCEPT ![r].at = "sent"]
    /\ Arrive({r})
    /\ Calm /\ Settled /\ UNCHANGED <<lastRun, marked, looked, excused, steady>>

\* The date is marked, and its save begins.
Mark(r) ==
    /\ run[r].at = "sent"
    /\ lastRun' = run[r].date
    /\ Saved(r, run[r].date)
    /\ excused' = IF lastRun > run[r].date THEN excused \cup {lastRun} ELSE excused
    /\ run' = [run EXCEPT ![r] = NoRun]
    /\ Calm /\ UNCHANGED <<digest, marked, looked, sent, twice, steady>>

\* The dialogs or a piece of the report raise: the worker logs it, the command
\* answers it, and no day is marked.  The last piece may have arrived, its answer
\* only be lost.
Sending == {r \in Runner : run[r].at = "send"}

RunFails(r) ==
    /\ run[r].at \in {"collect", "send"}
    /\ \E R \in SUBSET (Sending \cap {r}) :
         Arrive(R) /\ excused' = excused \cup {run[x].date : x \in R}
    /\ run' = [run EXCEPT ![r] = NoRun]
    /\ steady' = FALSE
    /\ Fault /\ Settled /\ UNCHANGED <<lastRun, marked, looked>>

-----------------------------------------------------------------------------
\* The process dies, with reports on their way that may arrive; the next one loads
\* the row.
DigestCrash ==
    /\ Fault
    /\ lastRun' = marked
    /\ \E R \in SUBSET Sending :
         /\ Arrive(R)
         /\ excused' = excused \cup ({lastRun} \ {marked})
                        \cup {run[r].date : r \in {x \in Runner : run[x].at = "sent"} \cup R}
    /\ run' = [r \in Runner |-> NoRun]
    /\ save' = [w \in Saving |-> NoSave]
    /\ looked' = Never /\ steady' = FALSE
    /\ UNCHANGED <<digest, marked>>

\* The worker looks in every minute in which it is free.
DigestTick ==
    /\ ~Awake /\ Advance
    /\ steady' = IF (now + 1) % Day = 0
                 THEN digest.on /\ Free("worker")
                 ELSE steady
    /\ UNCHANGED <<digest, lastRun, marked, looked, run, save, sent, twice, excused>>

-----------------------------------------------------------------------------
Reported(d) == \E r \in Runner : <<r, d>> \in sent

\* The worker reports a day once, whatever the owner changes or runs himself,
\* unless that day is without its mark: a send raised, or was cut off, although
\* the report had arrived; the process died before the mark was made or saved; or
\* an older run that ended later put the mark back (daily_digest.py:304-318, 330-337).
AutoOncePerDay == twice \subseteq excused

\* A day is marked, in memory or in the row, only when a report with its date
\* has arrived: nothing that fails on the way makes the bot skip a day
\* (daily_digest.py:304-306).
MarkMeansSent ==
    \A d \in {lastRun, marked} \ {Never} : Reported(d)

\* When the digest was on and the worker free at midnight, and nothing was changed
\* and nothing failed since, the day has its report once the minute has passed and
\* the worker is free (daily_digest.py:327-343).
DailyServed ==
    steady /\ MinuteNow > digest.minute /\ Free("worker") =>
      Reported(Today)

\* No day has two reports and none is left out, but for what the two properties
\* above name (daily_digest.py:327-343).
DigestEachDay == AutoOncePerDay /\ DailyServed

DigestTypes ==
    /\ digest.minute \in 0..(Day - 1) /\ digest.chats \subseteq DigestChat
    /\ {lastRun, marked} \subseteq {Never} \cup 0..Today
    /\ looked \in {Never} \cup 0..now
    /\ \A r \in Runner : run[r].date \in {Never} \cup 0..Today
=============================================================================
