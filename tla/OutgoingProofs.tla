---------------------------- MODULE OutgoingProofs ----------------------------
(***************************************************************************)
(* What Outgoing.tla shows for every set of chats, intervals and limits:   *)
(* rounds keep apart, sends keep their gap and, twice over, their budget,  *)
(* and a chat taken off the list gets one post more at most, until it is   *)
(* put on the list again.                                                  *)
(***************************************************************************)
EXTENDS Outgoing, FiniteSetTheorems, WellFoundedInduction, TLAPS

OwnerNext ==
    \/ PostOn \/ PostOff \/ PostText \/ PostClear \/ PostNow
    \/ \E n \in Interval : PostInterval(n) \/ \E b \in BOOLEAN : PostSwitch(b, n)
    \/ \E c \in PostChat : PostAdd(c) \/ PostRemove(c)

WorkerNext ==
    \/ GapOver \/ MinuteOver \/ Round \/ SendOk \/ SendFails \/ SendFlood \/ FloodOver
    \/ RoundOver
    \/ \E c \in PostChat : NextChat(c)

SaverNext == \E t \in PostTask : PostSaved(t) \/ PostSaveFails(t)

OutgoingNext == OwnerNext \/ SaverNext \/ WorkerNext \/ PostCrash \/ PostTick

postingVars == <<envVars, postVars>>

OutgoingSpec == EnvInit /\ PostInit /\ [][OutgoingNext]_postingVars

-----------------------------------------------------------------------------
\* The kinds of value.  (What `until` is matters at "gap" only.)
IsPoster(p) ==
    /\ DOMAIN p = {"place", "until", "left", "to"}
    /\ p.place \in {"sleep", "next", "gap", "minute", "send", "flood"}
    /\ p.left \subseteq PostChat /\ p.to \subseteq PostChat

Posting == [on : BOOLEAN, text : BOOLEAN, chats : SUBSET PostChat, interval : Nat]

PostKinds ==
    /\ now \in Nat
    /\ post \in Posting
    /\ IsPoster(poster)
    /\ nextRun \in Int /\ roundEnd \in Int /\ lastSend \in Int
    /\ force \in BOOLEAN
    /\ passed \in Seq(Int)

\* The timer was set when the last round ended, or later.
Timed == roundEnd <= now /\ nextRun >= roundEnd + MinInterval

\* A chat off the list that the round still has in its copy had no post yet, and
\* a chat is in that copy once.
Copied ==
    /\ poster.place \in {"sleep", "next", "flood"} => poster.to = {}
    /\ poster.left \cap poster.to = {}
    /\ \A c \in DOMAIN late :
         /\ c \notin post.chats
         /\ late[c] \in {0, 1}
         /\ c \in poster.left \cup poster.to => late[c] = 0

\* Whoever is past the first sleep of `wait` is Gap after the last send.
Spaced ==
    /\ passed # <<>> => lastSend = passed[Len(passed)]
    /\ GapKept
    /\ poster.place = "gap" => poster.until = lastSend + Gap
    /\ poster.place = "minute" => now >= lastSend + Gap

\* The worker and the list in memory.
PInv == PostKinds /\ Timed /\ Copied /\ Spaced

\* What is stored and being stored.
RowKinds ==
    /\ postRows \in Posting
    /\ postSaves \in [PostTask -> [put : SUBSET PostChat, drop : SUBSET PostChat,
                                   row : SUBSET Posting]]
    /\ loose \subseteq PostChat

\* A chat off the list whose last save met no other and did not fail: its row is
\* gone or about to go, and nobody is about to store it.
Deleted ==
    \A c \in DOMAIN late \ loose :
        /\ \A t \in PostTask : c \notin postSaves[t].put
        /\ c \in postRows.chats => \E t \in PostTask : c \in postSaves[t].drop

OInv == PInv /\ RowKinds /\ Deleted

-----------------------------------------------------------------------------
\* An interval is stored no shorter than the shortest.
LEMMA LongestIsLong ==
    ASSUME OutgoingAssumption, NEW n \in Nat
    PROVE  Longest(n) \in Nat /\ Longest(n) >= MinInterval
  BY DEF OutgoingAssumption, Longest

\* The initial state satisfies the invariant.
LEMMA OutgoingInitInv ==
    ASSUME OutgoingAssumption, EnvInit, PostInit
    PROVE  OInv
  <1> USE DEF EnvInit, PostInit, Asleep, Posting
  <1>1. post.interval \in Nat /\ Interval \subseteq Nat /\ MinInterval \in Nat /\ Gap \in Nat
    BY DEF OutgoingAssumption
  <1>2. Longest(post.interval) \in Nat /\ Longest(post.interval) >= MinInterval
    BY <1>1, LongestIsLong
  <1>3. PostKinds
    <2>1. post \in Posting
      BY <1>1
    <2>2. passed \in Seq(Int)
      OBVIOUS
    <2>3. IsPoster(poster)
      BY DEF IsPoster
    <2>4. now \in Nat /\ nextRun \in Int /\ roundEnd \in Int /\ lastSend \in Int
      BY <1>1, <1>2
    <2>5. force \in BOOLEAN
      OBVIOUS
    <2> QED BY <2>1, <2>2, <2>3, <2>4, <2>5 DEF PostKinds
  <1>4. Timed
    BY <1>1, <1>2 DEF Timed
  <1>5. Copied
    BY DEF Copied
  <1>6. Spaced
    BY DEF Spaced, GapKept
  <1>7. RowKinds
    <2>1. Nothing \in [put : SUBSET PostChat, drop : SUBSET PostChat, row : SUBSET Posting]
      BY DEF Nothing
    <2>2. postRows \in Posting
      BY <1>1
    <2> QED BY <2>1, <2>2 DEF RowKinds
  <1>8. Deleted
    BY DEF Deleted
  <1> QED BY <1>3, <1>4, <1>5, <1>6, <1>7, <1>8 DEF OInv, PInv

\* The owner's commands: the timer starts anew or stays, a chat that leaves the
\* list starts at no post, one that comes back is not counted.
LEMMA OwnerInv ==
    ASSUME OutgoingAssumption, OInv, OwnerNext
    PROVE  PInv'
  <1> USE DEF OInv, PInv, Posting, PInv, Posting
  <1>1. UNCHANGED <<now, poster, lastSend, passed, roundEnd>>
    BY DEF OwnerNext, PostOn, PostOff, PostText, PostClear, PostNow, PostInterval, PostSwitch,
           PostAdd, PostRemove, Owner, Ordered
  <1>2. MinInterval \in Nat /\ Interval \subseteq Nat
    BY DEF OutgoingAssumption
  <1>3. CASE PostOn \/ \E n \in Interval : PostInterval(n)
    <2>1. PICK n \in Nat : nextRun' = now + Longest(n)
      BY <1>2, <1>3, LongestIsLong DEF PostOn, PostInterval, TimerReset, PostKinds
    <2>2. Longest(n) \in Nat /\ Longest(n) >= MinInterval
      BY <2>1, LongestIsLong
    <2>3. Timed'
      BY <1>1, <1>2, <2>1, <2>2 DEF Timed, PostKinds
    <2>4. UNCHANGED late /\ post' \in Posting
          /\ post'.chats = post.chats /\ force' = force
      BY <1>2, <1>3, LongestIsLong DEF PostOn, PostInterval, PostKinds
    <2>5. PostKinds'
      BY <1>1, <2>1, <2>2, <2>4 DEF PostKinds
    <2>6. Copied'
      BY <1>1, <2>4 DEF Copied
    <2>7. Spaced'
      BY <1>1 DEF Spaced, GapKept
    <2> QED BY <2>3, <2>5, <2>6, <2>7
  <1>4. CASE \/ PostOff \/ PostText \/ PostClear \/ PostNow
             \/ \E n \in Interval, b \in BOOLEAN : PostSwitch(b, n)
             \/ \E c \in PostChat : PostAdd(c) \/ PostRemove(c)
    <2>1. UNCHANGED nextRun /\ force' \in BOOLEAN
      BY <1>4 DEF PostOff, PostText, PostClear, PostNow, PostSwitch, PostAdd, PostRemove, PostKinds
    <2>2. post' \in Posting
      <3>1. CASE PostOff \/ PostText \/ PostClear \/ PostNow
        BY <3>1 DEF PostOff, PostText, PostClear, PostNow, PostKinds
      <3>2. CASE \E n \in Interval, b \in BOOLEAN : PostSwitch(b, n)
        BY <1>2, <3>2 DEF PostSwitch, PostKinds
      <3>3. ASSUME NEW c \in PostChat, PostAdd(c) \/ PostRemove(c)
            PROVE  post' \in Posting
        <4>1. PICK C \in SUBSET PostChat : post' = [post EXCEPT !.chats = C]
          BY <3>3 DEF PostAdd, PostRemove, PostKinds
        <4> QED BY <4>1 DEF PostKinds
      <3> QED BY <1>4, <3>1, <3>2, <3>3
    <2>3. PostKinds' /\ Timed' /\ Spaced'
      BY <1>1, <2>1, <2>2 DEF PostKinds, Timed, Spaced, GapKept
    <2>4. \/ post'.chats = post.chats /\ late' = late
          \/ \E C \in SUBSET PostChat : post'.chats = post.chats \ C /\ late' = Off(C)
          \/ \E c \in PostChat : /\ post'.chats = post.chats \cup {c}
                                 /\ late' = [x \in DOMAIN late \ {c} |-> late[x]]
      <3>1. ASSUME NEW c \in PostChat, PostAdd(c)
            PROVE  /\ post'.chats = post.chats \cup {c}
                   /\ late' = [x \in DOMAIN late \ {c} |-> late[x]]
        BY <3>1 DEF PostAdd, PostKinds
      <3>2. ASSUME NEW c \in PostChat, PostRemove(c)
            PROVE  post'.chats = post.chats \ {c} /\ late' = Off({c})
        BY <3>2 DEF PostRemove, PostKinds
      <3>3. ASSUME PostClear
            PROVE  post'.chats = post.chats \ post.chats /\ late' = Off(post.chats)
        BY <3>3 DEF PostClear, PostKinds
      <3>4. post.chats \subseteq PostChat
        BY DEF PostKinds
      <3>5. ASSUME \/ PostOff \/ PostText \/ PostNow
                   \/ \E n \in Interval, b \in BOOLEAN : PostSwitch(b, n)
            PROVE  post'.chats = post.chats /\ late' = late
        BY <3>5 DEF PostOff, PostText, PostNow, PostSwitch, PostKinds
      <3> QED BY <1>4, <3>1, <3>2, <3>3, <3>4, <3>5
    <2>5. Copied'
      <3>1. CASE post'.chats = post.chats /\ late' = late
        BY <1>1, <3>1 DEF Copied
      <3>2. CASE \E C \in SUBSET PostChat : post'.chats = post.chats \ C /\ late' = Off(C)
        BY <1>1, <3>2 DEF Copied, Off
      <3>3. CASE \E c \in PostChat : /\ post'.chats = post.chats \cup {c}
                                     /\ late' = [x \in DOMAIN late \ {c} |-> late[x]]
        BY <1>1, <3>3 DEF Copied
      <3> QED BY <2>4, <3>1, <3>2, <3>3
    <2> QED BY <2>3, <2>5
  <1> QED BY <1>3, <1>4 DEF OwnerNext

\* A send that passes the limiter Gap after the last one keeps the invariant.
LEMMA PassInv ==
    ASSUME OutgoingAssumption, OInv, Limiter, NEW p, NEW w, Pass(p, w),
           IsPoster(p), p.left \cup p.to \subseteq poster.left \cup poster.to, p.left \cap p.to = {},
           now >= lastSend + Gap
    PROVE  PInv'
  <1> USE DEF OInv, PInv, Posting, PInv, Posting
  <1>1. UNCHANGED <<now, post, nextRun, force, roundEnd, late>> /\ Gap \in Nat
    BY DEF Limiter, Calm, envVars, OutgoingAssumption
  <1>2. /\ IsPoster(poster') /\ poster'.left = p.left /\ poster'.to = p.to
        /\ poster'.place = "send" /\ lastSend' = now /\ passed' = Append(passed, now)
    BY DEF Pass, IsPoster
  <1>3. Copied' /\ Timed'
    BY <1>1, <1>2 DEF Copied, Timed
  <1>4. passed' \in Seq(Int) /\ lastSend' \in Int
    BY <1>2 DEF PostKinds
  <1>5. PostKinds'
    BY <1>1, <1>2, <1>4 DEF PostKinds
  <1>6. /\ Len(passed') = Len(passed) + 1 /\ Len(passed) \in Nat
        /\ passed'[Len(passed) + 1] = now
        /\ \A i \in 1..Len(passed) : passed'[i] = passed[i]
    BY <1>2 DEF PostKinds
  <1>7. ASSUME NEW i \in 1..(Len(passed') - 1)
        PROVE  passed'[i + 1] - passed'[i] >= Gap
    <2>1. CASE i < Len(passed)
      BY <1>6, <2>1 DEF Spaced, GapKept
    <2>2. CASE i = Len(passed)
      <3>1. passed # <<>> /\ passed[i] = lastSend
        BY <2>2 DEF Spaced, PostKinds
      <3>2. passed'[i + 1] = now
        BY <1>6, <2>2
      <3>3. passed'[i] = lastSend
        BY <1>6, <2>2, <3>1
      <3> QED BY <1>1, <3>2, <3>3 DEF PostKinds
    <2> QED BY <1>6, <2>1, <2>2
  <1>8. Spaced'
    BY <1>1, <1>2, <1>6, <1>7 DEF Spaced, GapKept
  <1> QED BY <1>3, <1>5, <1>8

\* The budget of a minute: the send goes, or waits where its gap is kept.
LEMMA CheckMinuteInv ==
    ASSUME OutgoingAssumption, OInv, Limiter, NEW p, CheckMinute(p),
           IsPoster(p), p.left \cup p.to \subseteq poster.left \cup poster.to, p.left \cap p.to = {},
           now >= lastSend + Gap
    PROVE  PInv'
  <1> USE DEF OInv, PInv, Posting, PInv, Posting
  <1>1. CASE Pass(p, Recent)
    BY <1>1, PassInv
  <1>2. CASE ~Pass(p, Recent)
    <2>1. /\ poster' = [p EXCEPT !.place = "minute", !.until = Min(Recent) + Minute + 1]
          /\ UNCHANGED <<lastSend, passed>>
      BY <1>2 DEF CheckMinute
    <2>2. IsPoster(poster') /\ poster'.left = p.left /\ poster'.to = p.to /\ poster'.place = "minute"
      BY <2>1 DEF IsPoster
    <2>3. UNCHANGED <<now, post, nextRun, force, roundEnd, late>>
      BY DEF Limiter, Calm, envVars
    <2>4. PostKinds' /\ Timed'
      BY <2>1, <2>2, <2>3 DEF PostKinds, Timed
    <2>5. Copied'
      BY <2>2, <2>3 DEF Copied
    <2>6. Spaced'
      BY <2>1, <2>2, <2>3 DEF Spaced, GapKept
    <2> QED BY <2>4, <2>5, <2>6
  <1> QED BY <1>1, <1>2

\* The limiter: the next chat of a round, and the ends of its two sleeps.
LEMMA LimiterInv ==
    ASSUME OutgoingAssumption, OInv,
           GapOver \/ MinuteOver \/ \E c \in PostChat : NextChat(c)
    PROVE  PInv'
  <1> USE DEF OInv, PInv, Posting, PInv, Posting
  <1>1. UNCHANGED <<now, post, nextRun, force, roundEnd, late>> /\ Gap \in Nat /\ Limiter
    BY DEF GapOver, MinuteOver, NextChat, Limiter, Calm, envVars, OutgoingAssumption
  <1>2. CASE GapOver
    <2>1. now >= lastSend + Gap /\ CheckMinute(poster) /\ IsPoster(poster)
      BY <1>2 DEF GapOver, Spaced, PostKinds
    <2> QED BY <1>1, <2>1, CheckMinuteInv DEF Copied
  <1>3. CASE MinuteOver
    <2>1. now >= lastSend + Gap /\ Pass(poster, {})
      BY <1>3 DEF MinuteOver, Spaced
    <2> QED BY <1>1, <2>1, PassInv DEF Copied, PostKinds
  <1>4. ASSUME NEW c \in PostChat, NextChat(c)
        PROVE  PInv'
    <2> DEFINE p == [poster EXCEPT !.left = @ \ {c}, !.to = {c}]
    <2>1. /\ IsPoster(p) /\ p.left = poster.left \ {c} /\ p.to = {c} /\ c \in poster.left
          /\ p.place = "next"
      <3>1. IsPoster(poster) /\ poster.place = "next" /\ c \in poster.left
        BY <1>4 DEF PostKinds, NextChat
      <3> QED BY <3>1 DEF IsPoster
    <2>2. CASE now - lastSend < Gap
      <3>1. poster' = [p EXCEPT !.place = "gap", !.until = lastSend + Gap]
            /\ UNCHANGED <<lastSend, passed>>
        BY <1>4, <2>2 DEF NextChat
      <3>2. /\ IsPoster(poster') /\ poster'.left = poster.left \ {c} /\ poster'.to = {c}
            /\ poster'.place = "gap" /\ poster'.until = lastSend + Gap
        BY <2>1, <3>1 DEF IsPoster
      <3>3. PostKinds'
        BY <1>1, <3>1, <3>2 DEF PostKinds
      <3>4. Timed' /\ Spaced'
        BY <1>1, <3>1, <3>2 DEF Timed, Spaced, GapKept
      <3>5. Copied'
        BY <1>1, <2>1, <3>2 DEF Copied
      <3> QED BY <3>3, <3>4, <3>5
    <2>3. CASE ~(now - lastSend < Gap)
      <3>1. CheckMinute(p)
        BY <1>4, <2>3 DEF NextChat
      <3>2. now >= lastSend + Gap
        BY <1>1, <2>3 DEF PostKinds
      <3>3. p.left \cup p.to \subseteq poster.left \cup poster.to /\ p.left \cap p.to = {}
        BY <2>1
      <3> HIDE DEF p
      <3> QED BY <1>1, <2>1, <3>1, <3>2, <3>3, CheckMinuteInv
    <2> QED BY <2>2, <2>3
  <1> QED BY <1>2, <1>3, <1>4

\* The worker: a round takes the list as it is, each outcome of a send lets its
\* chat go, and the end of a round sets the timer.
LEMMA RoundInv ==
    ASSUME OutgoingAssumption, OInv,
           Round \/ SendOk \/ SendFails \/ SendFlood \/ FloodOver \/ RoundOver
    PROVE  PInv'
  <1> USE DEF OInv, PInv, Posting, PInv, Posting
  <1>1. UNCHANGED <<now, post, lastSend, passed>>
    BY DEF Round, SendOk, SendFails, SendFlood, FloodOver, RoundOver, Working, Calm, Fault, envVars
  <1>2. CASE Round
    <2>1. /\ IsPoster(poster') /\ poster'.left = post.chats /\ poster'.to = {}
          /\ poster'.place = "next" /\ force' = FALSE /\ UNCHANGED <<nextRun, roundEnd, late>>
      BY <1>2 DEF Round, PostKinds, IsPoster, Copied
    <2>2. PostKinds'
      BY <1>1, <2>1 DEF PostKinds
    <2>3. Timed' /\ Spaced'
      BY <1>1, <2>1 DEF Timed, Spaced, GapKept
    <2>4. Copied'
      BY <1>1, <2>1 DEF Copied
    <2> QED BY <2>2, <2>3, <2>4
  <1>3. CASE SendOk \/ SendFails \/ SendFlood
    <2>1. /\ IsPoster(poster') /\ poster'.left = poster.left /\ poster'.to = {}
          /\ poster'.place \in {"next", "flood"} /\ UNCHANGED <<nextRun, roundEnd, force>>
          /\ late' = late \/ late' = Sent(poster.to)
      BY <1>3 DEF SendOk, SendFails, SendFlood, PostKinds, IsPoster
    <2>2. PostKinds'
      BY <1>1, <2>1 DEF PostKinds
    <2>3. Timed' /\ Spaced'
      BY <1>1, <2>1 DEF Timed, Spaced, GapKept
    <2>4. Copied'
      <3>1. CASE late' = late
        BY <1>1, <2>1, <3>1 DEF Copied
      <3>2. CASE late' = Sent(poster.to)
        BY <1>1, <2>1, <3>2 DEF Copied, Sent
      <3> QED BY <2>1, <3>1, <3>2
    <2> QED BY <2>2, <2>3, <2>4
  <1>4. CASE FloodOver
    <2>1. /\ IsPoster(poster') /\ poster'.left = poster.left /\ poster'.to = {}
          /\ poster'.place = "next" /\ UNCHANGED <<nextRun, roundEnd, force, late>>
      BY <1>4 DEF FloodOver, PostKinds, IsPoster, Copied
    <2>2. PostKinds' /\ Timed' /\ Spaced'
      BY <1>1, <2>1 DEF PostKinds, Timed, Spaced, GapKept
    <2>3. Copied'
      BY <1>1, <2>1 DEF Copied
    <2> QED BY <2>2, <2>3
  <1>5. CASE RoundOver
    <2>1. /\ IsPoster(poster') /\ poster'.left = {} /\ poster'.to = {}
          /\ poster'.place = "sleep" /\ UNCHANGED <<force, late>>
          /\ nextRun' = now + Longest(post.interval) /\ roundEnd' = now
      BY <1>5 DEF RoundOver, Asleep, IsPoster, TimerReset
    <2>2. /\ Longest(post.interval) \in Nat /\ Longest(post.interval) >= MinInterval
          /\ MinInterval \in Nat
      BY LongestIsLong DEF PostKinds, OutgoingAssumption
    <2>3. PostKinds'
      BY <1>1, <2>1, <2>2 DEF PostKinds
    <2>4. Timed' /\ Spaced'
      BY <1>1, <2>1, <2>2 DEF PostKinds, Timed, Spaced, GapKept
    <2>5. Copied'
      BY <1>1, <2>1 DEF Copied
    <2> QED BY <2>3, <2>4, <2>5
  <1> QED BY <1>2, <1>3, <1>4, <1>5

\* A process that starts sets the timer and has no copy of the list; time alone
\* only widens the gaps.
LEMMA CrashTickInv ==
    ASSUME OutgoingAssumption, OInv, PostCrash \/ PostTick
    PROVE  PInv'
  <1> USE DEF OInv, PInv, Posting, PInv, Posting
  <1>1. CASE PostCrash
    <2>1. /\ IsPoster(poster') /\ poster'.left = {} /\ poster'.to = {} /\ poster'.place = "sleep"
          /\ UNCHANGED now /\ post' = postRows /\ force' = FALSE /\ passed' = <<>>
          /\ nextRun' = now + Longest(postRows.interval) /\ roundEnd' = now
          /\ lastSend' = now - Gap
      BY <1>1 DEF PostCrash, Asleep, IsPoster, TimerReset, Fault
    <2>2. /\ Longest(postRows.interval) \in Nat /\ Longest(postRows.interval) >= MinInterval
          /\ MinInterval \in Nat /\ Gap \in Nat /\ postRows \in Posting
      BY LongestIsLong DEF RowKinds, OutgoingAssumption
    <2>3. nextRun' \in Int /\ roundEnd' \in Int /\ lastSend' \in Int /\ passed' \in Seq(Int)
      BY <2>1, <2>2 DEF PostKinds
    <2>4. PostKinds'
      BY <2>1, <2>2, <2>3 DEF PostKinds
    <2>5. Timed'
      BY <2>1, <2>2 DEF PostKinds, Timed
    <2>6. Spaced'
      BY <2>1 DEF Spaced, GapKept
    <2>7. Copied'
      <3>1. PICK back, l :
              /\ back = postRows.chats \cap (loose \cup Pending)
              /\ l \in {late, IF poster.place = "send" THEN Sent(poster.to) ELSE late}
              /\ late' = [c \in DOMAIN late \ back |-> l[c]]
        BY <1>1 DEF PostCrash
      <3>2. ASSUME NEW c \in DOMAIN late'
            PROVE  c \notin post'.chats /\ late'[c] \in {0, 1}
        <4>1. c \in DOMAIN late /\ c \notin back /\ late'[c] = l[c]
          BY <3>1, <3>2
        <4>2. l[c] \in {0, 1}
          BY <3>1, <4>1 DEF Copied, Sent
        <4>3. ASSUME c \in postRows.chats
              PROVE  FALSE
          <5>1. c \notin loose /\ c \notin Pending
            BY <3>1, <4>1, <4>3
          <5> QED BY <4>1, <4>3, <5>1 DEF Deleted, Pending
        <4> QED BY <2>1, <4>1, <4>2, <4>3
      <3> QED BY <2>1, <3>2 DEF Copied
    <2> QED BY <2>4, <2>5, <2>6, <2>7
  <1>2. CASE PostTick
    <2>1. now' = now + 1 /\ UNCHANGED postVars
      BY <1>2 DEF PostTick, Advance
    <2>2. UNCHANGED <<post, nextRun, force, poster, lastSend, passed, roundEnd, late>>
      BY <2>1 DEF postVars
    <2>3. PostKinds' /\ Timed' /\ Copied'
      BY <2>1, <2>2 DEF PostKinds, Timed, Copied
    <2>4. Gap \in Nat
      BY DEF OutgoingAssumption
    <2>5. Spaced'
      BY <2>1, <2>2, <2>4 DEF Spaced, GapKept, PostKinds
    <2> QED BY <2>3, <2>5
  <1> QED BY <1>1, <1>2

\* The saves of commands change what is stored, not the list in memory.
LEMMA SaverKeeps ==
    ASSUME OInv, SaverNext
    PROVE  PInv'
  <1>1. UNCHANGED <<now, post, nextRun, force, poster, lastSend, passed, roundEnd, late>>
    BY DEF SaverNext, PostSaved, PostSaveFails, SaveEnds, Calm, Fault, envVars
  <1> QED BY <1>1 DEF OInv, PInv, PostKinds, IsPoster, Timed, Copied, Spaced, GapKept

\* A command that begins a save of chats: whoever met another save is loose, and the
\* others are deleted by this save or not touched.
LEMMA SavesKept ==
    ASSUME RowKinds, Deleted, UNCHANGED postRows,
           NEW w \in [put : SUBSET PostChat, drop : SUBSET PostChat, row : SUBSET Posting],
           Saves(w), NEW C, DOMAIN late' \subseteq DOMAIN late \cup C,
           C \subseteq w.drop, DOMAIN late' \cap w.put = {}, w.put = {} \/ w.drop = {}
    PROVE  RowKinds' /\ Deleted'
  <1>1. PICK t \in PostTask : postSaves[t] = Nothing /\ postSaves' = [postSaves EXCEPT ![t] = w]
    BY DEF Saves
  <1>2. loose' = (loose \ (w.put \cup w.drop)) \cup (Pending \cap (w.put \cup w.drop))
    BY DEF Saves
  <1>3. RowKinds'
    BY <1>1, <1>2 DEF RowKinds
  <1>4. postSaves'[t] = w /\ \A u \in PostTask \ {t} : postSaves'[u] = postSaves[u]
    BY <1>1 DEF RowKinds
  <1>5. ASSUME NEW c \in DOMAIN late' \ loose'
        PROVE  /\ \A u \in PostTask : c \notin postSaves'[u].put
               /\ c \in postRows'.chats => \E u \in PostTask : c \in postSaves'[u].drop
    <2>1. CASE c \in w.drop
      <3>1. c \notin Pending
        BY <1>2, <1>5, <2>1
      <3>2. \A u \in PostTask : c \notin postSaves'[u].put
        BY <1>4, <1>5, <3>1 DEF Pending
      <3> QED BY <1>4, <2>1, <3>2
    <2>2. CASE c \notin w.drop
      <3>1. c \in DOMAIN late \ loose /\ c \notin w.put
        BY <1>2, <1>5, <2>2
      <3>2. \A u \in PostTask : c \notin postSaves'[u].put
        BY <1>4, <3>1 DEF Deleted
      <3>3. ASSUME c \in postRows'.chats
            PROVE  \E u \in PostTask : c \in postSaves'[u].drop
        <4>1. PICK u \in PostTask : c \in postSaves[u].drop
          BY <3>1, <3>3 DEF Deleted
        <4>2. u # t
          BY <1>1, <4>1 DEF Nothing
        <4> QED BY <1>4, <4>1, <4>2
      <3> QED BY <3>2, <3>3
    <2> QED BY <2>1, <2>2
  <1> QED BY <1>3, <1>5 DEF Deleted

\* A transaction that ends, committed or not.
LEMMA SaverRows ==
    ASSUME OInv, SaverNext
    PROVE  RowKinds' /\ Deleted'
  <1>1. PICK t \in PostTask : PostSaved(t) \/ PostSaveFails(t)
    BY DEF SaverNext
  <1> DEFINE w == postSaves[t]
  <1>2. /\ postSaves' = [postSaves EXCEPT ![t] = Nothing] /\ late' = late
        /\ postRows' \in {postRows, After(w)}
        /\ loose' = loose \/ loose' = loose \cup w.drop
        /\ postRows' = After(w) \/ loose' = loose \cup w.drop
    BY <1>1 DEF PostSaved, PostSaveFails, SaveEnds
  <1>3. w \in [put : SUBSET PostChat, drop : SUBSET PostChat, row : SUBSET Posting]
        /\ postRows \in Posting
    BY DEF OInv, RowKinds
  <1>4. After(w) \in Posting /\ After(w).chats = (postRows.chats \ w.drop) \cup w.put
    <2>1. CASE w.row = {}
      BY <1>3, <2>1 DEF After, Posting
    <2>2. CASE w.row # {}
      <3>1. PICK row : row = (CHOOSE p \in w.row : TRUE)
        OBVIOUS
      <3>2. row \in Posting
        BY <1>3, <2>2, <3>1
      <3>3. After(w) = [row EXCEPT !.chats = (postRows.chats \ w.drop) \cup w.put]
        BY <2>2, <3>1 DEF After
      <3> QED BY <1>3, <3>2, <3>3 DEF Posting
    <2> QED BY <2>1, <2>2
  <1>5. Nothing \in [put : SUBSET PostChat, drop : SUBSET PostChat, row : SUBSET Posting]
        /\ Nothing.put = {} /\ Nothing.drop = {}
    BY DEF Nothing
  <1>6. RowKinds'
    <2>1. postRows' \in Posting /\ loose' \subseteq PostChat
      BY <1>2, <1>3, <1>4 DEF OInv, RowKinds
    <2> QED BY <1>2, <1>5, <2>1 DEF OInv, RowKinds
  <1>7. ASSUME NEW c \in DOMAIN late' \ loose'
        PROVE  /\ \A u \in PostTask : c \notin postSaves'[u].put
               /\ c \in postRows'.chats => \E u \in PostTask : c \in postSaves'[u].drop
    <2>1. c \in DOMAIN late \ loose
      BY <1>2, <1>7
    <2>2. \A u \in PostTask : c \notin postSaves[u].put
      BY <2>1 DEF OInv, Deleted
    <2>3. /\ postSaves'[t] = Nothing
          /\ \A u \in PostTask \ {t} : postSaves'[u] = postSaves[u]
      BY <1>2 DEF OInv, RowKinds
    <2>4. \A u \in PostTask : c \notin postSaves'[u].put
      BY <1>5, <2>2, <2>3
    <2>5. ASSUME c \in postRows'.chats
          PROVE  \E u \in PostTask : c \in postSaves'[u].drop
      <3>1. c \in postRows.chats /\ c \notin w.drop
        BY <1>2, <1>4, <1>7, <2>2, <2>5
      <3>2. PICK u \in PostTask : c \in postSaves[u].drop
        BY <2>1, <3>1 DEF OInv, Deleted
      <3> QED BY <2>3, <3>1, <3>2
    <2> QED BY <2>4, <2>5
  <1> QED BY <1>6, <1>7 DEF Deleted

\* What is stored, under every step.
LEMMA RowsKept ==
    ASSUME OInv, OutgoingAssumption, OutgoingNext
    PROVE  RowKinds' /\ Deleted'
  <1> DEFINE Write == [put : SUBSET PostChat, drop : SUBSET PostChat, row : SUBSET Posting]
  <1>1. CASE WorkerNext \/ PostTick
    <2>1. UNCHANGED savedVars /\ DOMAIN late' = DOMAIN late
      BY <1>1 DEF WorkerNext, PostTick, GapOver, MinuteOver, Round, SendOk, SendFails, SendFlood,
             FloodOver, RoundOver, NextChat, Limiter, Working, Sent, postVars
    <2> QED BY <2>1 DEF savedVars, OInv, RowKinds, Deleted
  <1>2. CASE SaverNext
    BY <1>2, SaverRows
  <1>3. CASE PostCrash
    <2>1. /\ postRows' = postRows /\ loose' = {}
          /\ postSaves' = [t \in PostTask |-> Nothing]
      BY <1>3 DEF PostCrash
    <2>2. Nothing \in Write /\ Nothing.put = {}
      BY DEF Nothing
    <2>3. RowKinds'
      BY <2>1, <2>2 DEF OInv, RowKinds
    <2>4. PInv' /\ post' = postRows
      BY <1>3, CrashTickInv DEF PostCrash
    <2>5. \A c \in DOMAIN late' : c \notin postRows'.chats
      BY <2>1, <2>4 DEF PInv, Copied
    <2> QED BY <2>1, <2>2, <2>3, <2>5 DEF Deleted
  <1>4. CASE OwnerNext
    <2>1. post' \in Posting /\ postRows' = postRows
      <3>1. PInv'
        BY <1>4, OwnerInv
      <3>2. postRows' = postRows
        BY <1>4 DEF OwnerNext, PostOn, PostOff, PostText, PostClear, PostNow, PostInterval, PostSwitch,
               PostAdd, PostRemove, Owner
      <3> QED BY <3>1, <3>2 DEF PInv, PostKinds
    <2>2. RowOf(post') \in Write /\ RowOf(post').put = {} /\ RowOf(post').drop = {}
      BY <2>1 DEF RowOf, Nothing, Posting
    <2>3. CASE \/ PostOn \/ PostOff \/ PostText
               \/ \E n \in Interval : PostInterval(n) \/ \E b \in BOOLEAN : PostSwitch(b, n)
      <3>1. Saves(RowOf(post')) /\ late' = late
        BY <2>3 DEF PostOn, PostOff, PostText, PostInterval, PostSwitch
      <3> QED BY <2>1, <2>2, <3>1, SavesKept DEF OInv
    <2>4. CASE PostNow
      BY <2>1, <2>4 DEF PostNow, OInv, RowKinds, Deleted
    <2>5. CASE PostClear
      <3>1. PICK w : w = [Nothing EXCEPT !.drop = PostChat]
        OBVIOUS
      <3>2. w \in Write /\ w.put = {} /\ w.drop = PostChat
        BY <3>1 DEF Nothing
      <3>3. Saves(w) /\ DOMAIN late' \subseteq DOMAIN late \cup post.chats
        BY <2>5, <3>1 DEF PostClear, Off
      <3>4. post.chats \subseteq w.drop
        BY <3>2 DEF OInv, PInv, PostKinds, Posting
      <3> QED BY <2>1, <3>2, <3>3, <3>4, SavesKept DEF OInv
    <2>6. ASSUME NEW c \in PostChat, PostRemove(c)
          PROVE  RowKinds' /\ Deleted'
      <3>1. PICK w : w = [Nothing EXCEPT !.drop = {c}]
        OBVIOUS
      <3>2. w \in Write /\ w.put = {} /\ w.drop = {c}
        BY <3>1 DEF Nothing
      <3>3. Saves(w) /\ DOMAIN late' \subseteq DOMAIN late \cup {c}
        BY <2>6, <3>1 DEF PostRemove, Off
      <3> QED BY <2>1, <3>2, <3>3, SavesKept DEF OInv
    <2>7. ASSUME NEW c \in PostChat, PostAdd(c)
          PROVE  RowKinds' /\ Deleted'
      <3>1. PICK w : w = [Nothing EXCEPT !.put = {c}]
        OBVIOUS
      <3>2. w \in Write /\ w.put = {c} /\ w.drop = {}
        BY <3>1 DEF Nothing
      <3>3. Saves(w) /\ DOMAIN late' \subseteq DOMAIN late \cup {} /\ DOMAIN late' \cap w.put = {}
        BY <2>7, <3>1, <3>2 DEF PostAdd
      <3> QED BY <2>1, <3>2, <3>3, SavesKept DEF OInv
    <2> QED BY <1>4, <2>3, <2>4, <2>5, <2>6, <2>7 DEF OwnerNext
  <1> QED BY <1>1, <1>2, <1>3, <1>4 DEF OutgoingNext

\* Every step keeps the invariant.
LEMMA OutgoingStepInv ==
    ASSUME OutgoingAssumption, OInv, [OutgoingNext]_postingVars
    PROVE  OInv'
  <1>1. CASE OutgoingNext
    <2>1. PInv'
      BY <1>1, OwnerInv, SaverKeeps, LimiterInv, RoundInv, CrashTickInv DEF OutgoingNext, WorkerNext
    <2> QED BY <1>1, <2>1, RowsKept DEF OInv
  <1>2. CASE UNCHANGED postingVars
    <2>1. UNCHANGED postVars /\ UNCHANGED envVars /\ UNCHANGED savedVars
      BY <1>2 DEF postingVars, postVars
    <2>2. PInv'
      BY <2>1 DEF envVars, postVars, OInv, PInv, PostKinds, IsPoster, Timed, Copied, Spaced, GapKept
    <2>3. RowKinds' /\ Deleted'
      BY <2>1 DEF postVars, savedVars, OInv, RowKinds, Deleted
    <2> QED BY <2>2, <2>3 DEF OInv
  <1> QED BY <1>1, <1>2

\* A step from a sleeping worker to a round is Round, and unless the owner asked
\* for it the timer has run down.
LEMMA RoundIsTimed ==
    ASSUME OutgoingAssumption, OInv, [OutgoingNext]_postingVars
    PROVE  [poster.place = "sleep" /\ poster'.place = "next" /\ ~force
              => now - roundEnd >= MinInterval]_<<poster, force, now, roundEnd>>
  <1> SUFFICES ASSUME poster.place = "sleep", poster'.place = "next", ~force
               PROVE  now - roundEnd >= MinInterval
    OBVIOUS
  <1>1. poster' # poster
    OBVIOUS
  <1>2. Round
    <2>1. ~OwnerNext /\ ~PostTick /\ ~UNCHANGED postingVars
      BY <1>1 DEF OwnerNext, postingVars, postVars, Owner, PostOn, PostOff, PostText, PostClear, PostNow,
             PostInterval, PostSwitch, PostAdd, PostRemove, PostTick
    <2>2. ~PostCrash /\ ~RoundOver /\ ~SaverNext
      BY <1>1 DEF PostCrash, RoundOver, Asleep, SaverNext, PostSaved, PostSaveFails, SaveEnds
    <2>3. /\ ~GapOver /\ ~MinuteOver /\ ~SendOk /\ ~SendFails /\ ~SendFlood /\ ~FloodOver
          /\ \A c \in PostChat : ~NextChat(c)
      BY DEF GapOver, MinuteOver, SendOk, SendFails, SendFlood, FloodOver, NextChat
    <2> QED BY <2>1, <2>2, <2>3 DEF OutgoingNext, WorkerNext
  <1>3. now >= nextRun
    BY <1>2 DEF Round
  <1> QED BY <1>3 DEF OInv, PInv, PostKinds, Timed, OutgoingAssumption

-----------------------------------------------------------------------------
\* The invariant the others rest on holds in every reachable state.
THEOREM OutgoingInvariant == ASSUME OutgoingAssumption PROVE OutgoingSpec => []OInv
  <1>1. EnvInit /\ PostInit => OInv
    BY OutgoingInitInv
  <1>2. OInv /\ [OutgoingNext]_postingVars => OInv'
    BY OutgoingStepInv
  <1> QED BY <1>1, <1>2, PTL DEF OutgoingSpec

\* A round nobody asked for starts the shortest interval, at least, after the
\* last one ended, or after the process started (autopost.py:134, 148).
THEOREM RoundsKeepApart == ASSUME OutgoingAssumption PROVE OutgoingSpec => RoundsApart
  <1>1. OInv /\ [OutgoingNext]_postingVars
          => [poster.place = "sleep" /\ poster'.place = "next" /\ ~force
                => now - roundEnd >= MinInterval]_<<poster, force, now, roundEnd>>
    BY RoundIsTimed
  <1> QED BY <1>1, OutgoingInvariant, PTL DEF OutgoingSpec, RoundsApart

\* A chat taken off the list gets one more post at most until it is put on again,
\* by a command or by a restart that finds its row because the deletion failed, was
\* cut off or met another save of it (autopost.py:136; autopost_store.py:20-56).
THEOREM OneLatePostOnly == ASSUME OutgoingAssumption PROVE OutgoingSpec => []OneLatePost
  <1>1. OInv => OneLatePost
    BY DEF OInv, PInv, Copied, OneLatePost
  <1> QED BY <1>1, OutgoingInvariant, PTL

-----------------------------------------------------------------------------
(* The budget of a minute, of which the limiter forgets a part each time it *)
(* has waited for it.                                                       *)

\* The instants of this process at which a send went, and those of the last
\* Minute that the limiter does not count any more.
Sends     == {passed[i] : i \in DOMAIN passed}
Forgotten == {t \in Sends \ window : now - t < Minute}

\* Sends went one after the other.
Past ==
    /\ lastSend <= now
    /\ \A i \in 1..Len(passed) : passed[i] \in Nat /\ passed[i] <= lastSend
    /\ \A i, j \in 1..Len(passed) : i < j => passed[i] < passed[j]

\* The window holds the last of the sends, at most PerMinute; fewer than that were
\* forgotten before their minute was over.
Budget ==
    /\ window \subseteq Sends
    /\ IsFiniteSet(window) /\ Cardinality(window) <= PerMinute
    /\ \A t \in Sends \ window, u \in window : t < u
    /\ IsFiniteSet(Forgotten) /\ Cardinality(Forgotten) < PerMinute

\* Who waits for the budget waits until some send of the window is too old.
Awaited == poster.place = "minute" => \E first \in window : poster.until = first + Minute + 1

\* Of any 2 * PerMinute sends the last is a Minute, at least, after the first.
TwiceAtMost ==
    \A i \in 1..(Len(passed) + 1 - 2 * PerMinute) :
      passed[i + 2 * PerMinute - 1] - passed[i] >= Minute

BInv == Past /\ Budget /\ Awaited /\ TwiceAtMost

-----------------------------------------------------------------------------
\* Where the naturals are well ordered, a set of them has a least element.
LEMMA LeastInOrder ==
    ASSUME NEW R, IsWellFoundedOn(R, Nat), \A x, y \in Nat : y < x => <<y, x>> \in R,
           NEW S \in SUBSET Nat, S # {}
    PROVE  \E x \in S : \A y \in S : x <= y
  <1>1. PICK x \in S : \A y \in S : ~(<<y, x>> \in R)
    BY WFMin
  <1>2. ASSUME NEW y \in S
        PROVE  x <= y
    <2>1. x \in Nat /\ y \in Nat
      OBVIOUS
    <2>2. ~(y < x)
      BY <1>1, <2>1
    <2> QED BY <2>1, <2>2
  <1> QED BY <1>2

\* The first of some instants is one of them.
LEMMA FirstInstant ==
    ASSUME NEW S \in SUBSET Nat, S # {}
    PROVE  Min(S) \in S
  <1>1. \A x, y \in Nat : y < x => <<y, x>> \in OpToRel(<, Nat)
    BY DEF OpToRel
  <1>2. \E x \in S : \A y \in S : x <= y
    BY <1>1, NatLessThanWellFounded, LeastInOrder
  <1> QED BY <1>2 DEF Min

\* Where no send goes and the window stays, time only helps.
LEMMA BudgetStays ==
    ASSUME OutgoingAssumption, OInv, BInv, UNCHANGED <<window, passed, lastSend>>,
           now' \in Nat, now <= now', Awaited'
    PROVE  BInv'
  <1>1. now \in Nat /\ lastSend \in Int /\ Minute \in Nat /\ PerMinute \in Nat
    BY DEF OInv, PInv, PostKinds, OutgoingAssumption
  <1>2. Past'
    BY <1>1 DEF BInv, Past
  <1>3. TwiceAtMost'
    BY DEF BInv, TwiceAtMost
  <1>4. Sends' = Sends
    BY DEF Sends
  <1>5. \A t \in Sends : t \in Nat
    BY DEF Sends, BInv, Past, OInv, PostKinds
  <1>6. Forgotten' \in SUBSET Forgotten
    BY <1>1, <1>4, <1>5 DEF Forgotten
  <1>7. IsFiniteSet(Forgotten') /\ Cardinality(Forgotten') < PerMinute
    <2>1. /\ IsFiniteSet(Forgotten') /\ Cardinality(Forgotten') <= Cardinality(Forgotten)
          /\ Cardinality(Forgotten) < PerMinute
      BY <1>6, FS_Subset DEF BInv, Budget
    <2>2. Cardinality(Forgotten') \in Nat /\ Cardinality(Forgotten) \in Nat
      BY <2>1, FS_CardinalityType DEF BInv, Budget
    <2> QED BY <1>1, <2>1, <2>2
  <1>8. Budget'
    BY <1>4, <1>7 DEF BInv, Budget
  <1> QED BY <1>2, <1>3, <1>8 DEF BInv

\* A send that goes while fewer than PerMinute are counted, and fewer than that
\* were forgotten in the last Minute.
LEMMA PassWithinTwice ==
    ASSUME OutgoingAssumption, OInv, BInv, NEW p, NEW w, NEW F, Pass(p, w), now' = now,
           now >= lastSend + Gap, w \in SUBSET window,
           IsFiniteSet(w), Cardinality(w) < PerMinute,
           \A t \in window \ w, u \in w : t < u,
           F = {t \in Sends \ w : now - t < Minute},
           IsFiniteSet(F), Cardinality(F) < PerMinute
    PROVE  Past' /\ Budget' /\ TwiceAtMost'
  <1> DEFINE n == Len(passed)
  <1>1. /\ now \in Nat /\ lastSend \in Int /\ Minute \in Nat /\ PerMinute \in Nat \ {0}
        /\ Gap \in Nat \ {0} /\ passed \in Seq(Int) /\ n \in Nat
    BY DEF OInv, PInv, PostKinds, OutgoingAssumption
  <1>2. window' = w \cup {now} /\ lastSend' = now /\ passed' = Append(passed, now)
    BY DEF Pass
  <1>3. /\ Len(passed') = n + 1 /\ passed'[n + 1] = now /\ DOMAIN passed' = 1..(n + 1)
        /\ DOMAIN passed = 1..n
        /\ \A i \in 1..n : passed'[i] = passed[i]
    BY <1>1, <1>2
  <1> HIDE DEF n
  <1>4. lastSend < now
    BY <1>1
  <1>5. \A i \in 1..n : passed[i] \in Nat /\ passed[i] <= lastSend
    BY DEF BInv, Past, n
  <1>6. Past'
    <2>1. \A i \in 1..(n + 1) : passed'[i] \in Nat /\ passed'[i] <= now
      BY <1>1, <1>3, <1>4, <1>5
    <2>2. ASSUME NEW i \in 1..(n + 1), NEW j \in 1..(n + 1), i < j
          PROVE  passed'[i] < passed'[j]
      <3>1. CASE j = n + 1
        BY <1>1, <1>3, <1>4, <1>5, <2>2, <3>1
      <3>2. CASE j \in 1..n
        BY SMTT(30), <1>1, <1>3, <2>2, <3>2 DEF BInv, Past, n
      <3> QED BY <1>1, <3>1, <3>2
    <2> QED BY <1>1, <1>2, <1>3, <2>1, <2>2 DEF Past
  <1>7. Sends' = Sends \cup {now} /\ now \notin Sends
    <2>1. Sends' = {passed'[i] : i \in 1..(n + 1)} /\ Sends = {passed[i] : i \in 1..n}
      BY <1>3 DEF Sends
    <2>2. \A i \in 1..(n + 1) : i \in 1..n \/ i = n + 1
      BY <1>1
    <2>3. 1..n \subseteq 1..(n + 1) /\ n + 1 \in 1..(n + 1)
      BY <1>1
    <2>4. Sends' = Sends \cup {now}
      BY <1>3, <2>1, <2>2, <2>3
    <2>5. ASSUME NEW i \in 1..n
          PROVE  passed[i] # now
      BY <1>1, <1>4, <1>5
    <2> QED BY <2>1, <2>4, <2>5
  <1>8. Sends' \ window' = Sends \ w
    BY <1>2, <1>7
  <1>9. Budget'
    <2>1. window' \subseteq Sends'
      BY <1>2, <1>7 DEF BInv, Budget
    <2>2. IsFiniteSet(window') /\ Cardinality(window') <= PerMinute
      <3>1. /\ IsFiniteSet(window')
            /\ Cardinality(window') = Cardinality(w) \/ Cardinality(window') = Cardinality(w) + 1
        BY <1>2, FS_AddElement
      <3>2. Cardinality(w) \in Nat
        BY FS_CardinalityType
      <3> QED BY <1>1, <3>1, <3>2
    <2>3. ASSUME NEW t \in Sends' \ window', NEW u \in window'
          PROVE  t < u
      <3>1. t \in Sends /\ t \notin w
        BY <1>8, <2>3
      <3>2. CASE u = now
        BY <1>1, <1>3, <1>4, <1>5, <3>1, <3>2 DEF Sends
      <3>3. CASE u \in w
        BY <3>1, <3>3 DEF BInv, Budget
      <3> QED BY <1>2, <2>3, <3>2, <3>3
    <2>4. Forgotten' = F
      BY <1>8 DEF Forgotten
    <2> QED BY <2>1, <2>2, <2>3, <2>4 DEF Budget
  <1>10. TwiceAtMost'
    <2> SUFFICES ASSUME NEW i \in 1..(n + 2 - 2 * PerMinute)
                 PROVE  passed'[i + 2 * PerMinute - 1] - passed'[i] >= Minute
      BY <1>1, <1>3 DEF TwiceAtMost
    <2>1. i \in 1..n /\ i + 2 * PerMinute - 1 \in 1..(n + 1)
      BY <1>1
    <2>2. CASE i + 2 * PerMinute - 1 <= n
      <3>1. i \in 1..(n + 1 - 2 * PerMinute) /\ i + 2 * PerMinute - 1 \in 1..n
        BY <1>1, <2>2
      <3>2. passed[i + 2 * PerMinute - 1] - passed[i] >= Minute
        BY <3>1 DEF BInv, TwiceAtMost, n
      <3> QED BY <1>3, <2>1, <3>1, <3>2
    <2>3. CASE i + 2 * PerMinute - 1 = n + 1
      <3>1. passed'[i + 2 * PerMinute - 1] = now /\ passed'[i] = passed[i] /\ passed[i] \in Nat
        BY <1>3, <1>5, <2>1, <2>3
      <3>2. SUFFICES ASSUME now - passed[i] < Minute
                     PROVE  FALSE
        BY <1>1, <3>1
      <3> DEFINE f == [j \in i..n |-> passed[j]]
      <3>3. ASSUME NEW j \in i..n
            PROVE  passed[j] \in w \cup F
        <4>1. j \in 1..n /\ passed[j] \in Sends
          BY <1>1, <1>3, <2>1 DEF Sends
        <4>2. passed[i] <= passed[j] /\ passed[j] \in Nat
          BY <1>1, <1>5, <2>1, <4>1 DEF BInv, Past, n
        <4>3. now - passed[j] < Minute
          BY <1>1, <3>1, <3>2, <4>2
        <4> QED BY <4>1, <4>3
      <3>4. ASSUME NEW j \in i..n, NEW k \in i..n, passed[j] = passed[k]
            PROVE  j = k
        <4>1. j \in 1..n /\ k \in 1..n
          BY <1>1, <2>1
        <4>2. passed[j] \in Nat /\ passed[k] \in Nat
          BY <1>5, <4>1
        <4>3. ~(j < k) /\ ~(k < j)
          BY <3>4, <4>1, <4>2 DEF BInv, Past, n
        <4> QED BY <4>1, <4>3
      <3>5. f \in Injection(i..n, w \cup F)
        BY <3>3, <3>4 DEF Injection, IsInjective
      <3>6. IsFiniteSet(w \cup F) /\ Cardinality(w \cup F) <= Cardinality(w) + Cardinality(F)
        <4>1. /\ IsFiniteSet(w \cup F)
              /\ Cardinality(w \cup F) = Cardinality(w) + Cardinality(F) - Cardinality(w \cap F)
          BY FS_Union
        <4>2. IsFiniteSet(w \cap F)
          BY FS_Intersection
        <4>3. Cardinality(w) \in Nat /\ Cardinality(F) \in Nat /\ Cardinality(w \cap F) \in Nat
          BY <4>2, FS_CardinalityType
        <4> QED BY <4>1, <4>3
      <3>7. Cardinality(i..n) <= Cardinality(w \cup F)
        <4> HIDE DEF f
        <4> QED BY <3>5, <3>6, FS_Injection
      <3>8. Cardinality(i..n) = 2 * PerMinute - 1
        <4>1. Cardinality(i..n) = IF i > n THEN 0 ELSE n - i + 1
          BY <1>1, <2>1, FS_Interval
        <4> QED BY <1>1, <2>1, <2>3, <4>1
      <3>9. Cardinality(w) \in Nat /\ Cardinality(F) \in Nat /\ Cardinality(w \cup F) \in Nat
        BY <3>6, FS_CardinalityType
      <3> QED BY <1>1, <3>6, <3>7, <3>8, <3>9
    <2> QED BY <1>1, <2>1, <2>2, <2>3
  <1> QED BY <1>6, <1>9, <1>10

\* The budget of a minute: what is too old is not counted any more, and who has
\* to wait waits for the first of those that are.
LEMMA CheckMinuteBudget ==
    ASSUME OutgoingAssumption, OInv, BInv, NEW p, CheckMinute(p), IsPoster(p), now' = now,
           now >= lastSend + Gap
    PROVE  BInv'
  <1>1. now \in Nat /\ Minute \in Nat /\ PerMinute \in Nat \ {0}
    BY DEF OInv, PInv, PostKinds, OutgoingAssumption
  <1>2. window \subseteq Nat
    BY DEF BInv, Budget, Past, Sends, OInv, PostKinds
  <1>3. Recent \in SUBSET window
    BY DEF Recent
  <1>4. IsFiniteSet(Recent) /\ Cardinality(Recent) \in Nat
    BY <1>3, FS_Subset, FS_CardinalityType DEF BInv, Budget
  <1>5. \A t \in window \ Recent, u \in Recent : t < u
    <2>1. ASSUME NEW t \in window \ Recent, NEW u \in Recent
          PROVE  t < u
      <3>1. t \in Nat /\ u \in Nat /\ ~(now - t < Minute) /\ now - u < Minute
        BY <1>2, <2>1 DEF Recent
      <3> QED BY <1>1, <3>1
    <2> QED BY <2>1
  <1>6. Forgotten = {t \in Sends \ Recent : now - t < Minute}
    BY DEF Forgotten, Recent
  <1>7. IsFiniteSet(Forgotten) /\ Cardinality(Forgotten) < PerMinute
    BY DEF BInv, Budget
  <1>8. CASE Cardinality(Recent) < PerMinute
    <2>1. Pass(p, Recent)
      BY <1>8 DEF CheckMinute
    <2>2. Past' /\ Budget' /\ TwiceAtMost'
      BY <1>3, <1>4, <1>5, <1>6, <1>7, <1>8, <2>1, PassWithinTwice
    <2>3. Awaited'
      BY <2>1 DEF Pass, IsPoster, Awaited
    <2> QED BY <2>2, <2>3 DEF BInv
  <1>9. CASE ~(Cardinality(Recent) < PerMinute)
    <2>1. /\ poster' = [p EXCEPT !.place = "minute", !.until = Min(Recent) + Minute + 1]
          /\ window' = Recent /\ UNCHANGED <<lastSend, passed>>
      BY <1>9 DEF CheckMinute
    <2>2. Past' /\ TwiceAtMost'
      BY <2>1 DEF BInv, Past, TwiceAtMost
    <2>3. Budget'
      <3>1. Sends' = Sends
        BY <2>1 DEF Sends
      <3>2. Forgotten' = Forgotten
        BY <1>6, <2>1, <3>1 DEF Forgotten
      <3>3. Cardinality(Recent) <= PerMinute
        <4>1. Cardinality(Recent) <= Cardinality(window) /\ Cardinality(window) <= PerMinute
          BY <1>3, FS_Subset DEF BInv, Budget
        <4>2. Cardinality(window) \in Nat
          BY FS_CardinalityType DEF BInv, Budget
        <4> QED BY <1>1, <1>4, <4>1, <4>2
      <3>4. \A t \in Sends \ Recent, u \in Recent : t < u
        BY <1>3, <1>5 DEF BInv, Budget
      <3>5. Recent \subseteq Sends
        BY <1>3 DEF BInv, Budget
      <3> QED BY <1>4, <1>7, <2>1, <3>1, <3>2, <3>3, <3>4, <3>5 DEF Budget
    <2>4. Awaited'
      <3>1. Recent # {}
        <4>1. Cardinality({}) = 0
          BY FS_EmptySet
        <4> QED BY <1>1, <1>9, <4>1
      <3>2. Min(Recent) \in Recent
        BY <1>2, <1>3, <3>1, FirstInstant
      <3>3. poster'.until = Min(Recent) + Minute + 1
        BY <2>1 DEF IsPoster
      <3> QED BY <2>1, <3>2, <3>3 DEF Awaited
    <2> QED BY <2>2, <2>3, <2>4 DEF BInv
  <1> QED BY <1>8, <1>9

\* The wait for the budget is over: of the whole window that is forgotten, the
\* first is too old by then, and what was forgotten before is older.
LEMMA MinuteOverBudget ==
    ASSUME OutgoingAssumption, OInv, BInv, MinuteOver
    PROVE  BInv'
  <1>1. now \in Nat /\ Minute \in Nat /\ PerMinute \in Nat \ {0}
    BY DEF OInv, PInv, PostKinds, OutgoingAssumption
  <1>2. Pass(poster, {}) /\ now' = now /\ poster.place = "minute" /\ now >= poster.until
    BY DEF MinuteOver, Limiter, Calm, envVars
  <1>3. PICK first \in window : poster.until = first + Minute + 1
    BY <1>2 DEF BInv, Awaited
  <1>4. \A t \in Sends : t \in Nat
    BY DEF Sends, BInv, Past, OInv, PostKinds
  <1>5. first \in Nat /\ ~(now - first < Minute)
    BY <1>1, <1>2, <1>3, <1>4 DEF BInv, Budget
  <1> DEFINE F == {t \in Sends \ {} : now - t < Minute}
  <1>6. F \in SUBSET (window \ {first})
    <2>1. ASSUME NEW t \in F
          PROVE  t \in window /\ t # first
      <3>1. t \in Sends /\ now - t < Minute /\ t \in Nat
        BY <1>4, <2>1
      <3>2. t # first
        BY <1>5, <3>1
      <3>3. CASE t \notin window
        <4>1. t < first
          BY <1>3, <3>1, <3>3 DEF BInv, Budget
        <4> QED BY <1>1, <1>5, <3>1, <4>1
      <3> QED BY <3>2, <3>3
    <2> QED BY <2>1
  <1>7. IsFiniteSet(F) /\ Cardinality(F) < PerMinute
    <2>1. /\ IsFiniteSet(window \ {first})
          /\ Cardinality(window \ {first}) = Cardinality(window) - 1
      BY <1>3, FS_RemoveElement DEF BInv, Budget
    <2>2. Cardinality(window) \in Nat /\ Cardinality(window) <= PerMinute
      BY FS_CardinalityType DEF BInv, Budget
    <2>3. IsFiniteSet(F) /\ Cardinality(F) <= Cardinality(window \ {first}) /\ Cardinality(F) \in Nat
      <3> HIDE DEF F
      <3> QED BY <1>6, <2>1, FS_Subset, FS_CardinalityType
    <2> QED BY <1>1, <2>1, <2>2, <2>3
  <1>8. IsFiniteSet({}) /\ Cardinality({}) < PerMinute
    BY <1>1, FS_EmptySet
  <1>9. now >= lastSend + Gap
    BY <1>2 DEF OInv, PInv, Spaced
  <1>10. F = {t \in Sends \ {} : now - t < Minute}
    OBVIOUS
  <1>11. Past' /\ Budget' /\ TwiceAtMost'
    <2> HIDE DEF F
    <2> QED BY <1>2, <1>7, <1>8, <1>9, <1>10, PassWithinTwice
  <1>12. Awaited'
    BY <1>2 DEF Pass, OInv, PostKinds, IsPoster, Awaited
  <1> QED BY <1>11, <1>12 DEF BInv

\* The first instant of a process: nothing was sent.
LEMMA NothingSent ==
    ASSUME OutgoingAssumption, passed = <<>>, window = {}, poster = Asleep, lastSend <= now
    PROVE  BInv
  <1>1. Sends = {} /\ Len(passed) = 0
    BY DEF Sends
  <1>2. Forgotten = {}
    BY <1>1 DEF Forgotten
  <1>3. Past
    BY <1>1 DEF Past
  <1>4. Budget
    BY <1>1, <1>2, FS_EmptySet DEF Budget, OutgoingAssumption
  <1>5. TwiceAtMost
    BY <1>1 DEF TwiceAtMost, OutgoingAssumption
  <1>6. Awaited
    BY DEF Awaited, Asleep
  <1> QED BY <1>3, <1>4, <1>5, <1>6 DEF BInv

\* Every step keeps the budget.
LEMMA BudgetStep ==
    ASSUME OutgoingAssumption, OInv, BInv, [OutgoingNext]_postingVars
    PROVE  BInv'
  <1>1. now \in Nat /\ Gap \in Nat /\ lastSend \in Int /\ IsPoster(poster)
    BY DEF OInv, PInv, PostKinds, OutgoingAssumption
  <1>2. CASE OwnerNext \/ SaverNext \/ PostTick \/ UNCHANGED postingVars
    <2>1. UNCHANGED <<poster, window, passed, lastSend>>
      BY <1>2 DEF OwnerNext, SaverNext, PostSaved, PostSaveFails, SaveEnds, PostTick, postingVars, postVars, Owner, PostOn, PostOff, PostText, PostClear,
             PostNow, PostInterval, PostSwitch, PostAdd, PostRemove
    <2>2. now' = now \/ now' = now + 1
      BY <1>2 DEF OwnerNext, SaverNext, PostSaved, PostSaveFails, Calm, Fault, PostTick, Advance, postingVars, envVars, Owner, Ordered, PostOn, PostOff,
             PostText, PostClear, PostNow, PostInterval, PostSwitch, PostAdd, PostRemove
    <2>3. Awaited'
      BY <2>1 DEF BInv, Awaited
    <2> QED BY <1>1, <2>1, <2>2, <2>3, BudgetStays
  <1>3. CASE Round \/ SendOk \/ SendFails \/ SendFlood \/ FloodOver \/ RoundOver
    <2>1. UNCHANGED <<window, passed, lastSend, now>>
      BY <1>3 DEF Round, SendOk, SendFails, SendFlood, FloodOver, RoundOver, Working, Calm, Fault,
             envVars
    <2>2. poster'.place # "minute"
      <3>1. CASE Round \/ SendOk \/ SendFails
        BY <1>1, <3>1 DEF Round, SendOk, SendFails, IsPoster
      <3>2. CASE SendFlood
        BY <1>1, <3>2 DEF SendFlood, IsPoster
      <3>3. CASE FloodOver
        BY <1>1, <3>3 DEF FloodOver, IsPoster
      <3>4. CASE RoundOver
        BY <3>4 DEF RoundOver, Asleep
      <3> QED BY <1>3, <3>1, <3>2, <3>3, <3>4
    <2>3. Awaited'
      BY <2>2 DEF Awaited
    <2> QED BY <1>1, <2>1, <2>3, BudgetStays
  <1>4. CASE MinuteOver
    BY <1>4, MinuteOverBudget
  <1>5. CASE GapOver
    <2>1. now >= lastSend + Gap /\ CheckMinute(poster) /\ now' = now
      BY <1>5 DEF GapOver, OInv, PInv, Spaced, Limiter, Calm, envVars
    <2> QED BY <1>1, <2>1, CheckMinuteBudget
  <1>6. ASSUME NEW c \in PostChat, NextChat(c)
        PROVE  BInv'
    <2> DEFINE p == [poster EXCEPT !.left = @ \ {c}, !.to = {c}]
    <2>1. IsPoster(p) /\ now' = now
      BY <1>1, <1>6 DEF NextChat, IsPoster, Limiter, Calm, envVars
    <2>2. CASE now - lastSend < Gap
      <3>1. poster' = [p EXCEPT !.place = "gap", !.until = lastSend + Gap]
            /\ UNCHANGED <<lastSend, window, passed>>
        BY <1>6, <2>2 DEF NextChat
      <3>2. Awaited'
        BY <2>1, <3>1 DEF Awaited, IsPoster
      <3> QED BY <1>1, <2>1, <3>1, <3>2, BudgetStays
    <2>3. CASE ~(now - lastSend < Gap)
      <3>1. CheckMinute(p) /\ now >= lastSend + Gap
        BY <1>1, <1>6, <2>3 DEF NextChat
      <3> HIDE DEF p
      <3> QED BY <2>1, <3>1, CheckMinuteBudget
    <2> QED BY <2>2, <2>3
  <1>7. CASE PostCrash
    <2>1. /\ passed' = <<>> /\ window' = {} /\ poster' = Asleep /\ now' = now
          /\ lastSend' = now - Gap
      BY <1>7 DEF PostCrash, Fault
    <2>2. Sends' = {} /\ Len(passed') = 0
      BY <2>1 DEF Sends
    <2>3. Forgotten' = {}
      BY <2>2 DEF Forgotten
    <2>4. Past'
      BY <1>1, <2>1, <2>2 DEF Past
    <2>5. Budget'
      BY <2>1, <2>2, <2>3, FS_EmptySet DEF Budget, OutgoingAssumption
    <2>6. TwiceAtMost'
      BY <2>2 DEF TwiceAtMost, OutgoingAssumption
    <2>7. Awaited'
      BY <2>1 DEF Awaited, Asleep
    <2> QED BY <2>4, <2>5, <2>6, <2>7 DEF BInv
  <1> QED BY <1>2, <1>3, <1>4, <1>5, <1>6, <1>7 DEF OutgoingNext, WorkerNext

\* Sends are Gap apart, and no Minute holds 2 * PerMinute of them, whatever
\* floods, failures, commands and restarts come between (rate_limiter.py:24-41).
THEOREM SendsArePaced == ASSUME OutgoingAssumption PROVE OutgoingSpec => []PacedSends
  <1>1. EnvInit /\ PostInit => OInv /\ BInv
    <2> SUFFICES ASSUME EnvInit, PostInit
                 PROVE  OInv /\ BInv
      OBVIOUS
    <2>1. lastSend <= now
      BY DEF EnvInit, PostInit, OutgoingAssumption
    <2> QED BY <2>1, OutgoingInitInv, NothingSent DEF PostInit
  <1>2. OInv /\ BInv /\ [OutgoingNext]_postingVars => OInv' /\ BInv'
    BY OutgoingStepInv, BudgetStep
  <1>3. OInv /\ BInv => PacedSends
    BY DEF OInv, PInv, Spaced, BInv, TwiceAtMost, PacedSends
  <1> QED BY <1>1, <1>2, <1>3, PTL DEF OutgoingSpec

-----------------------------------------------------------------------------
(* Types.                                                                  *)

\* Every step of a service moves time, faults and orders within their bounds.
LEMMA EnvKept ==
    ASSUME EnvironmentAssumption, EnvTypeOK, Calm \/ Fault \/ Ordered \/ Advance
    PROVE  EnvTypeOK'
  BY DEF EnvironmentAssumption, EnvTypeOK, Calm, envVars, Fault, Ordered, Advance

LEMMA EnvAtFirst == ASSUME EnvironmentAssumption, EnvInit PROVE EnvTypeOK
  BY DEF EnvironmentAssumption, EnvTypeOK, EnvInit

\* The intervals a post can have, and the limiter and the round: whoever is
\* inside `wait` or sending has a chat, and nobody else.
Usual == Interval \cup {Longest(n) : n \in Interval}
Stays == (poster.place \in {"gap", "minute", "send"}) = (poster.to # {})

UsualRows ==
    /\ postRows.interval \in Usual
    /\ \A t \in PostTask : \A p \in postSaves[t].row : p.interval \in Usual

PostTInv ==
    /\ EnvTypeOK
    /\ post.interval \in Usual
    /\ UsualRows
    /\ Stays
    /\ window \subseteq 0..now
    /\ roundEnd >= 0

LEMMA PostTypesInit ==
    ASSUME OutgoingAssumption, EnvInit, PostInit
    PROVE  PostTInv
  <1>1. EnvTypeOK
    BY EnvAtFirst DEF OutgoingAssumption
  <1>2. post.interval \in Usual /\ UsualRows
    BY DEF PostInit, Usual, UsualRows, Nothing
  <1>3. Stays /\ window \subseteq 0..now /\ roundEnd >= 0
    BY DEF PostInit, Stays, Asleep
  <1> QED BY <1>1, <1>2, <1>3 DEF PostTInv

\* The worker and the owner in time.
LEMMA PostSteps ==
    ASSUME [OutgoingNext]_postingVars
    PROVE  Calm \/ Fault \/ Ordered \/ Advance
  <1>1. OwnerNext => Ordered
    BY DEF OwnerNext, Owner, PostOn, PostOff, PostText, PostClear, PostNow, PostInterval,
           PostSwitch, PostAdd, PostRemove
  <1>2. WorkerNext => Calm \/ Fault
    BY DEF WorkerNext, GapOver, MinuteOver, Round, SendOk, SendFails, SendFlood, FloodOver,
           RoundOver, NextChat, Limiter
  <1>3. PostCrash \/ PostTick \/ SaverNext => Fault \/ Advance \/ Calm
    BY DEF PostCrash, PostTick, SaverNext, PostSaved, PostSaveFails
  <1> QED BY <1>1, <1>2, <1>3 DEF OutgoingNext, postingVars, Calm

LEMMA PostTypesOwner ==
    ASSUME OutgoingAssumption, OInv, PostTInv, OwnerNext
    PROVE  /\ post'.interval \in Usual
           /\ UNCHANGED <<now, poster, window, roundEnd>>
  <1>1. UNCHANGED <<now, poster, window, roundEnd>>
    BY DEF OwnerNext, PostOn, PostOff, PostText, PostClear, PostNow, PostInterval, PostSwitch,
           PostAdd, PostRemove, Owner, Ordered
  <1>2. DOMAIN post = {"on", "text", "chats", "interval"}
    BY DEF OInv, PInv, PostKinds, Posting
  <1>3. CASE \E n \in Interval : PostInterval(n)
    <2>1. PICK n \in Interval : PostInterval(n)
      BY <1>3
    <2>2. post'.interval = Longest(n)
      BY <1>2, <2>1 DEF PostInterval
    <2> QED BY <1>1, <2>2 DEF Usual
  <1>4. CASE \E n \in Interval, b \in BOOLEAN : PostSwitch(b, n)
    <2>1. PICK n \in Interval, b \in BOOLEAN : PostSwitch(b, n)
      BY <1>4
    <2>2. post'.interval = n
      BY <1>2, <2>1 DEF PostSwitch
    <2> QED BY <1>1, <2>2 DEF Usual
  <1>5. CASE \/ PostOn \/ PostOff \/ PostText \/ PostClear \/ PostNow
             \/ \E c \in PostChat : PostAdd(c) \/ PostRemove(c)
    <2>1. post'.interval = post.interval
      BY <1>2, <1>5 DEF PostOn, PostOff, PostText, PostClear, PostNow, PostAdd, PostRemove
    <2> QED BY <1>1, <2>1 DEF PostTInv
  <1> QED BY <1>1, <1>3, <1>4, <1>5 DEF OwnerNext

\* A send let go, or kept for a minute.
LEMMA CheckTypes ==
    ASSUME OutgoingAssumption, OInv, PostTInv, UNCHANGED now,
           NEW p, IsPoster(p), p.to # {}, CheckMinute(p)
    PROVE  Stays' /\ window' \subseteq 0..now
  <1>1. Recent \subseteq 0..now /\ now \in 0..now
    <2>1. Recent \subseteq window /\ window \subseteq 0..now
      BY DEF Recent, PostTInv
    <2>2. now \in 0..now
      BY DEF OInv, PInv, PostKinds
    <2> QED BY <2>1, <2>2
  <1>2. CASE Pass(p, Recent)
    <2>1. poster'.place = "send" /\ poster'.to = p.to
      BY <1>2 DEF Pass, IsPoster
    <2>2. window' = Recent \cup {now}
      BY <1>2 DEF Pass
    <2> QED BY <1>1, <2>1, <2>2 DEF Stays
  <1>3. CASE ~Pass(p, Recent)
    <2>1. /\ poster' = [p EXCEPT !.place = "minute", !.until = Min(Recent) + Minute + 1]
          /\ window' = Recent
      BY <1>3 DEF CheckMinute
    <2>2. poster'.place = "minute" /\ poster'.to = p.to
      BY <2>1 DEF IsPoster
    <2> QED BY <1>1, <2>1, <2>2 DEF Stays
  <1> QED BY <1>2, <1>3

LEMMA PostTypesWorker ==
    ASSUME OutgoingAssumption, OInv, PostTInv, WorkerNext
    PROVE  /\ UNCHANGED <<now, post>> /\ roundEnd' \in {roundEnd, now}
           /\ Stays' /\ window' \subseteq 0..now
  <1>1. UNCHANGED now
    BY DEF WorkerNext, GapOver, MinuteOver, Round, SendOk, SendFails, SendFlood, FloodOver,
           RoundOver, NextChat, Limiter, Calm, Fault, envVars
  <1>2. UNCHANGED post /\ roundEnd' \in {roundEnd, now}
    BY DEF WorkerNext, GapOver, MinuteOver, Round, SendOk, SendFails, SendFlood, FloodOver,
           RoundOver, NextChat, Limiter, Working
  <1>3. IsPoster(poster) /\ window \subseteq 0..now /\ Stays /\ now \in 0..now
    BY DEF OInv, PInv, PostKinds, PostTInv
  <1>4. CASE GapOver
    <2>1. poster.to # {} /\ CheckMinute(poster)
      BY <1>3, <1>4 DEF GapOver, Stays
    <2> QED BY <1>1, <1>2, <1>3, <2>1, CheckTypes
  <1>5. CASE MinuteOver
    <2>1. poster'.place = "send" /\ poster'.to = poster.to /\ poster.to # {} /\ window' = {now}
      BY <1>3, <1>5 DEF MinuteOver, Pass, IsPoster, Stays
    <2> QED BY <1>1, <1>2, <1>3, <2>1 DEF Stays
  <1>6. ASSUME NEW c \in PostChat, NextChat(c)
        PROVE  Stays' /\ window' \subseteq 0..now
    <2>1. PICK p : p = [poster EXCEPT !.left = @ \ {c}, !.to = {c}]
      OBVIOUS
    <2>2. IsPoster(p) /\ p.to = {c}
      BY <1>3, <2>1 DEF IsPoster
    <2>3. CASE now - lastSend < Gap
      <3>1. poster' = [p EXCEPT !.place = "gap", !.until = lastSend + Gap] /\ window' = window
        BY <1>6, <2>1, <2>3 DEF NextChat
      <3>2. poster'.place = "gap" /\ poster'.to = {c}
        BY <2>2, <3>1 DEF IsPoster
      <3> QED BY <1>3, <3>1, <3>2 DEF Stays
    <2>4. CASE ~(now - lastSend < Gap)
      <3>1. CheckMinute(p)
        BY <1>6, <2>1, <2>4 DEF NextChat
      <3> QED BY <1>1, <2>2, <3>1, CheckTypes
    <2> QED BY <2>3, <2>4
  <1>7. CASE Round \/ RoundOver
    <2>1. poster.to = {} /\ window' = window
      BY <1>3, <1>7 DEF Round, RoundOver, Working, Stays
    <2>2. poster'.place \in {"sleep", "next"} /\ poster'.to = {}
      <3>1. CASE Round
        BY <1>3, <2>1, <3>1 DEF Round, IsPoster
      <3>2. CASE RoundOver
        BY <3>2 DEF RoundOver, Asleep
      <3> QED BY <1>7, <3>1, <3>2
    <2> QED BY <1>1, <1>2, <1>3, <2>1, <2>2 DEF Stays
  <1>8. CASE SendOk \/ SendFails \/ SendFlood \/ FloodOver
    <2>1. window' = window /\ (FloodOver => poster.to = {})
      BY <1>3, <1>8 DEF SendOk, SendFails, SendFlood, FloodOver, Working, Stays
    <2>2. poster'.place \in {"flood", "next"} /\ poster'.to = {}
      BY <1>3, <1>8, <2>1 DEF SendOk, SendFails, SendFlood, FloodOver, IsPoster
    <2> QED BY <1>1, <1>2, <1>3, <2>1, <2>2 DEF Stays
  <1> QED BY <1>1, <1>2, <1>4, <1>5, <1>6, <1>7, <1>8 DEF WorkerNext

\* What is stored, and what is being stored, has an interval of its kind.
LEMMA UsualStep ==
    ASSUME OutgoingAssumption, OInv, PostTInv, OutgoingNext
    PROVE  UsualRows'
  <1>0. postSaves \in [PostTask -> [put : SUBSET PostChat, drop : SUBSET PostChat,
                                   row : SUBSET Posting]]
        /\ UsualRows /\ postRows \in Posting
    BY DEF OInv, RowKinds, PostTInv
  <1>1. CASE WorkerNext \/ PostTick
    <2>1. UNCHANGED savedVars
      BY <1>1 DEF WorkerNext, PostTick, GapOver, MinuteOver, Round, SendOk, SendFails, SendFlood,
             FloodOver, RoundOver, NextChat, Limiter, Working, postVars
    <2> QED BY <1>0, <2>1 DEF savedVars, UsualRows, Usual
  <1>2. CASE SaverNext
    <2>1. PICK t \in PostTask : PostSaved(t) \/ PostSaveFails(t)
      BY <1>2 DEF SaverNext
    <2>2. /\ postSaves' = [postSaves EXCEPT ![t] = Nothing]
          /\ postRows' \in {postRows, After(postSaves[t])}
      BY <2>1 DEF PostSaved, PostSaveFails, SaveEnds
    <2>3. After(postSaves[t]).interval \in Usual
      <3>1. CASE postSaves[t].row = {}
        BY <1>0, <3>1 DEF After, Posting, UsualRows
      <3>2. CASE postSaves[t].row # {}
        <4>1. PICK p \in postSaves[t].row :
                After(postSaves[t]) = [p EXCEPT !.chats = (postRows.chats \ postSaves[t].drop)
                                                            \cup postSaves[t].put]
          BY <3>2 DEF After
        <4>2. p \in Posting /\ p.interval \in Usual
          BY <1>0 DEF UsualRows
        <4> QED BY <4>1, <4>2 DEF Posting
      <3> QED BY <3>1, <3>2
    <2>4. postRows'.interval \in Usual
      BY <1>0, <2>2, <2>3 DEF UsualRows
    <2>5. \A u \in PostTask : postSaves'[u].row \subseteq postSaves[u].row
      BY <1>0, <2>2 DEF Nothing
    <2> QED BY <1>0, <2>4, <2>5 DEF UsualRows, Usual
  <1>3. CASE PostCrash
    <2>1. postRows' = postRows /\ postSaves' = [t \in PostTask |-> Nothing]
      BY <1>3 DEF PostCrash
    <2> QED BY <1>0, <2>1 DEF UsualRows, Usual, Nothing
  <1>4. CASE OwnerNext
    <2>1. post'.interval \in Usual /\ post' \in Posting
      BY <1>4, PostTypesOwner, OutgoingStepInv DEF OutgoingNext, OInv, PInv, PostKinds
    <2>2. postRows' = postRows
      BY <1>4 DEF OwnerNext, PostOn, PostOff, PostText, PostClear, PostNow, PostInterval, PostSwitch,
             PostAdd, PostRemove, Owner
    <2>3. \/ postSaves' = postSaves
          \/ \E w : /\ \A p \in w.row : p.interval \in Usual
                    /\ \E t \in PostTask : postSaves' = [postSaves EXCEPT ![t] = w]
      <3>1. CASE PostNow
        BY <3>1 DEF PostNow
      <3>2. CASE \/ PostOn \/ PostOff \/ PostText
                 \/ \E n \in Interval : PostInterval(n) \/ \E b \in BOOLEAN : PostSwitch(b, n)
        <4>1. Saves(RowOf(post'))
          BY <3>2 DEF PostOn, PostOff, PostText, PostInterval, PostSwitch
        <4>2. \A p \in RowOf(post').row : p.interval \in Usual
          BY <2>1 DEF RowOf, Nothing, Posting
        <4> QED BY <4>1, <4>2 DEF Saves
      <3>3. CASE PostClear \/ \E c \in PostChat : PostAdd(c) \/ PostRemove(c)
        <4>1. PICK w : w.row = {} /\ Saves(w)
          BY <3>3 DEF PostClear, PostAdd, PostRemove, Nothing
        <4> QED BY <4>1 DEF Saves
      <3> QED BY <1>4, <3>1, <3>2, <3>3 DEF OwnerNext
    <2>4. CASE postSaves' = postSaves
      BY <1>0, <2>2, <2>4 DEF UsualRows, Usual
    <2>5. CASE \E w : /\ \A p \in w.row : p.interval \in Usual
                     /\ \E t \in PostTask : postSaves' = [postSaves EXCEPT ![t] = w]
      <3>1. PICK w, t : /\ \A p \in w.row : p.interval \in Usual
                        /\ t \in PostTask /\ postSaves' = [postSaves EXCEPT ![t] = w]
        BY <2>5
      <3>2. \A u \in PostTask : postSaves'[u] = w \/ postSaves'[u] = postSaves[u]
        BY <1>0, <3>1
      <3> QED BY <1>0, <2>2, <3>1, <3>2 DEF UsualRows, Usual
    <2> QED BY <2>3, <2>4, <2>5
  <1> QED BY <1>1, <1>2, <1>3, <1>4 DEF OutgoingNext

LEMMA PostTypesStep ==
    ASSUME OutgoingAssumption, OInv, PostTInv, [OutgoingNext]_postingVars
    PROVE  PostTInv'
  <1>1. EnvTypeOK'
    BY PostSteps, EnvKept DEF OutgoingAssumption, PostTInv
  <1>2. now \in Nat /\ roundEnd \in Int /\ Minute \in Nat /\ 0..now \subseteq 0..(now + 1)
    BY DEF OInv, PInv, PostKinds, OutgoingAssumption
  <1>3. UsualRows'
    <2>1. CASE UNCHANGED postingVars
      BY <2>1 DEF postingVars, postVars, savedVars, PostTInv, UsualRows, Usual
    <2> QED BY <2>1, UsualStep
  <1>4. CASE OwnerNext
    <2>1. post'.interval \in Usual /\ UNCHANGED <<now, poster, window, roundEnd>>
      BY <1>4, PostTypesOwner
    <2> QED BY <1>1, <1>3, <2>1 DEF PostTInv, Stays, Usual
  <1>5. CASE WorkerNext
    <2>1. /\ UNCHANGED <<now, post>> /\ roundEnd' \in {roundEnd, now}
          /\ Stays' /\ window' \subseteq 0..now
      BY <1>5, PostTypesWorker
    <2>2. roundEnd' >= 0
      BY <1>2, <2>1 DEF PostTInv
    <2> QED BY <1>1, <1>3, <2>1, <2>2 DEF PostTInv, Usual
  <1>6. CASE PostCrash
    <2>1. Stays' /\ window' = {} /\ roundEnd' = now /\ post' = postRows
      BY <1>6 DEF PostCrash, Asleep, Stays
    <2>2. post'.interval \in Usual
      BY <2>1 DEF PostTInv, UsualRows
    <2> QED BY <1>1, <1>2, <1>3, <2>1, <2>2 DEF PostTInv, Usual
  <1>7. CASE SaverNext \/ PostTick \/ UNCHANGED postingVars
    <2>1. UNCHANGED <<post, poster, window, roundEnd>> /\ (now' = now + 1 \/ now' = now)
      BY <1>7 DEF SaverNext, PostSaved, PostSaveFails, SaveEnds, Calm, Fault, PostTick, Advance,
             postVars, postingVars, envVars
    <2>2. window' \subseteq 0..now'
      BY <1>2, <2>1 DEF PostTInv
    <2> QED BY <1>1, <1>2, <1>3, <2>1, <2>2 DEF PostTInv, Usual, Stays
  <1> QED BY <1>4, <1>5, <1>6, <1>7 DEF OutgoingNext

LEMMA PostTypesHold == ASSUME OInv, PostTInv PROVE EnvTypeOK /\ OutgoingTypes
  <1>1. /\ post \in [on : BOOLEAN, text : BOOLEAN, chats : SUBSET PostChat,
                     interval : Interval \cup {Longest(n) : n \in Interval}]
        /\ postRows \in [on : BOOLEAN, text : BOOLEAN, chats : SUBSET PostChat,
                         interval : Interval \cup {Longest(n) : n \in Interval}]
    BY DEF OInv, PInv, Posting, PostKinds, RowKinds, PostTInv, Usual, UsualRows
  <1>2. roundEnd \in 0..now
    BY DEF OInv, PInv, PostKinds, Timed, PostTInv
  <1>3. Pending \cup loose \subseteq PostChat
    BY DEF OInv, RowKinds, Pending
  <1> QED BY <1>1, <1>2, <1>3 DEF OInv, PInv, PostKinds, IsPoster, PostTInv, Stays, OutgoingTypes

\* In any process, with any intervals and limits, a post, its round and the
\* limiter's window stay what they are taken for (autopost.py:114-152).
THEOREM PostsKeepTypes ==
    ASSUME OutgoingAssumption PROVE OutgoingSpec => [](EnvTypeOK /\ OutgoingTypes)
  <1>1. EnvInit /\ PostInit => OInv /\ PostTInv
    BY OutgoingInitInv, PostTypesInit
  <1>2. OInv /\ PostTInv /\ [OutgoingNext]_postingVars => (OInv /\ PostTInv)'
    BY OutgoingStepInv, PostTypesStep
  <1>3. OInv /\ PostTInv => EnvTypeOK /\ OutgoingTypes
    BY PostTypesHold
  <1> QED BY <1>1, <1>2, <1>3, PTL DEF OutgoingSpec

===============================================================================
