----------------------------- MODULE DigestProofs -----------------------------
(***************************************************************************)
(* What Digest.tla shows for every length of a day, set of chats, and      *)
(* number of commands and faults: no day is marked without a report, none  *)
(* has two unless its mark was lost or never made, and none that was quiet *)
(* is left out.                                                            *)
(***************************************************************************)
EXTENDS Digest, TLAPS

DigestNext ==
    \/ DigestOn \/ DigestOff \/ DigestClear
    \/ \E m \in {"all", "custom"} : DigestMode(m)
    \/ \E t \in 0..(Day - 1) : DigestTime(t)
    \/ \E c \in DigestChat : DigestAdd(c) \/ DigestRemove(c)
    \/ Look \/ DigestNow
    \/ \E r \in Runner :
         \/ \E c \in DigestChat : Collect(r, c)
         \/ Compose(r) \/ Deliver(r) \/ Mark(r) \/ RunFails(r)
    \/ \E w \in Saving : DigestRead(w) \/ DigestCommit(w) \/ DigestSaveFails(w)
    \/ DigestCrash \/ DigestTick

diaryVars == <<envVars, digestVars>>

DigestSpec == EnvInit /\ DigestInit /\ [][DigestNext]_diaryVars

-----------------------------------------------------------------------------
\* The kinds of value, and that no date lies in the future.
Dates ==
    /\ now \in Nat
    /\ digest \in [on : BOOLEAN, mode : {"all", "custom"}, minute : 0..(Day - 1),
                   chats : SUBSET DigestChat]
    /\ looked \in Int /\ looked <= now
    /\ run \in [Runner -> [at : {"idle", "collect", "send", "sent"},
                           left : SUBSET DigestChat, date : Int]]
    /\ save \in [Saving -> [at : {"idle", "begun", "read"}, want : Int, seen : Int]]
    /\ sent \subseteq Runner \X (0..Today)
    /\ \A r \in Runner : run[r].at \in {"send", "sent"} => run[r].date \in 0..Today
    /\ lastRun \in {Never} \cup 0..Today
    /\ marked \in Int
    /\ steady \in BOOLEAN

\* Whatever is a mark, or will become one, has its report.
Backed(d) == d = Never \/ Reported(d)
Marks ==
    /\ Backed(lastRun) /\ Backed(marked)
    /\ \A w \in Saving : save[w].at # "idle" => Backed(save[w].want)
    /\ \A r \in Runner : run[r].at = "sent" => <<r, run[r].date>> \in sent

\* A day the worker has reported is excused, marked, or about to be marked; a
\* run of the worker that has not delivered yet would repeat excused days only.
Excusable(d) == <<"worker", d>> \in sent => d \in excused
Once ==
    /\ AutoOncePerDay
    /\ run["worker"].at \in {"idle", "sent"} =>
         \/ Excusable(Today)
         \/ lastRun = Today
         \/ run["worker"].at = "sent" /\ run["worker"].date = Today
    /\ run["worker"].at \in {"collect", "send"} => Excusable(Today)
    /\ run["worker"].at = "send" => Excusable(run["worker"].date)

\* On a steady day the worker is on time, and done when it has looked.
Looked == MinuteNow > digest.minute \/ (MinuteNow = digest.minute /\ looked = now)
OnTime ==
    steady =>
      /\ digest.on
      /\ run["worker"].at # "idle" => MinuteNow >= digest.minute
      /\ run["worker"].at \in {"send", "sent"} => run["worker"].date = Today
      /\ save["worker"].at # "idle" => Reported(Today)
      /\ run["worker"].at = "idle" /\ Looked => Reported(Today)

DInv == Dates /\ Marks /\ Once /\ OnTime

-----------------------------------------------------------------------------
\* Days and minutes, now and at the next instant.
LEMMA Calendar ==
    ASSUME DigestAssumption, now \in Nat
    PROVE  /\ Today \in Nat /\ MinuteNow \in 0..(Day - 1)
           /\ now' = now + 1 =>
                /\ Today' >= Today /\ Today' \in Nat /\ MinuteNow' \in 0..(Day - 1)
                /\ (now + 1) % Day = 0 => MinuteNow' = 0 /\ Today' > Today
                /\ (now + 1) % Day # 0 => MinuteNow' = MinuteNow + 1 /\ Today' = Today
  <1> USE DEF DigestAssumption, Today, MinuteNow
  <1>1. Today \in Nat /\ MinuteNow \in 0..(Day - 1)
    BY SMT
  <1>2. ASSUME now' = now + 1
        PROVE  /\ Today' >= Today /\ Today' \in Nat /\ MinuteNow' \in 0..(Day - 1)
               /\ (now + 1) % Day = 0 => MinuteNow' = 0 /\ Today' > Today
               /\ (now + 1) % Day # 0 => MinuteNow' = MinuteNow + 1 /\ Today' = Today
    BY <1>2, SMT
  <1> QED BY <1>1, <1>2

\* The two runners and the three that save.
LEMMA Tasks == /\ Runner = {"worker", "owner"} /\ Saving = {"worker", "owner", "command"}
               /\ Never = -1
  BY DEF Runner, Saving, Never

\* The initial state satisfies the invariant.
LEMMA DigestInitInv ==
    ASSUME DigestAssumption, EnvInit, DigestInit
    PROVE  DInv
  <1> USE DEF EnvInit, DigestInit, NoRun, NoSave
  <1>1. now = 0 /\ Today \in Nat /\ Today = 0 /\ MinuteNow = 0
    BY SMT DEF Today, MinuteNow, DigestAssumption
  <1>2. Dates
    BY <1>1, Tasks DEF Dates
  <1>3. Marks /\ Once
    BY Tasks DEF Marks, Backed, Once, Excusable, AutoOncePerDay
  <1>4. OnTime
    BY <1>1, Tasks DEF OnTime, Looked
  <1> QED BY <1>2, <1>3, <1>4 DEF DInv

\* The owner's commands: the day stops being steady, and only the mark in memory
\* is saved.
LEMMA CommandsInv ==
    ASSUME DigestAssumption, DInv,
           \/ DigestOn \/ DigestOff \/ DigestClear
           \/ \E m \in {"all", "custom"} : DigestMode(m)
           \/ \E t \in 0..(Day - 1) : DigestTime(t)
           \/ \E c \in DigestChat : DigestAdd(c) \/ DigestRemove(c)
    PROVE  DInv'
  <1>1. Today \in Nat /\ UNCHANGED <<now, Today, MinuteNow>>
    BY Calendar DEF DInv, Dates, DigestOn, DigestOff, DigestClear, DigestMode, DigestTime,
         DigestAdd, DigestRemove, DigestList, Configure, Ordered, Today, MinuteNow
  <1>2. ASSUME NEW C \in SUBSET DigestChat, DigestList(C)
        PROVE  DInv'
    BY ZenonT(60), <1>1, <1>2
       DEF DigestList, Quiet, DInv, Dates, Marks, Backed, Reported, Once, Excusable,
           AutoOncePerDay, OnTime, Looked
  <1>3. ASSUME NEW d \in [on : BOOLEAN, mode : {"all", "custom"}, minute : 0..(Day - 1),
                          chats : SUBSET DigestChat], Configure(d)
        PROVE  DInv'
    <2> USE <1>1, <1>3, Tasks DEF Configure, Saved, Quiet, DInv
    <2>1. lastRun \in Int
      BY DEF Dates
    <2>2. save' \in [Saving -> [at : {"idle", "begun", "read"}, want : Int, seen : Int]]
      BY <2>1 DEF Dates
    <2>3. Dates'
      BY <2>2 DEF Dates
    <2>4. Marks'
      BY DEF Dates, Marks, Backed, Reported
    <2>5. Once' /\ OnTime'
      BY DEF Once, Excusable, AutoOncePerDay, OnTime
    <2> QED BY <2>3, <2>4, <2>5
  <1> QED
    BY <1>2, <1>3
       DEF DInv, Dates, DigestOn, DigestOff, DigestClear, DigestMode, DigestTime, DigestAdd,
           DigestRemove

\* A save only ever writes what it was begun with.
LEMMA SavesInv ==
    ASSUME DigestAssumption, DInv, NEW w \in Saving,
           DigestRead(w) \/ DigestCommit(w) \/ DigestSaveFails(w)
    PROVE  DInv'
  <1> USE DEF DigestRead, DigestCommit, DigestSaveFails, Quiet, Calm, Fault, envVars, NoSave
  <1>1. Today \in Nat /\ UNCHANGED <<now, Today, MinuteNow>>
    BY Calendar DEF DInv, Dates, Today, MinuteNow
  <1>2. Dates'
    BY <1>1, Tasks DEF DInv, Dates
  <1>3. Marks'
    <2> USE DEF DInv, Dates, Marks, Backed
    <2>1. UNCHANGED <<lastRun, run, sent>> /\ \A d : Reported(d)' <=> Reported(d)
      BY DEF Reported
    <2>2. \A x \in Saving : save'[x].at # "idle" =>
             save[x].at # "idle" /\ save'[x].want = save[x].want
      BY Tasks
    <2>3. Backed(marked)'
      BY <2>1
    <2> QED BY <2>1, <2>2, <2>3
  <1>4. Once' /\ OnTime'
    BY <1>1, Tasks DEF DInv, Dates, Once, Excusable, AutoOncePerDay, OnTime, Looked, Reported
  <1> QED BY <1>2, <1>3, <1>4 DEF DInv

\* The worker looks.  A day is steady only if nothing but the worker's own run
\* marks it, so a mark it finds is a report it has delivered.
LEMMA LookInv ==
    ASSUME DigestAssumption, DInv, Look
    PROVE  DInv'
  <1> USE DEF Look, Awake, Free, Begun, Settled, Calm, envVars
  <1>1. Today \in Nat /\ MinuteNow \in 0..(Day - 1) /\ UNCHANGED <<now, Today, MinuteNow>>
    BY Calendar DEF DInv, Dates, Today, MinuteNow
  <1>2. Targets \in SUBSET DigestChat
    BY DEF DInv, Dates, Targets
  <1>3. Dates'
    BY <1>1, <1>2, Tasks DEF DInv, Dates
  <1>4. Marks'
    BY <1>1, Tasks DEF DInv, Dates, Marks, Backed, Reported
  <1>5. Once'
    BY <1>1, Tasks DEF DInv, Dates, Once, Excusable, AutoOncePerDay, Wanted
  <1>6. OnTime'
    BY <1>1, Tasks DEF DInv, Dates, Marks, Backed, OnTime, Looked, Wanted, Reported
  <1> QED BY <1>3, <1>4, <1>5, <1>6 DEF DInv

\* Reports that arrive while their day is excused leave it so.
LEMMA ArrivedExcused ==
    ASSUME Dates, NEW R \in SUBSET Sending, Arrive(R),
           excused \cup {run[x].date : x \in R} \subseteq excused'
    PROVE  /\ sent \subseteq sent' /\ sent' \subseteq Runner \X (0..Today)
           /\ \A d : Excusable(d) => Excusable(d)'
           /\ AutoOncePerDay => AutoOncePerDay'
  <1>1. R \subseteq Runner /\ \A x \in R : run[x].date \in 0..Today /\ run[x].date \in excused'
    BY DEF Sending, Dates
  <1>2. sent' = sent \cup {<<x, run[x].date>> : x \in R}
    BY DEF Arrive
  <1>3. sent \subseteq sent' /\ sent' \subseteq Runner \X (0..Today)
    BY <1>1, <1>2 DEF Dates
  <1>4. \A d : Excusable(d) => Excusable(d)'
    <2> SUFFICES ASSUME NEW d, Excusable(d), <<"worker", d>> \in sent'
                 PROVE  d \in excused'
      BY DEF Excusable
    <2>1. CASE <<"worker", d>> \in sent
      BY <2>1 DEF Excusable
    <2>2. CASE \E x \in R : <<"worker", d>> = <<x, run[x].date>>
      BY <1>1, <2>2
    <2> QED BY <1>2, <2>1, <2>2
  <1>5. AutoOncePerDay => AutoOncePerDay'
    BY <1>1 DEF Arrive, AutoOncePerDay
  <1> QED BY <1>3, <1>4, <1>5

\* A run: collecting, composing, delivering, marking, failing.
LEMMA RunInv ==
    ASSUME DigestAssumption, DInv, NEW r \in Runner,
           \/ r = "owner" /\ DigestNow
           \/ \E c \in DigestChat : Collect(r, c)
           \/ Compose(r) \/ Deliver(r) \/ Mark(r) \/ RunFails(r)
    PROVE  DInv'
  <1> USE DEF Settled, Calm, Fault, Ordered, envVars, NoRun
  <1>1. Today \in Nat /\ MinuteNow \in 0..(Day - 1) /\ UNCHANGED <<now, Today, MinuteNow>>
    BY Calendar DEF DInv, Dates, Today, MinuteNow, DigestNow, Collect, Compose, Deliver, Mark, RunFails
  <1>2. CASE r = "owner" /\ DigestNow
    <2>1. Targets \in SUBSET DigestChat
      BY DEF DInv, Dates, Targets
    <2> USE <1>1, <1>2, <2>1, Tasks DEF DigestNow, Free, Begun, DInv
    <2>2. Dates'
      BY DEF Dates
    <2>3. Marks'
      BY DEF Dates, Marks, Backed, Reported
    <2>4. Once'
      BY DEF Dates, Once, Excusable, AutoOncePerDay
    <2>5. OnTime'
      BY DEF Dates, OnTime, Looked, Reported
    <2> QED BY <2>2, <2>3, <2>4, <2>5
  <1>3. ASSUME NEW c \in DigestChat, Collect(r, c)
        PROVE  DInv'
    <2> USE <1>1, <1>3, Tasks DEF Collect, DInv
    <2>1. Dates'
      BY DEF Dates
    <2>2. Marks'
      BY DEF Dates, Marks, Backed, Reported
    <2>3. Once'
      BY DEF Dates, Once, Excusable, AutoOncePerDay
    <2>4. OnTime'
      BY DEF Dates, OnTime, Looked, Reported
    <2> QED BY <2>1, <2>2, <2>3, <2>4
  <1>4. CASE Compose(r)
    <2> USE <1>1, <1>4, Tasks DEF Compose, DInv
    <2>1. Dates'
      BY DEF Dates
    <2>2. Marks'
      BY DEF Dates, Marks, Backed, Reported
    <2>3. Once'
      BY DEF Dates, Once, Excusable, AutoOncePerDay
    <2>4. OnTime'
      BY DEF Dates, OnTime, Looked, Reported
    <2> QED BY <2>1, <2>2, <2>3, <2>4
  <1>5. CASE Deliver(r)
    <2>0. /\ sent' = sent \cup {<<r, run[r].date>>}
          /\ twice' = IF r = "worker" /\ <<r, run[r].date>> \in sent
                      THEN twice \cup {run[r].date} ELSE twice
      BY <1>5 DEF Deliver, Arrive
    <2> USE <1>1, <1>5, <2>0, Tasks DEF Deliver, DInv
    <2>1. Dates'
      BY DEF Dates
    <2>2. Marks'
      BY DEF Dates, Marks, Backed, Reported
    <2>3. Once'
      BY DEF Dates, Once, Excusable, AutoOncePerDay
    <2>4. OnTime'
      BY DEF Dates, OnTime, Looked, Reported
    <2> QED BY <2>1, <2>2, <2>3, <2>4
  <1>6. CASE Mark(r)
    <2> USE <1>1, <1>6, Tasks DEF Mark, Saved, DInv
    <2>1. Dates'
      BY DEF Dates
    <2>2. Marks'
      BY DEF Dates, Marks, Backed, Reported
    <2>3. Once'
      BY DEF Dates, Once, Excusable, AutoOncePerDay
    <2>4. OnTime'
      BY DEF Dates, Marks, Backed, Reported, OnTime, Looked
    <2> QED BY <2>1, <2>2, <2>3, <2>4
  <1>7. CASE RunFails(r)
    <2>0. PICK R \in SUBSET (Sending \cap {r}) :
            Arrive(R) /\ excused' = excused \cup {run[x].date : x \in R}
      BY <1>7 DEF RunFails
    <2>4. R \in SUBSET Sending
      OBVIOUS
    <2>5. /\ sent \subseteq sent' /\ sent' \subseteq Runner \X (0..Today)
          /\ \A d : Excusable(d) => Excusable(d)'
          /\ AutoOncePerDay => AutoOncePerDay'
      BY <2>0, <2>4, ArrivedExcused DEF DInv
    <2> USE <1>1, <1>7, <2>5, Tasks DEF RunFails, DInv
    <2>1. Dates'
      <3>1. run' \in [Runner -> [at : {"idle", "collect", "send", "sent"},
                              left : SUBSET DigestChat, date : Int]]
        BY DEF Dates
      <3>2. \A x \in Runner : run'[x].at \in {"send", "sent"} =>
               run[x].at \in {"send", "sent"} /\ run'[x].date = run[x].date
        BY DEF Dates
      <3> QED BY ZenonT(60), <3>1, <3>2 DEF Dates
    <2>2. Marks'
      BY DEF Dates, Marks, Backed, Reported
    <2>3. Once' /\ OnTime'
      <3>1. run'[r].at = "idle" /\ \A x \in Runner \ {r} : run'[x] = run[x]
        BY DEF Dates
      <3>2. CASE r = "worker"
        <4>1. Excusable(Today)' \/ lastRun = Today
          BY <3>1, <3>2 DEF Once
        <4> QED BY <3>1, <3>2, <4>1 DEF Once, OnTime
      <3>3. CASE r # "worker"
        <4>1. run'["worker"] = run["worker"]
          BY <3>1, <3>3
        <4> QED BY <4>1 DEF Once, OnTime
      <3> QED BY <3>2, <3>3
    <2> QED BY <2>1, <2>2, <2>3
  <1> QED BY <1>2, <1>3, <1>4, <1>5, <1>6, <1>7

\* A restart forgets a mark that was not saved, and excuses its day, and the days of
\* the reports that arrive unmarked.
LEMMA CrashInv ==
    ASSUME DigestAssumption, DInv, DigestCrash
    PROVE  DInv'
  <1> USE DEF DigestCrash, Fault, NoRun, NoSave
  <1>1. Today \in Nat /\ UNCHANGED <<now, Today, MinuteNow>>
    BY Calendar DEF DInv, Dates, Today, MinuteNow
  <1> DEFINE Cut == {x \in Runner : run[x].at = "sent"}
  <1>2. PICK R \in SUBSET Sending :
          /\ Arrive(R)
          /\ excused' = excused \cup ({lastRun} \ {marked}) \cup {run[r].date : r \in Cut \cup R}
    OBVIOUS
  <1>3. excused \cup {run[x].date : x \in R} \subseteq excused'
    BY <1>2
  <1>4. /\ sent \subseteq sent' /\ sent' \subseteq Runner \X (0..Today)
        /\ \A d : Excusable(d) => Excusable(d)'
        /\ AutoOncePerDay => AutoOncePerDay'
    BY <1>2, <1>3, ArrivedExcused DEF DInv
  <1>5. /\ lastRun' = marked /\ UNCHANGED <<marked, digest>> /\ steady' = FALSE
        /\ \A x \in Runner : run'[x].at = "idle"
        /\ \A w \in Saving : save'[w].at = "idle"
    OBVIOUS
  <1>6. Marks'
    BY <1>4, <1>5 DEF DInv, Marks, Backed, Reported
  <1>7. Dates'
    <2>1. marked \in {Never} \cup 0..Today /\ marked \in Int
      BY DEF DInv, Dates, Marks, Backed, Reported
    <2>2. run' \in [Runner -> [at : {"idle", "collect", "send", "sent"},
                            left : SUBSET DigestChat, date : Int]]
      BY Tasks
    <2>3. save' \in [Saving -> [at : {"idle", "begun", "read"}, want : Int, seen : Int]]
      BY Tasks
    <2>4. looked' <= now' /\ looked' \in Int
      BY <1>1, Tasks DEF DInv, Dates
    <2>5. (\A r \in Runner : run'[r].at \notin {"send", "sent"}) /\ \A w \in Saving : save'[w].at = "idle"
      BY <1>5
    <2>6. now' \in Nat /\ sent' \subseteq Runner \X (0..Today)'
      BY <1>1, <1>4 DEF DInv, Dates
    <2>7. lastRun' \in {Never} \cup (0..Today)' /\ marked' \in Int /\ steady' \in BOOLEAN
      BY <1>1, <1>5, <2>1
    <2>8. digest' = digest
      BY <1>5
    <2> QED BY <2>2, <2>3, <2>4, <2>5, <2>6, <2>7, <2>8 DEF DInv, Dates
  <1>8. Excusable(Today)' \/ lastRun' = Today
    <2>1. CASE lastRun = Today /\ marked # Today
      <3>1. Today \in excused'
        BY <1>2, <2>1
      <3> QED BY <1>1, <3>1 DEF Excusable
    <2>2. CASE lastRun = Today /\ marked = Today
      BY <1>5, <2>2
    <2>3. CASE run["worker"].at = "sent" /\ run["worker"].date = Today
      <3>1. "worker" \in Cut
        BY <2>3, Tasks
      <3>2. Today \in excused'
        BY <1>2, <2>3, <3>1
      <3> QED BY <1>1, <3>2 DEF Excusable
    <2>4. CASE Excusable(Today)
      BY <1>1, <1>4, <2>4
    <2>5. run["worker"].at \in {"idle", "collect", "send", "sent"}
      BY Tasks DEF DInv, Dates
    <2> QED BY <2>1, <2>2, <2>3, <2>4, <2>5 DEF DInv, Once
  <1>9. Once' /\ OnTime'
    <2>1. run'["worker"].at = "idle"
      BY <1>5, Tasks
    <2> QED BY <1>1, <1>4, <1>5, <1>8, <2>1 DEF DInv, Once, OnTime
  <1> QED BY <1>6, <1>7, <1>9 DEF DInv

\* The next minute: at midnight no report of the new day exists, and in between
\* the worker has looked, or is busy.
LEMMA TickInv ==
    ASSUME DigestAssumption, DInv, DigestTick
    PROVE  DInv'
  <1> USE Tasks DEF DigestTick, Advance, Awake, Free, DInv
  <1>0. /\ Today \in Nat /\ MinuteNow \in 0..(Day - 1)
        /\ Today' >= Today /\ Today' \in Nat /\ MinuteNow' \in 0..(Day - 1)
        /\ (now + 1) % Day = 0 => MinuteNow' = 0 /\ Today' > Today
        /\ (now + 1) % Day # 0 => MinuteNow' = MinuteNow + 1 /\ Today' = Today
    BY Calendar DEF Dates
  <1> USE <1>0
  <1>1. Dates'
    <2>1. 0..Today \subseteq 0..Today'
      OBVIOUS
    <2>2. now' \in Nat /\ looked' <= now'
      BY DEF Dates
    <2>3. steady' \in BOOLEAN
      BY DEF Dates
    <2>4. sent' \subseteq Runner \X (0..Today') /\ lastRun' \in {Never} \cup 0..Today'
      BY <2>1 DEF Dates
    <2>5. \A x \in Runner : run'[x].at \in {"send", "sent"} => run'[x].date \in 0..Today'
      BY <2>1 DEF Dates
    <2> QED BY <2>2, <2>3, <2>4, <2>5 DEF Dates
  <1>2. Marks'
    BY DEF Dates, Marks, Backed, Reported
  <1>3. Once'
    BY DEF Dates, Once, Excusable, AutoOncePerDay
  <1>4. OnTime'
    <2>1. CASE (now + 1) % Day = 0
      <3>1. ~Looked'
        BY <2>1 DEF Dates, Looked
      <3> QED BY <2>1, <3>1 DEF Dates, OnTime
    <2>2. CASE (now + 1) % Day # 0
      <3>1. steady' = steady /\ (Reported(Today)' <=> Reported(Today))
        BY <2>2 DEF Reported
      <3>2. Looked' => Looked \/ save["worker"].at # "idle" \/ run["worker"].at # "idle"
        BY <2>2 DEF Dates, Looked
      <3> QED BY <2>2, <3>1, <3>2 DEF Dates, OnTime
    <2> QED BY <2>1, <2>2
  <1> QED BY <1>1, <1>2, <1>3, <1>4

\* No step breaks the invariant.
LEMMA DigestStepInv ==
    ASSUME DigestAssumption, DInv, [DigestNext]_diaryVars
    PROVE  DInv'
  <1>1. CASE UNCHANGED diaryVars
    <2>1. UNCHANGED <<now, digest, lastRun, marked, looked, run, save, sent, twice, excused,
                      steady, Today, MinuteNow>>
      BY <1>1 DEF diaryVars, envVars, digestVars, Today, MinuteNow
    <2>2. Dates' /\ Marks'
      BY <2>1 DEF DInv, Dates, Marks, Backed, Reported
    <2>3. Once' /\ OnTime'
      BY <2>1 DEF DInv, Once, Excusable, AutoOncePerDay, OnTime, Looked, Reported
    <2> QED BY <2>2, <2>3 DEF DInv
  <1>2. CASE DigestNext
    <2>1. "owner" \in Runner
      BY Tasks
    <2> QED
      BY <1>2, <2>1, CommandsInv, SavesInv, LookInv, RunInv, CrashInv, TickInv DEF DigestNext
  <1> QED BY <1>1, <1>2

-----------------------------------------------------------------------------
\* The invariant holds in every reachable state.
THEOREM DigestInvariant ==
    ASSUME DigestAssumption
    PROVE  DigestSpec => []DInv
  <1>1. EnvInit /\ DigestInit => DInv
    BY DigestInitInv
  <1>2. DInv /\ [DigestNext]_diaryVars => DInv'
    BY DigestStepInv
  <1> QED BY <1>1, <1>2, PTL DEF DigestSpec

\* Nothing that fails, no restart and no overlapping save makes the bot take a
\* day for done that had no report (daily_digest.py:304-306).
THEOREM MarksMeanReports ==
    ASSUME DigestAssumption
    PROVE  DigestSpec => []MarkMeansSent
  <1>1. DInv => MarkMeansSent
    BY DEF DInv, Marks, Backed, MarkMeansSent
  <1> QED BY <1>1, DigestInvariant, PTL

\* The worker reports a day once, but for days whose mark was lost or, the send
\* having raised or been cut off, never made; and a day since whose midnight, with
\* the worker free, nothing failed or changed has its report when the minute has
\* passed (daily_digest.py:304-318, 327-343).
THEOREM OneDigestEachDay ==
    ASSUME DigestAssumption
    PROVE  DigestSpec => []DigestEachDay
  <1>1. DInv => DigestEachDay
    BY DEF DInv, Dates, Once, OnTime, Looked, Free, DigestEachDay, DailyServed
  <1> QED BY <1>1, DigestInvariant, PTL

-----------------------------------------------------------------------------
(* Types.                                                                  *)

\* A run has no date before it is composed; the rest is in DInv.
DiaryTInv ==
    /\ EnvTypeOK
    /\ looked >= Never
    /\ \A r \in Runner : run[r].at \in {"idle", "collect"} => run[r].date = Never

LEMMA DiaryTypesInit ==
    ASSUME DigestAssumption, EnvInit, DigestInit
    PROVE  DiaryTInv
  <1>1. EnvTypeOK
    BY DEF DigestAssumption, EnvironmentAssumption, EnvInit, EnvTypeOK
  <1>2. looked >= Never
    BY DEF DigestInit, Never
  <1> QED BY <1>1, <1>2 DEF DiaryTInv, DigestInit, NoRun

LEMMA DiarySteps ==
    ASSUME [DigestNext]_diaryVars
    PROVE  Calm \/ Fault \/ Ordered \/ Advance
  <1>1. DigestOn \/ DigestOff \/ DigestClear \/ DigestNow => Ordered
    BY DEF DigestOn, DigestOff, DigestClear, DigestNow, Configure, DigestList
  <1>2. (\E m \in {"all", "custom"} : DigestMode(m)) \/ (\E t \in 0..(Day - 1) : DigestTime(t))
          => Ordered
    BY DEF DigestMode, DigestTime, Configure
  <1>3. (\E c \in DigestChat : DigestAdd(c) \/ DigestRemove(c)) => Ordered
    BY DEF DigestAdd, DigestRemove, DigestList
  <1>4. \A r \in Runner :
          /\ (\E c \in DigestChat : Collect(r, c)) \/ Compose(r) \/ Deliver(r) \/ Mark(r) => Calm
          /\ RunFails(r) => Fault
    BY DEF Collect, Compose, Deliver, Mark, RunFails
  <1>5. \A w \in Saving : /\ DigestRead(w) \/ DigestCommit(w) => Calm
                          /\ DigestSaveFails(w) => Fault
    BY DEF DigestRead, DigestCommit, DigestSaveFails
  <1>6. Look \/ DigestCrash \/ DigestTick => Calm \/ Fault \/ Advance
    BY DEF Look, DigestCrash, DigestTick
  <1>7. UNCHANGED diaryVars => Calm
    BY DEF diaryVars, Calm
  <1> QED BY <1>1, <1>2, <1>3, <1>4, <1>5, <1>6, <1>7 DEF DigestNext

\* A run is as it was, or has no date, or has one and is no longer collecting.
LEMMA DiaryRuns ==
    ASSUME DInv, DiaryTInv, DigestNext
    PROVE  /\ looked' \in {looked, now, Never}
           /\ \A r \in Runner : run'[r].at \in {"idle", "collect"} => run'[r].date = Never
  <1>1. /\ run \in [Runner -> [at : {"idle", "collect", "send", "sent"},
                               left : SUBSET DigestChat, date : Int]]
        /\ \A r \in Runner : run[r].at \in {"idle", "collect"} => run[r].date = Never
    BY DEF DInv, Dates, DiaryTInv
  <1>2. CASE UNCHANGED <<looked, run>>
    BY <1>1, <1>2
  <1>3. CASE Look \/ DigestNow
    <2>1. looked' \in {looked, now}
      BY <1>3 DEF Look, DigestNow
    <2>2. UNCHANGED run \/ Begun("worker") \/ Begun("owner")
      BY <1>3 DEF Look, DigestNow
    <2>3. \A r \in Runner : run'[r].at \in {"idle", "collect"} => run'[r].date = Never
      BY <1>1, <2>2 DEF Begun
    <2> QED BY <2>1, <2>3
  <1>4. ASSUME NEW r \in Runner,
               (\E c \in DigestChat : Collect(r, c)) \/ Compose(r) \/ Deliver(r) \/ Mark(r) \/ RunFails(r)
        PROVE  /\ looked' = looked
               /\ \A x \in Runner : run'[x].at \in {"idle", "collect"} => run'[x].date = Never
    <2>1. looked' = looked
      BY <1>4 DEF Collect, Compose, Deliver, Mark, RunFails
    <2>2. CASE \E c \in DigestChat : Collect(r, c)
      BY <1>1, <2>1, <2>2 DEF Collect
    <2>3. CASE Compose(r) \/ Deliver(r)
      BY <1>1, <2>1, <2>3 DEF Compose, Deliver
    <2>4. CASE Mark(r) \/ RunFails(r)
      BY <1>1, <2>1, <2>4 DEF Mark, RunFails, NoRun
    <2> QED BY <1>4, <2>2, <2>3, <2>4
  <1>5. CASE DigestCrash
    BY <1>5 DEF DigestCrash, NoRun
  <1>6. CASE DigestTick \/ \E w \in Saving : DigestRead(w) \/ DigestCommit(w) \/ DigestSaveFails(w)
    BY <1>2, <1>6 DEF DigestTick, DigestRead, DigestCommit, DigestSaveFails, Quiet
  <1>7. CASE \/ DigestOn \/ DigestOff \/ DigestClear
             \/ \E m \in {"all", "custom"} : DigestMode(m)
             \/ \E t \in 0..(Day - 1) : DigestTime(t)
             \/ \E c \in DigestChat : DigestAdd(c) \/ DigestRemove(c)
    BY <1>2, <1>7 DEF DigestOn, DigestOff, DigestClear, DigestMode, DigestTime, DigestAdd,
                      DigestRemove, Configure, DigestList, Quiet
  <1> QED BY <1>3, <1>4, <1>5, <1>6, <1>7 DEF DigestNext

LEMMA DiaryTypesStep ==
    ASSUME DigestAssumption, DInv, DiaryTInv, [DigestNext]_diaryVars
    PROVE  DiaryTInv'
  <1>1. EnvTypeOK'
    BY DiarySteps DEF DiaryTInv, DigestAssumption, EnvironmentAssumption, EnvTypeOK, Calm, envVars,
                      Fault, Ordered, Advance
  <1>2. CASE DigestNext
    <2>1. looked' >= Never
      BY <1>2, DiaryRuns, Tasks DEF DInv, Dates, DiaryTInv
    <2> QED BY <1>1, <1>2, <2>1, DiaryRuns DEF DiaryTInv, Never
  <1>3. CASE UNCHANGED diaryVars
    BY <1>1, <1>3 DEF DiaryTInv, diaryVars, digestVars, Never
  <1> QED BY <1>2, <1>3

LEMMA DiaryTypesHold == ASSUME DInv, DiaryTInv PROVE EnvTypeOK /\ DigestTypes
  <1>1. digest.minute \in 0..(Day - 1) /\ digest.chats \subseteq DigestChat
    BY DEF DInv, Dates
  <1>2. looked \in {Never} \cup 0..now
    BY Tasks DEF DInv, Dates, DiaryTInv
  <1>3. marked \in {Never} \cup 0..Today
    BY DEF DInv, Dates, Marks, Backed, Reported
  <1>4. \A r \in Runner : run[r].date \in {Never} \cup 0..Today
    BY DEF DInv, Dates, DiaryTInv
  <1> QED BY <1>1, <1>2, <1>3, <1>4 DEF DigestTypes, DiaryTInv, DInv, Dates

\* No mark, look or run is of a day to come, and no minute is outside the day,
\* whatever is asked, fails or is cut off (daily_digest.py:286-343).
THEOREM DigestsKeepTypes ==
    ASSUME DigestAssumption PROVE DigestSpec => [](EnvTypeOK /\ DigestTypes)
  <1>1. EnvInit /\ DigestInit => DInv /\ DiaryTInv
    BY DigestInitInv, DiaryTypesInit
  <1>2. DInv /\ DiaryTInv /\ [DigestNext]_diaryVars => (DInv /\ DiaryTInv)'
    BY DigestStepInv, DiaryTypesStep
  <1>3. DInv /\ DiaryTInv => EnvTypeOK /\ DigestTypes
    BY DiaryTypesHold
  <1> QED BY <1>1, <1>2, <1>3, PTL DEF DigestSpec

===============================================================================
