--------------------------- MODULE SchedulerProofs ---------------------------
(***************************************************************************)
(* What Scheduler.tla shows for every set of jobs and chats and every      *)
(* bound.  One inductive invariant, IInv, carries all the results: it says *)
(* what the worker's copies (due, cur) still tell about the rows they were *)
(* taken from after other handlers have changed the table.                 *)
(***************************************************************************)
EXTENDS Scheduler, TLAPS

USE DEF Time, Kind, Info, Row, Phase, Unset, Nobody

-----------------------------------------------------------------------------
(* The inductive invariant.                                                *)

\* The worker holds only rows that were stored when it read them, and never
\* the same job twice.
HoldsRows ==
    /\ \A j \in Job : InHand(j) => row[j] \in {"stored", "deleted"}
    /\ cur \notin due

\* What is held was due at the instant the round began, which has passed.
HoldsDue ==
    /\ cutoff <= now
    /\ \A j \in Job : InHand(j) => info[j].runAt <= cutoff

\* A job not yet stored was never sent; one still to be sent, in the table or
\* in the list, was sent at most once for each lost delete.
SendsCounted ==
    /\ \A j \in Job : row[j] \in {"none", "inserting"} => sent[j] = 0
    /\ \A j \in Job : (row[j] = "stored" \/ j \in due) /\ j # cur =>
                         sent[j] <= lostDeletes[j] + cutShort[j]

\* The job about to be deleted was sent or its failure recorded.
AttemptKnown == pc = "delete" => sent[cur] > 0 \/ cur \in reported

\* Cancel commands hold rows that exist or existed, and an answered cancel
\* has removed the row.
CancelsRows ==
    /\ \A j \in cancelling : row[j] \in {"stored", "deleted"}
    /\ \A j \in cancelled : row[j] = "deleted"

IInv ==
    /\ TypeOK
    /\ HoldsRows
    /\ HoldsDue
    /\ SendsCounted
    /\ AttemptKnown
    /\ CancelsRows
    /\ DuplicateNeedsLostDelete
    /\ NeverEarly
    /\ NothingSilentlyLost

-----------------------------------------------------------------------------
\* The initial state satisfies the invariant.
LEMMA InitInv == Init => IInv
  BY SchedulerAssumption, NobodyIsNoJob
  DEF Init, IInv, TypeOK, HoldsRows, HoldsDue, SendsCounted, AttemptKnown,
      CancelsRows, DuplicateNeedsLostDelete, NeverEarly, NothingSilentlyLost,
      InHand

-----------------------------------------------------------------------------
\* Every step of the scheduler preserves the invariant.
LEMMA StepInv == IInv /\ [Next]_vars => IInv'
  <1> SUFFICES ASSUME IInv, [Next]_vars
               PROVE  IInv'
    OBVIOUS
  <1> USE SchedulerAssumption, NobodyIsNoJob
      DEF IInv, TypeOK, HoldsRows, HoldsDue, SendsCounted, AttemptKnown,
          CancelsRows, DuplicateNeedsLostDelete, NeverEarly,
          NothingSilentlyLost, InHand, dbVars, procVars, workerVars,
          handlerVars, envVars, histVars
  <1>1. CASE LoadState
    BY <1>1 DEF LoadState
  <1>2. CASE SetSelfId
    BY <1>2 DEF SetSelfId
  <1>3. CASE StartWorkers
    BY <1>3 DEF StartWorkers
  <1>4. ASSUME NEW j \in Job, NEW k \in Kind, NEW c \in Chat, CancelLookup(j, k, c)
        PROVE  IInv'
    BY <1>4 DEF CancelLookup
  <1>5. ASSUME NEW j \in Job, NEW k \in Kind, NEW c \in Chat, NEW t \in Time, Ask(j, k, c, t)
        PROVE  IInv'
    BY <1>5 DEF Ask, Destination, SelfIdKnown
  <1>6. ASSUME NEW j \in Job, Insert(j)
        PROVE  IInv'
    BY <1>6 DEF Insert
  <1>7. ASSUME NEW j \in Job, InsertFails(j)
        PROVE  IInv'
    BY <1>7 DEF InsertFails, Fault
  <1>8. ASSUME NEW j \in Job, CancelDelete(j)
        PROVE  IInv'
    BY <1>8 DEF CancelDelete, DropRow
  <1>9. ASSUME NEW j \in Job, CancelFails(j)
        PROVE  IInv'
    BY <1>9 DEF CancelFails, Fault
  <1>10. ASSUME NEW b \in BOOLEAN, SetToggle(b)
        PROVE  IInv'
    BY <1>10 DEF SetToggle
  <1>11. ASSUME NEW b \in BOOLEAN, WriteToggle(b)
        PROVE  IInv'
    BY <1>11 DEF WriteToggle
  <1>12. ASSUME NEW b \in BOOLEAN, WriteToggleFails(b)
        PROVE  IInv'
    BY <1>12 DEF WriteToggleFails, Fault
  <1>13. CASE Wake
    BY <1>13 DEF Wake
  <1>14. CASE SkipRound
    BY <1>14 DEF SkipRound, vars
  <1>15. CASE ListDue
    BY <1>15 DEF ListDue, Snapshot, Stored, AfterJob
  <1>16. CASE ListDueFails
    BY <1>16 DEF ListDueFails, Fault
  <1>17. ASSUME NEW j \in Job, Send(j)
        PROVE  IInv'
    BY <1>17 DEF Send
  <1>18. ASSUME NEW j \in Job, SendRaises(j)
        PROVE  IInv'
    <2>1. CASE UNCHANGED sent
      BY <1>18, <2>1 DEF SendRaises, Fault
    <2>2. CASE sent' = [sent EXCEPT ![j] = @ + 1]
      <3>1. TypeOK'
        BY <1>18, <2>2 DEF SendRaises, Fault
      <3>2. /\ HoldsRows' /\ HoldsDue' /\ AttemptKnown' /\ CancelsRows'
            /\ NeverEarly' /\ NothingSilentlyLost'
        BY <1>18, <2>2 DEF SendRaises
      <3>3. SendsCounted' /\ DuplicateNeedsLostDelete'
        BY <1>18, <2>2 DEF SendRaises
      <3> QED
        BY <3>1, <3>2, <3>3
    <2> QED
      BY <1>18, <2>1, <2>2 DEF SendRaises
  <1>19. ASSUME NEW j \in Job, SendFlooded(j)
        PROVE  IInv'
    BY <1>19 DEF SendFlooded, Fault, AfterJob
  <1>20. CASE DeleteSent
    BY <1>20 DEF DeleteSent, DropRow, AfterJob
  <1>21. CASE DeleteSentFails
    BY <1>21 DEF DeleteSentFails, Fault, AfterJob
  <1>22. CASE Crash
    BY <1>22 DEF Crash, Fault
  <1>23. CASE Tick
    BY <1>23 DEF Tick
  <1>24. CASE UNCHANGED vars
    BY <1>24 DEF vars
  <1> QED
    BY <1>1, <1>2, <1>3, <1>4, <1>5, <1>6, <1>7, <1>8, <1>9, <1>10, <1>11, <1>12, <1>13, <1>14, <1>15, <1>16, <1>17, <1>18, <1>19, <1>20, <1>21, <1>22, <1>23, <1>24 DEF Next, Boot, Owner, Worker

-----------------------------------------------------------------------------
\* The invariant holds in every state the scheduler reaches.
THEOREM InvariantHolds == Spec => []IInv
  <1>1. Init => IInv
    BY InitInv
  <1>2. IInv /\ [Next]_vars => IInv'
    BY StepInv
  <1> QED
    BY <1>1, <1>2, PTL DEF Spec

\* Type correctness, for every set of jobs and chats.
THEOREM TypeCorrect == Spec => []TypeOK
  <1>1. IInv => TypeOK
    BY DEF IInv
  <1> QED
    BY <1>1, InvariantHolds, PTL

\* A job is never sent more often than once and once more for each delete
\* that failed or that a crash cut off, whatever the owner, the clock and
\* the other jobs do.
THEOREM DuplicatesExplained == Spec => []DuplicateNeedsLostDelete
  <1>1. IInv => DuplicateNeedsLostDelete
    BY DEF IInv
  <1> QED
    BY <1>1, InvariantHolds, PTL

\* No job is ever sent before its time.
THEOREM NoneEarly == Spec => []NeverEarly
  <1>1. IInv => NeverEarly
    BY DEF IInv
  <1> QED
    BY <1>1, InvariantHolds, PTL

\* Every job that has left the table was sent, failed on record or was
\* cancelled.
THEOREM NoneSilentlyLost == Spec => []NothingSilentlyLost
  <1>1. IInv => NothingSilentlyLost
    BY DEF IInv
  <1> QED
    BY <1>1, InvariantHolds, PTL

\* A cancelled job that the current round does not hold stays out of every
\* later round.
THEOREM CancelledStaysOut == Spec => CancelledNeverReturns
  <1>1. IInv /\ [Next]_vars =>
          [\A j \in cancelled : j \notin due => j \notin due']_vars
    <2> SUFFICES ASSUME IInv, [Next]_vars, NEW j \in cancelled, j \notin due
                 PROVE  j \notin due'
      OBVIOUS
    <2>1. row[j] = "deleted"
      BY DEF IInv, CancelsRows
    <2>2. CASE ListDue
      BY <2>1, <2>2 DEF ListDue, Snapshot, Stored
    <2>3. CASE due' \in SUBSET due
      BY <2>3
    <2>4. ListDue \/ due' \in SUBSET due
      BY DEF Next, Boot, Owner, Worker, LoadState, SetSelfId, StartWorkers,
             CancelLookup, Ask, Insert, InsertFails, CancelDelete, CancelFails,
             SetToggle, WriteToggle, WriteToggleFails, Wake, SkipRound,
             ListDueFails, Send, SendRaises, SendFlooded, DeleteSent,
             DeleteSentFails, Crash, Tick, vars, workerVars
    <2> QED
      BY <2>2, <2>3, <2>4
  <1> QED
    BY <1>1, InvariantHolds, PTL DEF Spec, CancelledNeverReturns

-----------------------------------------------------------------------------
(* The scheduler implements JobPromise: StatusMap and AtMap stand for the  *)
(* substitution of the instance Promise.                                   *)

StatusMap == [j \in Job |-> StatusOf(j)]

AtMap == [j \in Job |-> IF row[j] \in {"stored", "deleted"} THEN info[j].runAt ELSE 0]

\* What the promise sees is unchanged.
Unseen == UNCHANGED <<now, StatusMap, AtMap, sent>>

\* The initial states correspond.
LEMMA PromiseInit == Init => Promise!Init
  BY NobodyIsNoJob DEF Init, Promise!Init, StatusOf, InHand

\* Steps that touch neither rows, list, clock nor sends are invisible.
LEMMA QuietSteps ==
  ASSUME UNCHANGED <<row, info, due, cur, pc, now, sent>>
  PROVE  Unseen
  BY DEF Unseen, StatusMap, AtMap, StatusOf, InHand

\* Deleting the row of a cancelled job withdraws it, unless a round holds it.
LEMMA CancelRefines ==
  ASSUME IInv, NEW j \in Job, CancelDelete(j)
  PROVE  Promise!Withdraw(j) \/ Unseen
  <1>1. /\ row' = [row EXCEPT ![j] = "deleted"]
        /\ UNCHANGED <<info, due, cur, pc, now, sent>>
    BY DEF CancelDelete, DropRow, procVars, workerVars, envVars
  <1>2. row \in [Job -> Row]
    BY DEF IInv, TypeOK
  <1>3. row[j] \in {"stored", "deleted"}
    BY DEF IInv, CancelsRows, CancelDelete
  <1>4. \A i \in Job : InHand(i)' = InHand(i)
    BY <1>1 DEF InHand
  <1>5. \A i \in Job : i # j => StatusOf(i)' = StatusOf(i)
    BY <1>1, <1>2, <1>4 DEF StatusOf
  <1>6. AtMap' = AtMap
    BY <1>1, <1>2, <1>3 DEF AtMap
  <1>7. CASE row[j] = "stored" /\ ~InHand(j)
    <2>1. StatusOf(j) = "waiting" /\ StatusOf(j)' = "gone"
      BY <1>1, <1>2, <1>4, <1>7 DEF StatusOf, InHand
    <2>2. StatusMap' = [StatusMap EXCEPT ![j] = "gone"]
      BY <1>5, <2>1 DEF StatusMap
    <2> QED
      BY <1>1, <1>6, <2>1, <2>2 DEF Promise!Withdraw, StatusMap, AtMap
  <1>8. CASE row[j] = "deleted" \/ InHand(j)
    <2>1. StatusOf(j)' = StatusOf(j)
      BY <1>1, <1>2, <1>4, <1>8 DEF StatusOf, InHand
    <2> QED
      BY <1>1, <1>5, <1>6, <2>1 DEF Unseen, StatusMap
  <1> QED
    BY <1>3, <1>7, <1>8

\* Steps of the commands, and the new row an INSERT shows.
LEMMA CommandsRefine ==
  ASSUME IInv, NEW j \in Job
  PROVE  /\ \A k \in Kind, c \in Chat, t \in Time : Ask(j, k, c, t) => Unseen
         /\ Insert(j) => \E t \in 0..MaxTime : Promise!Register(j, t)
         /\ InsertFails(j) => Unseen
         /\ CancelDelete(j) => Promise!Withdraw(j) \/ Unseen
  <1> USE NobodyIsNoJob
      DEF IInv, TypeOK, HoldsRows, StatusOf, InHand, workerVars, envVars, histVars
  <1>1. ASSUME NEW k \in Kind, NEW c \in Chat, NEW t \in Time, Ask(j, k, c, t)
        PROVE  Unseen
    BY <1>1 DEF Ask, Unseen, StatusMap, AtMap
  <1>2. ASSUME Insert(j)
        PROVE  \E t \in 0..MaxTime : Promise!Register(j, t)
    <2>1. PICK t \in 0..MaxTime : t = info[j].runAt
      BY DEF Info, Time
    <2>2. Promise!Register(j, t)
      BY <1>2, <2>1 DEF Insert, Promise!Register
    <2> QED
      BY <2>2
  <1>3. ASSUME InsertFails(j)
        PROVE  Unseen
    BY <1>3 DEF InsertFails, Unseen, StatusMap, AtMap
  <1>4. CancelDelete(j) => Promise!Withdraw(j) \/ Unseen
    BY CancelRefines
  <1> QED
    BY <1>1, <1>2, <1>3, <1>4

\* Steps of a round: the list is a claim, a send an attempt, and whatever
\* lets go of jobs resolves them.
LEMMA RoundsRefine ==
  ASSUME IInv
  PROVE  /\ ListDue => Promise!Claim(cutoff)
         /\ \A j \in Job : Send(j) \/ SendRaises(j) => Promise!Attempt(j)
         /\ \A j \in Job : SendFlooded(j) => Promise!Resolve({j})
         /\ DeleteSent \/ DeleteSentFails => Promise!Resolve({cur})
         /\ Crash => Promise!Resolve({j \in Job : InHand(j)})
  <1> USE NobodyIsNoJob
      DEF IInv, TypeOK, HoldsRows, StatusOf, InHand, dbVars, histVars, envVars
  <1>1. ASSUME ListDue
        PROVE  Promise!Claim(cutoff)
    BY <1>1 DEF ListDue, Snapshot, Stored, AfterJob, HoldsDue, Promise!Claim
  <1>2. ASSUME NEW j \in Job, Send(j) \/ SendRaises(j)
        PROVE  Promise!Attempt(j)
    BY <1>2 DEF Send, SendRaises, Promise!Attempt
  <1>3. ASSUME NEW j \in Job, SendFlooded(j)
        PROVE  Promise!Resolve({j})
    <2> DEFINE T == IF row[j] = "deleted" THEN {j} ELSE {}
    <2>1. T \in SUBSET {j}
      OBVIOUS
    <2>2. StatusMap' = [i \in Job |-> IF i \in T THEN "gone"
                                      ELSE IF i \in {j} THEN "waiting"
                                      ELSE StatusMap[i]]
      BY <1>3 DEF SendFlooded, AfterJob, StatusMap
    <2> QED
      BY <1>3, <2>1, <2>2 DEF SendFlooded, AfterJob, Promise!Resolve, StatusMap
  <1>4. ASSUME DeleteSent \/ DeleteSentFails
        PROVE  Promise!Resolve({cur})
    <2> DEFINE T == IF row'[cur] = "deleted" THEN {cur} ELSE {}
    <2>1. T \in SUBSET {cur}
      OBVIOUS
    <2>2. StatusMap' = [i \in Job |-> IF i \in T THEN "gone"
                                      ELSE IF i \in {cur} THEN "waiting"
                                      ELSE StatusMap[i]]
      BY <1>4 DEF DeleteSent, DeleteSentFails, DropRow, AfterJob, StatusMap
    <2> QED
      BY ZenonT(60), <1>4, <2>1, <2>2
      DEF DeleteSent, DeleteSentFails, DropRow, AfterJob, Promise!Resolve, StatusMap
  <1>5. ASSUME Crash
        PROVE  Promise!Resolve({j \in Job : InHand(j)})
    <2> DEFINE S == {j \in Job : InHand(j)}
               T == {j \in S : row[j] = "deleted"}
    <2>1. T \in SUBSET S
      OBVIOUS
    <2>2. StatusMap' = [i \in Job |-> IF i \in T THEN "gone"
                                      ELSE IF i \in S THEN "waiting"
                                      ELSE StatusMap[i]]
      BY <1>5 DEF Crash, StatusMap
    <2> QED
      BY ZenonT(60), <1>5, <2>1, <2>2 DEF Crash, Promise!Resolve, StatusMap
  <1> QED
    BY <1>1, <1>2, <1>3, <1>4, <1>5

\* Every step of the scheduler is a step of the promise, or invisible.
LEMMA PromiseStep == IInv /\ [Next]_vars => [Promise!Next]_(Promise!vars)
  <1> SUFFICES ASSUME IInv, [Next]_vars
               PROVE  Promise!Next \/ Unseen
    BY DEF Unseen, StatusMap, AtMap, Promise!vars
  <1>1. CASE Boot \/ \E b \in BOOLEAN : SetToggle(b) \/ WriteToggle(b) \/ WriteToggleFails(b)
    BY <1>1, QuietSteps
    DEF Boot, LoadState, SetSelfId, StartWorkers, SetToggle, WriteToggle,
        WriteToggleFails, dbVars, workerVars, envVars, histVars
  <1>2. ASSUME NEW j \in Job,
               \/ \E k \in Kind, c \in Chat : CancelLookup(j, k, c)
               \/ CancelFails(j)
        PROVE  Unseen
    BY <1>2, QuietSteps
    DEF CancelLookup, CancelFails, dbVars, workerVars, envVars, histVars
  <1>3. ASSUME NEW j \in Job,
               \/ \E k \in Kind, c \in Chat, t \in Time : Ask(j, k, c, t)
               \/ Insert(j) \/ InsertFails(j) \/ CancelDelete(j)
        PROVE  Promise!Next \/ Unseen
    <2>2. CASE Insert(j)
      BY <2>2, CommandsRefine DEF Promise!Next
    <2>3. CASE CancelDelete(j)
      <3>1. Promise!Withdraw(j) \/ Unseen
        BY <2>3, CommandsRefine
      <3> QED
        BY <3>1 DEF Promise!Next
    <2>4. CASE InsertFails(j) \/ \E k \in Kind, c \in Chat, t \in Time : Ask(j, k, c, t)
      BY <2>4, CommandsRefine
    <2> QED
      BY <1>3, <2>2, <2>3, <2>4
  <1>4. CASE Wake \/ SkipRound \/ ListDueFails \/ UNCHANGED vars
    <2>1. UNCHANGED <<row, info, due, now, sent, cur>>
      BY <1>4 DEF Wake, SkipRound, ListDueFails, vars, dbVars, workerVars, envVars, histVars
    <2>2. (pc # "delete" /\ pc' # "delete") \/ UNCHANGED pc
      BY <1>4 DEF Wake, SkipRound, ListDueFails, vars, workerVars
    <2> QED
      BY <2>1, <2>2 DEF Unseen, StatusMap, AtMap, StatusOf, InHand
  <1>5. CASE ListDue
    <2>1. cutoff \in 0..MaxTime
      BY DEF IInv, TypeOK, Time
    <2> QED
      BY <1>5, <2>1, RoundsRefine DEF Promise!Next
  <1>6. ASSUME NEW j \in Job, Send(j) \/ SendRaises(j) \/ SendFlooded(j)
        PROVE  Promise!Next
    BY <1>6, RoundsRefine DEF Promise!Next
  <1>7. CASE DeleteSent \/ DeleteSentFails
    <2>1. {cur} \in SUBSET Job
      BY <1>7 DEF DeleteSent, DeleteSentFails, IInv, TypeOK
    <2> QED
      BY <1>7, <2>1, RoundsRefine DEF Promise!Next
  <1>8. CASE Crash
    <2>1. {j \in Job : InHand(j)} \in SUBSET Job
      OBVIOUS
    <2> QED
      BY <1>8, <2>1, RoundsRefine DEF Promise!Next
  <1>9. CASE Tick
    BY <1>9 DEF Tick, Promise!Next, Promise!Tick, dbVars, workerVars, histVars,
                StatusOf, InHand
  <1> QED
    BY <1>1, <1>2, <1>3, <1>4, <1>5, <1>6, <1>7, <1>8, <1>9
    DEF Next, Owner, Worker

\* The scheduler implements JobPromise: a job is attempted at most once for
\* each claim, only after its time, and never once it is gone.
THEOREM ImplementsPromise == Spec => KeepsPromise
  <1>1. Init => Promise!Init
    BY PromiseInit
  <1>2. IInv /\ [Next]_vars => [Promise!Next]_(Promise!vars)
    BY PromiseStep
  <1> QED
    BY <1>1, <1>2, InvariantHolds, PTL DEF Spec, KeepsPromise, Promise!Spec
=============================================================================
