------------------------------ MODULE Scheduler ------------------------------
(***************************************************************************)
(* The scheduled messages and reminders of the bot: the `.schedule` and    *)
(* `.remind` commands, the scheduled_jobs table and scheduler_worker, the  *)
(* background task that sends what is due (bot/handlers/scheduler.py,      *)
(* bot/repositories/scheduler_repo.py, main.py).                           *)
(*                                                                         *)
(* Everything runs on one asyncio loop, so a handler is a sequence of      *)
(* atomic steps separated by its awaits: a database call, a Telegram call  *)
(* or a sleep.  The process may die between any two steps and be started   *)
(* again by the platform; only the database survives.                      *)
(***************************************************************************)
EXTENDS Naturals

CONSTANTS Job,            \* identities the serial primary key can give out
          Chat,           \* chats the owner types commands in
          SavedMessages,  \* the owner's own chat (SELF_ID)
          MaxTime,        \* bound: last instant of the model's clock
          MaxFaults,      \* bound: failed calls, flood waits and crashes
          MaxFlips        \* bound: uses of the scheduler_enabled switch

ASSUME SchedulerAssumption ==
    /\ SavedMessages \in Chat
    /\ MaxTime \in Nat
    /\ MaxFaults \in Nat
    /\ MaxFlips \in Nat

VARIABLES
    \* -- PostgreSQL
    row,          \* state of the row of each job
    info,         \* columns kind, chat_id and run_at
    savedToggle,  \* the settings row "scheduler_enabled"
    \* -- memory of the process
    phase,        \* how far main() has come
    enabled,      \* toggles["scheduler_enabled"]
    pc,           \* where scheduler_worker waits
    cutoff,       \* its now_utc
    due,          \* jobs of its list `due` still to be handled
    cur,          \* the job whose delete_job it is about to await
    cancelling,   \* cancel commands between get_job and delete_job
    writing,      \* set_toggle calls between the assignment and the write
    \* -- environment
    now, faults, flips,
    \* -- history, read by properties only
    sent,         \* how often Telegram accepted each job
    lostDeletes,  \* how often delete_job failed for a handled job
    cutShort,     \* how often a crash came between a send and its delete
    reported,     \* jobs whose send raised (logged, error counter)
    cancelled     \* jobs a cancel command has answered for

dbVars      == <<row, info, savedToggle>>
procVars    == <<phase, enabled>>
workerVars  == <<pc, cutoff, due, cur>>
handlerVars == <<cancelling, writing>>
envVars     == <<now, faults, flips>>
histVars    == <<sent, lostDeletes, cutShort, reported, cancelled>>
vars == <<dbVars, procVars, workerVars, handlerVars, envVars, histVars>>

Time   == 0..MaxTime
Kind   == {"schedule", "reminder"}
Info   == [kind : Kind, chat : Chat, runAt : Time]
Row    == {"none", "inserting", "stored", "deleted"}
Phase  == {"connected", "loaded", "identified", "running"}
Unset  == "unset"
Nobody == "nobody"

ASSUME NobodyIsNoJob == Nobody \notin Job

Stored == {j \in Job : row[j] = "stored"}

\* scheduler_repo.delete: the row is gone, whether or not it was still there.
DropRowUncommitted(j) == row    \* variant: the session is never committed
DropRow(j) == [row EXCEPT ![j] = "deleted"]

\* scheduler_repo.list_due: every stored job whose time is not after `cutoff`.
SnapshotOfAll == Stored         \* variant: no time filter
SnapshotAtInstant ==            \* variant: = for <=
    {j \in Stored : info[j].runAt = cutoff}
Snapshot == {j \in Stored : info[j].runAt <= cutoff}

\* Where the worker's loop goes once a job is behind it.
AfterJobBreaks(rest) == "sleep" \* variant: break for continue
AfterJob(rest) == IF rest = {} THEN "sleep" ELSE "loop"

\* One more failed call, flood wait or crash, within the bound.
Fault == faults < MaxFaults /\ faults' = faults + 1

Init ==
    /\ row = [j \in Job |-> "none"]
    /\ info = [j \in Job |->
                 [kind |-> "schedule", chat |-> SavedMessages, runAt |-> 0]]
    /\ savedToggle = Unset
    /\ phase = "connected"
    /\ enabled = TRUE
    /\ pc = "sleep"
    /\ cutoff = 0
    /\ due = {}
    /\ cur = Nobody
    /\ cancelling = {}
    /\ writing = {}
    /\ now = 0 /\ faults = 0 /\ flips = 0
    /\ sent = [j \in Job |-> 0]
    /\ lostDeletes = [j \in Job |-> 0]
    /\ cutShort = [j \in Job |-> 0]
    /\ reported = {}
    /\ cancelled = {}

-----------------------------------------------------------------------------
(* main(): handlers answer from the moment the client is connected; state  *)
(* is loaded, SELF_ID is set and only then are the workers started.        *)

LoadState ==
    /\ phase = "connected"
    /\ phase' = "loaded"
    /\ enabled' = IF savedToggle = Unset THEN enabled ELSE savedToggle = "true"
    /\ UNCHANGED <<dbVars, workerVars, handlerVars, envVars, histVars>>

SetSelfId ==
    /\ phase = "loaded"
    /\ phase' = "identified"
    /\ UNCHANGED <<dbVars, enabled, workerVars, handlerVars, envVars, histVars>>

StartWorkers ==
    /\ phase = "identified"
    /\ phase' = "running"
    /\ UNCHANGED <<dbVars, enabled, workerVars, handlerVars, envVars, histVars>>

SelfIdKnown == phase \in {"identified", "running"}

-----------------------------------------------------------------------------
(* Owner commands.                                                         *)

\* Where a command of kind k typed in chat c sends its text.
Destination(k, c) ==
    IF k = "reminder" /\ SelfIdKnown THEN SavedMessages ELSE c

\* schedule_handler / reminder_handler down to the await in create_job: the
\* time is parsed now, so a relative or clock time is never in the past.
Ask(j, k, c, t) ==
    /\ row[j] = "none"
    /\ t >= now
    /\ row' = [row EXCEPT ![j] = "inserting"]
    /\ info' = [info EXCEPT ![j] =
                  [kind |-> k, chat |-> Destination(k, c), runAt |-> t]]
    /\ UNCHANGED <<savedToggle, procVars, workerVars, handlerVars, envVars, histVars>>

\* The INSERT commits, and the owner is shown the id.
Insert(j) ==
    /\ row[j] = "inserting"
    /\ row' = [row EXCEPT ![j] = "stored"]
    /\ UNCHANGED <<info, savedToggle, procVars, workerVars, handlerVars, envVars, histVars>>

InsertFails(j) ==
    /\ row[j] = "inserting"
    /\ Fault
    /\ row' = [row EXCEPT ![j] = "none"]
    /\ UNCHANGED <<info, savedToggle, procVars, workerVars, handlerVars,
                   now, flips, histVars>>

\* `cancel <id>` of the command of kind k typed in chat c: get_job_checked
\* finds the row, and a schedule is visible in its own chat only.
CancelLookup(j, k, c) ==
    /\ row[j] = "stored"
    /\ info[j].kind = k
    /\ k = "schedule" => info[j].chat = c
    /\ cancelling' = cancelling \cup {j}
    /\ UNCHANGED <<dbVars, procVars, workerVars, writing, envVars, histVars>>

\* delete_job answers whether or not the row is still there, and the owner is
\* told that the job is cancelled either way.
CancelDelete(j) ==
    /\ j \in cancelling
    /\ cancelling' = cancelling \ {j}
    /\ row' = DropRow(j)
    /\ cancelled' = cancelled \cup {j}
    /\ UNCHANGED <<info, savedToggle, procVars, workerVars, writing, envVars,
                   sent, lostDeletes, cutShort, reported>>

CancelFails(j) ==
    /\ j \in cancelling
    /\ Fault
    /\ cancelling' = cancelling \ {j}
    /\ UNCHANGED <<dbVars, procVars, workerVars, writing, now, flips, histVars>>

\* set_toggle assigns the switch in memory, then writes it.
SetToggle(b) ==
    /\ flips < MaxFlips
    /\ flips' = flips + 1
    /\ enabled' = b
    /\ writing' = writing \cup {b}
    /\ UNCHANGED <<dbVars, phase, workerVars, cancelling, now, faults, histVars>>

WriteToggle(b) ==
    /\ b \in writing
    /\ writing' = writing \ {b}
    /\ savedToggle' = IF b THEN "true" ELSE "false"
    /\ UNCHANGED <<row, info, procVars, workerVars, cancelling, envVars, histVars>>

WriteToggleFails(b) ==
    /\ b \in writing
    /\ Fault
    /\ writing' = writing \ {b}
    /\ UNCHANGED <<dbVars, procVars, workerVars, cancelling, now, flips, histVars>>

-----------------------------------------------------------------------------
(* scheduler_worker.                                                       *)

\* After its sleep, with the switch on.
Wake ==
    /\ phase = "running"
    /\ pc = "sleep"
    /\ enabled
    /\ pc' = "query"
    /\ cutoff' = now
    /\ UNCHANGED <<dbVars, procVars, due, cur, handlerVars, envVars, histVars>>

\* With the switch off it goes back to sleep.
SkipRound ==
    /\ phase = "running"
    /\ pc = "sleep"
    /\ ~enabled
    /\ UNCHANGED vars

\* list_due_jobs: a snapshot, detached from the table.
ListDue ==
    /\ pc = "query"
    /\ due' = Snapshot
    /\ pc' = AfterJob(due')
    /\ UNCHANGED <<dbVars, procVars, cutoff, cur, handlerVars, envVars, histVars>>

ListDueFails ==
    /\ pc = "query"
    /\ Fault
    /\ pc' = "sleep"
    /\ UNCHANGED <<dbVars, procVars, cutoff, due, cur, handlerVars, now, flips, histVars>>

\* variant: the list is not advanced past the job that was sent
SendStays(j) ==
    /\ pc = "loop"
    /\ j \in due
    /\ sent' = [sent EXCEPT ![j] = @ + 1]
    /\ UNCHANGED <<dbVars, procVars, workerVars, handlerVars, envVars,
                   lostDeletes, cutShort, reported, cancelled>>

\* send_message returns.
Send(j) ==
    /\ pc = "loop"
    /\ j \in due
    /\ pc' = "delete"
    /\ cur' = j
    /\ due' = due \ {j}
    /\ sent' = [sent EXCEPT ![j] = @ + 1]
    /\ UNCHANGED <<dbVars, procVars, cutoff, handlerVars, envVars,
                   lostDeletes, cutShort, reported, cancelled>>

\* send_message raises anything but a flood wait: logged, and the job is
\* deleted all the same.  A connection can break after Telegram took the text.
SendRaises(j) ==
    /\ pc = "loop"
    /\ j \in due
    /\ Fault
    /\ pc' = "delete"
    /\ cur' = j
    /\ due' = due \ {j}
    /\ reported' = reported \cup {j}
    /\ \/ UNCHANGED sent
       \/ sent' = [sent EXCEPT ![j] = @ + 1]
    /\ UNCHANGED <<dbVars, procVars, cutoff, handlerVars, now, flips,
                   lostDeletes, cutShort, cancelled>>

\* variant: a flood wait is handled like any other failure
SendFloodedIsDropped(j) ==
    /\ pc = "loop"
    /\ j \in due
    /\ Fault
    /\ due' = due \ {j}
    /\ cur' = j
    /\ pc' = "delete"
    /\ UNCHANGED <<dbVars, procVars, cutoff, handlerVars, now, flips, histVars>>

\* FloodWaitError: sleep as told, skip the job, keep its row.
SendFlooded(j) ==
    /\ pc = "loop"
    /\ j \in due
    /\ Fault
    /\ due' = due \ {j}
    /\ pc' = AfterJob(due')
    /\ UNCHANGED <<dbVars, procVars, cutoff, cur, handlerVars, now, flips, histVars>>

DeleteSent ==
    /\ pc = "delete"
    /\ row' = DropRow(cur)
    /\ pc' = AfterJob(due)
    /\ cur' = Nobody
    /\ UNCHANGED <<info, savedToggle, procVars, cutoff, due, handlerVars,
                   envVars, histVars>>

DeleteSentFails ==
    /\ pc = "delete"
    /\ Fault
    /\ pc' = AfterJob(due)
    /\ cur' = Nobody
    /\ lostDeletes' = [lostDeletes EXCEPT ![cur] = @ + 1]
    /\ UNCHANGED <<dbVars, procVars, cutoff, due, handlerVars, now, flips,
                   sent, cutShort, reported, cancelled>>

-----------------------------------------------------------------------------
(* The process dies and is started again; commands in flight die with it.  *)
Crash ==
    /\ Fault
    /\ phase' = "connected"
    /\ enabled' = TRUE
    /\ pc' = "sleep"
    /\ cutoff' = 0
    /\ due' = {}
    /\ cur' = Nobody
    /\ cancelling' = {}
    /\ writing' = {}
    /\ row' = [j \in Job |-> IF row[j] = "inserting" THEN "none" ELSE row[j]]
    /\ cutShort' = IF pc = "delete" THEN [cutShort EXCEPT ![cur] = @ + 1] ELSE cutShort
    /\ UNCHANGED <<info, savedToggle, now, flips, sent, lostDeletes, reported,
                   cancelled>>

Tick ==
    /\ now < MaxTime
    /\ now' = now + 1
    /\ UNCHANGED <<dbVars, procVars, workerVars, handlerVars, faults, flips, histVars>>

-----------------------------------------------------------------------------
Boot == LoadState \/ SetSelfId \/ StartWorkers

Owner ==
    \/ \E j \in Job, k \in Kind, c \in Chat : CancelLookup(j, k, c)
    \/ \E j \in Job, k \in Kind, c \in Chat, t \in Time : Ask(j, k, c, t)
    \/ \E j \in Job : Insert(j) \/ InsertFails(j) \/ CancelDelete(j) \/ CancelFails(j)
    \/ \E b \in BOOLEAN : SetToggle(b) \/ WriteToggle(b) \/ WriteToggleFails(b)

Worker ==
    \/ Wake \/ SkipRound \/ ListDue \/ ListDueFails
    \/ \E j \in Job : Send(j) \/ SendRaises(j) \/ SendFlooded(j)
    \/ DeleteSent \/ DeleteSentFails

Next == Boot \/ Owner \/ Worker \/ Crash \/ Tick

Spec == Init /\ [][Next]_vars

\* The loop keeps running, so main() gets through its start and the worker's
\* awaits end; time passes.  Nothing obliges the owner to do anything.
FairSpec == Spec /\ WF_vars(Boot) /\ WF_vars(Worker) /\ WF_vars(Tick)

-----------------------------------------------------------------------------
(* Properties.                                                             *)

\* Every variable keeps its kind of value, and the worker's place agrees with
\* what it holds: a list only inside its loop, one job only before its delete.
TypeOK ==
    /\ row \in [Job -> Row]
    /\ info \in [Job -> Info]
    /\ savedToggle \in {Unset, "true", "false"}
    /\ phase \in Phase
    /\ enabled \in BOOLEAN
    /\ pc \in {"sleep", "query", "loop", "delete"}
    /\ cutoff \in Time
    /\ due \in SUBSET Job
    /\ cur \in Job \cup {Nobody}
    /\ cancelling \in SUBSET Job
    /\ writing \in SUBSET BOOLEAN
    /\ now \in Time /\ faults \in Nat /\ flips \in Nat
    /\ sent \in [Job -> Nat]
    /\ lostDeletes \in [Job -> Nat]
    /\ cutShort \in [Job -> Nat]
    /\ reported \in SUBSET Job
    /\ cancelled \in SUBSET Job
    /\ pc = "delete" <=> cur \in Job
    /\ pc \in {"sleep", "query"} => due = {}

\* A job is sent once more only when an earlier handling of it lost its
\* delete, to a failed delete_job or to a crash after send_message: neither
\* overlapping cancels, flood waits nor other restarts can repeat it.
DuplicateNeedsLostDelete ==
    \A j \in Job : sent[j] <= 1 + lostDeletes[j] + cutShort[j]

\* No job is sent before the time the owner asked for, whatever the delay
\* between reading the clock and reading the table.
NeverEarly == \A j \in Job : sent[j] > 0 => info[j].runAt <= now

\* A stored job disappears only because it was sent, because its send raised
\* and was recorded as an error, or because the owner cancelled it: a flood
\* wait, a failed query or a crash never loses one.
NothingSilentlyLost ==
    \A j \in Job : row[j] = "deleted" =>
        sent[j] > 0 \/ j \in reported \/ j \in cancelled

\* A cancelled job that the current round does not hold never enters a later
\* round, so at most the round in progress can still send it.
CancelledNeverReturns ==
    [][\A j \in cancelled : j \notin due => j \notin due']_vars

\* While the bot runs with the switch on, every stored job leaves the table:
\* list order, flood waits and failed calls starve no job for ever.
EveryJobIsHandled ==
    <>[](enabled /\ phase = "running") =>
        \A j \in Job : row[j] = "stored" ~> row[j] = "deleted"

-----------------------------------------------------------------------------
(* The promise the scheduler keeps, and how its state shows it.            *)

InHand(j) == j \in due \/ (pc = "delete" /\ cur = j)

\* The worker's copy of a job counts before its row: a job cancelled while a
\* round holds it is still that round's.
StatusOf(j) ==
    IF j \in due THEN "claimed"
    ELSE IF InHand(j) THEN "attempted"
    ELSE IF row[j] = "stored" THEN "waiting"
    ELSE IF row[j] = "deleted" THEN "gone"
    ELSE "absent"

Promise == INSTANCE JobPromise WITH
    status <- [j \in Job |-> StatusOf(j)],
    at     <- [j \in Job |-> IF row[j] \in {"stored", "deleted"}
                             THEN info[j].runAt ELSE 0],
    sends  <- sent

\* The commands, the table, the worker and the crashes together do nothing
\* but register, claim, attempt and resolve jobs as JobPromise allows.
KeepsPromise == Promise!Spec

-----------------------------------------------------------------------------
(* What the project says of itself and the code does not keep.             *)

\* bootstrap.py:10-13: after a restart the background tasks go on from what is
\* stored and nothing is duplicated (a failed delete_job is another matter).
RestartDuplicatesNothing == \A j \in Job : sent[j] <= 1 + lostDeletes[j]
=============================================================================
