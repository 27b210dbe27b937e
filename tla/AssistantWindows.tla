--------------------------- MODULE AssistantWindows ---------------------------
(***************************************************************************)
(* The schedule windows of the assistant: the assistant_schedule_windows   *)
(* table, the list in memory, and the `schedule add`, `remove` and `clear` *)
(* commands, each of which writes the table and then refreshes the list    *)
(* across awaits (bot/storage/assistant_store.py:97-115).                  *)
(***************************************************************************)
EXTENDS Naturals, FiniteSets

CONSTANTS Window,     \* windows the serial primary key can number
          Op,         \* commands that can be under way together
          Cap,        \* ASSISTANT_SCHEDULE_MAX_WINDOWS
          MaxFaults   \* bound: failed calls and crashes

ASSUME WindowsAssumption ==
    /\ IsFiniteSet(Window)
    /\ Cap \in Nat \ {0}
    /\ MaxFaults \in Nat

VARIABLES table,      \* rows of assistant_schedule_windows
          used,       \* ids given out so far
          windows,    \* assistant_state["schedule_windows"]
          loaded,     \* "no", "read" or "yes": init_assistant_state
          read,       \* what it has read
          op,         \* the commands under way
          faults,
          \* -- history
          disturbed,  \* in this process, commands overlapped each other or the
                      \* load, or one failed
          asked       \* windows a remove named, or all stored ones at a clear

vars == <<table, used, windows, loaded, read, op, faults, disturbed, asked>>

None == "none"
NotWindow == "any"
ASSUME NotWindowIsNone == NotWindow \notin Window

Free == [kind |-> None, target |-> NotWindow, stage |-> "write", seen |-> {}]
Busy == {o \in Op : op[o].kind # None}

\* The cap is compared with the list in memory, before the first await.
RoomAlways == TRUE                     \* variant: <= for <, one more than the cap
Room == Cardinality(windows) < Cap

\* What the command leaves in the table.
WriteEverything(c) == {}               \* variant: the WHERE clause is missing
Write(c) ==
    CASE c.kind = "add" -> table \cup {c.target}
      [] c.kind = "remove" -> table \ {c.target}
      [] c.kind = "clear" -> {}

\* What it leaves in memory: clear does not read the table again.
RefreshNothing(c) == windows           \* variant: the list is not refreshed
Refresh(c) == IF c.kind = "clear" THEN {} ELSE c.seen

Fault == faults < MaxFaults /\ faults' = faults + 1

Init ==
    /\ table \in {ws \in SUBSET Window : Cardinality(ws) <= Cap}
    /\ used = table
    /\ windows = {}
    /\ loaded = "no"
    /\ read = {}
    /\ op = [o \in Op |-> Free]
    /\ faults = 0
    /\ disturbed = FALSE
    /\ asked = {}

\* init_assistant_state: the read, then the new dictionary.
LoadRead ==
    /\ loaded = "no"
    /\ loaded' = "read"
    /\ read' = table
    /\ UNCHANGED <<table, used, windows, op, faults, disturbed, asked>>

Load ==
    /\ loaded = "read"
    /\ loaded' = "yes"
    /\ windows' = read
    /\ read' = {}
    /\ UNCHANGED <<table, used, op, faults, disturbed, asked>>

AskNamingNothing(o, kind, w) ==        \* variant: the id is not passed on
    /\ o \notin Busy
    /\ op' = [op EXCEPT ![o] = [Free EXCEPT !.kind = kind]]
    /\ disturbed' = (disturbed \/ Busy # {} \/ loaded # "yes")
    /\ UNCHANGED <<table, windows, loaded, read, faults>>

Ask(o, kind, w) ==
    /\ o \notin Busy
    /\ op' = [op EXCEPT ![o] = [Free EXCEPT !.kind = kind, !.target = w]]
    /\ disturbed' = (disturbed \/ Busy # {} \/ loaded # "yes")
    /\ UNCHANGED <<table, windows, loaded, read, faults>>

\* The id the serial column will give: none that was ever given out.
AskAdd(o, w) ==
    /\ Room
    /\ w \notin used
    /\ used' = used \cup {w}
    /\ UNCHANGED asked
    /\ Ask(o, "add", w)

\* The number is looked up in the list at once: the id is fixed from here on.
AskRemove(o, w) ==
    /\ w \in windows
    /\ asked' = asked \cup {w}
    /\ UNCHANGED used
    /\ Ask(o, "remove", w)

AskClear(o) ==
    /\ UNCHANGED <<used, asked>>
    /\ Ask(o, "clear", NotWindow)

\* The command's transaction commits.
Commit(o) ==
    /\ o \in Busy /\ op[o].stage = "write"
    /\ table' = Write(op[o])
    /\ op' = [op EXCEPT ![o].stage = IF op[o].kind = "clear" THEN "assign" ELSE "list"]
    /\ asked' = IF op[o].kind = "clear" THEN asked \cup table ELSE asked
    /\ UNCHANGED <<used, windows, loaded, read, faults, disturbed>>

List(o) ==
    /\ o \in Busy /\ op[o].stage = "list"
    /\ op' = [op EXCEPT ![o].stage = "assign", ![o].seen = table]
    /\ UNCHANGED <<table, used, windows, loaded, read, faults, disturbed, asked>>

\* The handler resumes; an add whose row is already gone again raises
\* StopIteration after the assignment, and the command ends unanswered.
Assign(o) ==
    /\ o \in Busy /\ op[o].stage = "assign"
    /\ windows' = Refresh(op[o])
    /\ op' = [op EXCEPT ![o] = Free]
    /\ UNCHANGED <<table, used, loaded, read, faults, disturbed, asked>>

\* A database call raises: nothing of it is kept, and the handler ends there.
Fail(o) ==
    /\ o \in Busy /\ op[o].stage \in {"write", "list"}
    /\ Fault
    /\ op' = [op EXCEPT ![o] = Free]
    /\ disturbed' = TRUE
    /\ UNCHANGED <<table, used, windows, loaded, read, asked>>

Crash ==
    /\ Fault
    /\ windows' = {}
    /\ loaded' = "no"
    /\ read' = {}
    /\ op' = [o \in Op |-> Free]
    /\ disturbed' = FALSE
    /\ UNCHANGED <<table, used, asked>>

Next ==
    \/ LoadRead \/ Load \/ Crash
    \/ \E o \in Op :
         \/ \E w \in Window : AskAdd(o, w) \/ AskRemove(o, w)
         \/ AskClear(o) \/ Commit(o) \/ List(o) \/ Assign(o) \/ Fail(o)

Spec == Init /\ [][Next]_vars

-----------------------------------------------------------------------------
(* Properties.                                                             *)

Command == [kind : {None, "add", "remove", "clear"}, target : Window \cup {NotWindow},
            stage : {"write", "list", "assign"}, seen : SUBSET Window]

\* Every variable keeps its kind of value, ids are never given out twice, and
\* a command under way names the window it is about.
TypeOK ==
    /\ table \in SUBSET Window /\ used \in SUBSET Window /\ table \subseteq used
    /\ windows \in SUBSET Window
    /\ loaded \in {"no", "read", "yes"}
    /\ read \in SUBSET Window
    /\ op \in [Op -> Command]
    /\ \A o \in Op : op[o].kind \in {"add", "remove"} <=> op[o].target \in Window
    /\ faults \in 0..MaxFaults
    /\ disturbed \in BOOLEAN
    /\ asked \in SUBSET Window

\* A process in which no two window commands overlapped and none failed or ran
\* before the load shows the owner, whenever it is quiet, exactly the windows
\* it would have after a restart, whatever crashes left behind before it.
AgreesWhenQuiet ==
    ~disturbed /\ loaded = "yes" /\ Busy = {} => windows = table

\* In such a process the number of stored windows never passes the cap, even
\* while a command is under way; only a table that was over it stays so.
CapWhenSerial ==
    [][~disturbed' /\ ~(table' \subseteq table) => Cardinality(table') <= Cap]_vars

\* A stored window disappears only if a remove named that very window or a
\* clear was committed: an index that has moved meanwhile deletes no other.
OnlyAskedIsRemoved == [][table \ table' \subseteq asked']_vars
=============================================================================
