------------------------------- MODULE Settings -------------------------------
(***************************************************************************)
(* The stores of settings, all written the same way: a handler changes the *)
(* dictionary in memory, then saves, in a transaction of its own, what the *)
(* dictionary held when the save began.  A save may be overtaken by another*)
(* one, fail, or be cut off; a restart loads one store after the other     *)
(* while handlers already answer; and a restored backup is a long sequence *)
(* of such changes (bot/storage/*_store.py, settings_toggles.py,           *)
(* handlers/backup.py, settings_center.py, font.py).  The assistant's      *)
(* settings are in Assistant and AssistantWindows.                         *)
(*                                                                         *)
(* A cell is one value of a store, TRUE or FALSE; the rows exist.          *)
(***************************************************************************)
EXTENDS Environment, SequencesExt

CONSTANTS Save,    \* tasks that change settings, at once
          Listed,  \* chats of the lists, and the link filters and welcome texts of groups
          Greeted, \* the welcomes of groups, on or off
          Scopes   \* sets of cells; the owner uses the cells of one

SettingsAssumption == IsFiniteSet(Listed) /\ IsFiniteSet(Greeted) /\ Listed \cap Greeted = {}

\* The values of a store that one row holds, saved together ...
PostRow   == {"on", "text"}     \* text stands for the interval too
DigestRow == {"on", "time"}     \* time, mode and day of the last run
FontRow   == {"on", "style"}
ClockRow  == {"on", "style", "base"}

Store == {"post", "digest", "font", "clock", "guard", "toggles"}
Row   == [post |-> PostRow, digest |-> DigestRow, font |-> FontRow, clock |-> ClockRow,
          guard |-> {}, toggles |-> {}]
\* ... and those that have a row each.  The keys of the toggles are independent
\* of each other, and so are the switches of a group: the link filter stands for
\* those that a restore leaves alone too.
Item  == [post |-> Listed, digest |-> Listed, font |-> {}, clock |-> {},
          guard |-> Listed \cup Greeted, toggles |-> {"key"}]

Rows(s)  == {s} \X Row[s]
Items(s) == {s} \X Item[s]
Cells(s) == Rows(s) \cup Items(s)
Cell     == UNION {Cells(s) : s \in Store}

\* The base name is stored and never loaded: a process takes it from the profile.
Base == <<"clock", "base">>

VARIABLES
    mem,        \* the dictionaries of the process
    table,      \* the committed rows
    saver,      \* the tasks: at, store, todo, tx, seen
    load,       \* load_all_persistent_state: left, seen
    scope,      \* the cells in use
    \* -- history, read by properties only
    disturbed,  \* stores whose last saves overlapped, failed, or met the load
    restore     \* the last restore: by, snap, clean

settingsVars == <<mem, table, saver, load, scope, disturbed, restore>>

NoCells == [c \in {} |-> FALSE]
Idling == [at |-> "idle", store |-> "none", todo |-> <<>>, tx |-> NoCells, seen |-> NoCells]
NoRestore == [by |-> "nobody", snap |-> [on |-> {}, named |-> {}], clean |-> FALSE]

\* All switches are off by default but the clock and the toggles.
Default == [c \in Cell |-> c[1] = "toggles" \/ c = <<"clock", "on">>]

\* The stores are loaded one after the other.
LoadOrder  == [post |-> 1, digest |-> 2, font |-> 3, clock |-> 4, guard |-> 5, toggles |-> 6]
LoadsOf(C) == [left |-> {s \in Store : C \cap Cells(s) # {}}, seen |-> NoCells]
First(s)   == s \in load.left /\ \A t \in load.left : LoadOrder[s] <= LoadOrder[t]

SettingsInit ==
    /\ scope \in Scopes
    /\ mem = Default /\ table = Default
    /\ saver = [o \in Save |-> Idling]
    /\ load = LoadsOf(scope)
    /\ disturbed = {} /\ restore = NoRestore

-----------------------------------------------------------------------------
(* One change: `set` goes to memory at once, `saves` to the table later.   *)

Change(s, set, saves) == [store |-> s, set |-> set, saves |-> saves]

RowChange(s, n, v)  == Change(s, [c \in {<<s, n>>} |-> v], Rows(s))
ItemChange(s, n, v) == Change(s, [c \in {<<s, n>>} |-> v], {<<s, n>>})
Clearing(s) == Change(s, [c \in Items(s) |-> FALSE], Items(s))

Busy(o, s) == saver[o].at # "idle" /\ saver[o].store = s
Loading(s) == First(s) /\ DOMAIN load.seen # {}

\* The dictionaries with the values of `set`.
With(set) == [c \in Cell |-> IF c \in DOMAIN set THEN set[c] ELSE mem[c]]

BeginStale(o, c, rest) ==        \* variant: the row is built before the change
    /\ mem' = With(c.set)
    /\ saver' = [saver EXCEPT ![o] = [at |-> "begun", store |-> c.store, todo |-> rest,
                                      tx |-> [x \in c.saves |-> mem[x]], seen |-> NoCells]]
    /\ disturbed' = IF Loading(c.store) \/ \E p \in Save \ {o} : Busy(p, c.store)
                    THEN disturbed \cup {c.store} ELSE disturbed
    /\ Calm /\ UNCHANGED <<table, load, scope>>

\* The memory is changed and the values to save are fixed.
Begin(o, c, rest) ==
    /\ mem' = With(c.set)
    /\ saver' = [saver EXCEPT ![o] = [at |-> "begun", store |-> c.store, todo |-> rest,
                                      tx |-> [x \in c.saves |-> mem'[x]], seen |-> NoCells]]
    /\ disturbed' = IF Loading(c.store) \/ \E p \in Save \ {o} : Busy(p, c.store)
                    THEN disturbed \cup {c.store} ELSE disturbed
    /\ Calm /\ UNCHANGED <<table, load, scope>>

\* A command: one change, by an idle task.
Order(o, c) ==
    /\ saver[o].at = "idle" /\ DOMAIN c.set \cap scope # {}
    /\ Begin(o, c, <<>>)
    /\ restore' = [restore EXCEPT !.clean = FALSE]

\* The lists are upserted and deleted from; the other rows are read, compared
\* and written where they differ.
Blind(c) == c[1] \in {"post", "digest"} /\ c[2] \in Listed

ReadRow(o) ==
    /\ saver[o].at = "begun"
    /\ saver' = [saver EXCEPT ![o].at = "read",
                              ![o].seen = [c \in DOMAIN saver[o].tx |-> table[c]]]
    /\ Calm /\ UNCHANGED <<mem, table, load, scope, disturbed, restore>>

Written(tx, seen) ==
    [c \in Cell |-> IF c \in DOMAIN tx /\ (Blind(c) \/ tx[c] # seen[c]) THEN tx[c] ELSE table[c]]

CommitSave(o) ==
    /\ saver[o].at = "read"
    /\ table' = Written(saver[o].tx, saver[o].seen)
    /\ saver' = [saver EXCEPT ![o] = IF @.todo = <<>> THEN Idling
                                     ELSE [@ EXCEPT !.at = "next", !.tx = NoCells, !.seen = NoCells]]
    /\ Calm /\ UNCHANGED <<mem, load, scope, disturbed, restore>>

\* The save raises; a command or a restore ends there.
SaveFails(o) ==
    /\ saver[o].at \in {"begun", "read"}
    /\ saver' = [saver EXCEPT ![o] = Idling]
    /\ disturbed' = disturbed \cup {saver[o].store}
    /\ restore' = IF restore.by = o THEN NoRestore ELSE restore
    /\ Fault /\ UNCHANGED <<mem, table, load, scope>>

-----------------------------------------------------------------------------
(* Commands.                                                               *)

PostSet(o, n, v)   == Order(o, RowChange("post", n, v))
DigestSet(o, n, v) == Order(o, RowChange("digest", n, v))
FontSet(o, n, v)   == Order(o, RowChange("font", n, v))
ClockSet(o, n, v)  == Order(o, RowChange("clock", n, v))   \* n is not the base name
GuardSet(o, n, v)  == Order(o, ItemChange("guard", n, v))

\* The base name changes without a save: a new name is on its way to the profile,
\* or the name was read from it.  The save comes after a later await, if it comes.
ClockBase(v) ==
    /\ Base \in scope
    /\ mem' = With([c \in {Base} |-> v])
    /\ Calm /\ UNCHANGED <<table, saver, load, scope, disturbed, restore>>

ClockSave(o) ==
    /\ saver[o].at = "idle" /\ Base \in scope
    /\ Begin(o, Change("clock", NoCells, Rows("clock")), <<>>)
    /\ restore' = [restore EXCEPT !.clean = FALSE]

SetToggle(o, v)    == Order(o, ItemChange("toggles", "key", v))

\* The settings centre turns a store on or off.
CentreSet(o, s, v) == s \in {"post", "digest", "font"} /\ Order(o, RowChange(s, "on", v))

AddChat(o, s, n)    == Order(o, ItemChange(s, n, TRUE))
RemoveChat(o, s, n) == mem[<<s, n>>] /\ Order(o, ItemChange(s, n, FALSE))
ClearChats(o, s)    == Order(o, Clearing(s))

-----------------------------------------------------------------------------
(* Backup.  A file holds the cells that were TRUE, and names the groups    *)
(* that had a welcome, on or off.                                          *)

BackedUp == {"post", "font", "clock", "guard"}

\* A row as the file has it; the base name when it has one.
Restored(s, snap) ==
    Change(s, [c \in Rows(s) \ ({Base} \ snap.on) |-> c \in snap.on], Rows(s))
Adding(C) == LET q == SetToSeq(C)
             IN  [i \in 1..Len(q) |-> ItemChange(q[i][1], q[i][2], TRUE)]
Greeting(snap) ==
    LET q == SetToSeq(snap.named)
    IN  [i \in 1..Len(q) |-> ItemChange("guard", q[i], <<"guard", q[i]>> \in snap.on)]

RestoreStepsMerging(snap) ==     \* variant: the list is not cleared
    LET of == [s \in BackedUp |->
                 CASE s = "post"  -> <<Restored(s, snap)>> \o Adding(snap.on \cap Items(s))
                   [] s = "guard" -> Adding(snap.on \cap ({s} \X Listed)) \o Greeting(snap)
                   [] OTHER       -> <<Restored(s, snap)>>]
        used(s) == IF scope \cap Cells(s) # {} THEN of[s] ELSE <<>>
    IN  used("post") \o used("font") \o used("clock") \o used("guard")

\* A list is cleared and refilled.  The link filters and texts of the file are set,
\* no other is cleared; the welcomes it names are turned on or off.
RestoreSteps(snap) ==
    LET of == [s \in BackedUp |->
                 CASE s = "post"  -> <<Restored(s, snap), Clearing(s)>> \o Adding(snap.on \cap Items(s))
                   [] s = "guard" -> Adding(snap.on \cap ({s} \X Listed)) \o Greeting(snap)
                   [] OTHER       -> <<Restored(s, snap)>>]
        used(s) == IF scope \cap Cells(s) # {} THEN of[s] ELSE <<>>
    IN  used("post") \o used("font") \o used("clock") \o used("guard")

Restore(o, snap) ==
    /\ saver[o].at = "idle"
    /\ RestoreSteps(snap) # <<>>
    /\ Begin(o, Head(RestoreSteps(snap)), Tail(RestoreSteps(snap)))
    /\ restore' = [by |-> o, snap |-> snap,
                   clean |-> load.left = {} /\ \A p \in Save : saver[p].at = "idle"]

RestoreNext(o) ==
    /\ saver[o].at = "next"
    /\ Begin(o, Head(saver[o].todo), Tail(saver[o].todo))
    /\ UNCHANGED restore

-----------------------------------------------------------------------------
(* The start of a process.                                                 *)

LoadRows ==
    /\ DOMAIN load.seen = {}
    /\ \E s \in Store :
         /\ First(s)
         /\ load' = [load EXCEPT !.seen = [c \in IF Row[s] = {} THEN Items(s) ELSE Rows(s) |-> table[c]]]
         /\ disturbed' = IF \E o \in Save : Busy(o, s) THEN disturbed \cup {s} ELSE disturbed
    /\ Calm /\ UNCHANGED <<mem, table, saver, scope, restore>>

LoadItems ==
    /\ \E s \in Store :
         /\ First(s) /\ Row[s] # {} /\ Item[s] # {}
         /\ DOMAIN load.seen = Rows(s)
         /\ load' = [load EXCEPT !.seen = [c \in Cells(s) |-> IF c \in Rows(s) THEN @[c] ELSE table[c]]]
    /\ Calm /\ UNCHANGED <<mem, table, saver, scope, disturbed, restore>>

LoadAssign ==
    /\ \E s \in Store :
         /\ First(s) /\ DOMAIN load.seen = Cells(s)
         /\ load' = [left |-> load.left \ {s}, seen |-> NoCells]
    /\ mem' = With([c \in DOMAIN load.seen \ {Base} |-> load.seen[c]])
    /\ Calm /\ UNCHANGED <<table, saver, scope, disturbed, restore>>

\* The process dies; transactions under way are rolled back.
SettingsCrash ==
    /\ Fault
    /\ mem' = Default
    /\ saver' = [o \in Save |-> Idling]
    /\ load' = LoadsOf(scope)
    /\ disturbed' = {} /\ restore' = NoRestore
    /\ UNCHANGED <<table, scope>>

-----------------------------------------------------------------------------
Loaded(s) == s \notin load.left

\* A loaded store that nobody is saving holds what is stored, if its last saves
\* neither overlapped each other or the load nor failed: after a restart it is
\* what the owner left (settings_toggles.py:29-33, bootstrap.py:1-14).  Not so the
\* base name, which is left alone by the load and set without a save
\* (clock.py:191-199, 219, 229).
StoresAgree ==
    \A s \in Store \ disturbed :
      Loaded(s) /\ (\A o \in Save : ~Busy(o, s))
        => \A c \in Cells(s) \ {Base} : mem[c] = table[c]

\* A restore that ended, and that nothing else met, left memory and table as the
\* file says: rows and lists as they were, the welcomes it names on or off, and its
\* link filters on; a group switch it does not name is left alone, and so is the
\* base name, which no restore pins down (backup.py:88-174).
RestoreExact ==
    restore.clean /\ saver[restore.by].at = "idle" /\ disturbed = {} =>
      \A s \in BackedUp : \A c \in (scope \cap Cells(s)) \ {Base} :
        /\ mem[c] = table[c]
        /\ c \in restore.snap.on => mem[c]
        /\ mem[c] => c \in restore.snap.on \/ (s = "guard" /\ c[2] \notin restore.snap.named)

SettingsTypes ==
    /\ mem \in [Cell -> BOOLEAN] /\ table \in [Cell -> BOOLEAN]
    /\ \A o \in Save : /\ saver[o].at \in {"idle", "begun", "read", "next"}
                       /\ DOMAIN saver[o].tx \subseteq Cell
                       /\ DOMAIN saver[o].seen \subseteq DOMAIN saver[o].tx
    /\ DOMAIN load.seen \subseteq Cell /\ disturbed \subseteq Store
=============================================================================
