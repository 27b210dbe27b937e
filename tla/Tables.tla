-------------------------------- MODULE Tables ---------------------------------
(***************************************************************************)
(* The tables commands write without a copy in memory: inbox items, AI     *)
(* memories, user profiles and notes (bot/repositories/inbox_repo.py,      *)
(* ai_memory_repo.py, user_profile_repo.py, notes_repo.py and the handlers *)
(* over them).  A command is one transaction that reads the row of its key *)
(* and then inserts or updates it; the commands of two chats overlap, and  *)
(* only a unique constraint stands between two inserts.                    *)
(*                                                                         *)
(* One key of each table.  A row is a value and a set of labels: the text  *)
(* and importance of an item, the value of a memory, the note and the tags *)
(* of a profile, the text of a note.                                       *)
(***************************************************************************)
EXTENDS Environment

CONSTANTS Clerk,  \* tasks of commands
          Label   \* tags

Table == {"inbox", "memory", "profile", "note"}
Value == {0, 1}
Op    == {"save", "open", "describe", "label", "unlabel", "drop"}

VARIABLES
    row,       \* table -> {} or {[id, val, labels]}
    desk,      \* the tasks: their operation, its argument, and the row they read
    \* -- history, read by properties only
    told,      \* table -> {} or {[val, labels]}, as the commands that committed asked
    clashed    \* tables on which two commands were at work on one column at once

tablesVars == <<row, desk, told, clashed>>

NoWork == [at |-> "idle", table |-> "note", op |-> "open", val |-> 0, labels |-> {}, seen |-> {}]

TablesInit ==
    /\ row = [t \in Table |-> {}]
    /\ desk = [c \in Clerk |-> NoWork]
    /\ told = [t \in Table |-> {}]
    /\ clashed = {}

Blank == [id |-> 0, val |-> 0, labels |-> {}]

\* What a command makes of the row it read; {} is no row.
Opened(w)     == IF w.seen = {} THEN {Blank} ELSE w.seen   \* get_or_create
Saved(w)      == {[r EXCEPT !.val = w.val] : r \in Opened(w)}   \* save_item, save_memory, upsert
Described(w)  == {[r EXCEPT !.val = w.val] : r \in Opened(w)}
Labelled(w)   == {[r EXCEPT !.labels = @ \cup w.labels] : r \in Opened(w)}
Unlabelled(w) == {[r EXCEPT !.labels = @ \ w.labels] : r \in w.seen}
Dropped(w)    == {}

Makes(w) == CASE w.op = "save"     -> Saved(w)
              [] w.op = "open"     -> Opened(w)
              [] w.op = "describe" -> Described(w)
              [] w.op = "label"    -> Labelled(w)
              [] w.op = "unlabel"  -> Unlabelled(w)
              [] w.op = "drop"     -> Dropped(w)

\* The commands of each table, and the read of the transaction.
Offers(t) == CASE t = "profile" -> {"open", "describe", "label", "unlabel"}
               [] t \in {"inbox", "memory", "note"} -> {"save", "drop"}

Columns == [save |-> {"val"}, describe |-> {"val"}, open |-> {}, label |-> {"labels"},
            unlabel |-> {"labels"}, drop |-> {"val", "labels"}]

Asks(c, t, op, v, labels) ==
    /\ desk[c].at = "idle" /\ op \in Offers(t)
    /\ desk' = [desk EXCEPT ![c] = [at |-> "read", table |-> t, op |-> op, val |-> v, labels |-> labels,
                                    seen |-> row[t]]]
    /\ clashed' = IF \E p \in Clerk : /\ desk[p].at = "read" /\ desk[p].table = t
                                      /\ Columns[desk[p].op] \cap Columns[op] # {}
                  THEN clashed \cup {t} ELSE clashed
    /\ Ordered /\ UNCHANGED <<row, told>>

MergeAll(t, was, new) == {[new EXCEPT !.id = r.id] : r \in row[t]}  \* variant: every column

\* An update writes the columns that differ from what was read.
Merge(t, was, new) == {[r EXCEPT !.val = IF new.val # was.val THEN new.val ELSE @,
                                 !.labels = IF new.labels # was.labels THEN new.labels ELSE @] : r \in row[t]}

\* What a command was asked for, on top of what those before it were.
Intended(w, rows) ==
    LET r == IF rows = {} THEN [val |-> 0, labels |-> {}] ELSE CHOOSE x \in rows : TRUE
    IN  CASE w.op \in {"save", "describe"} -> {[r EXCEPT !.val = w.val]}
          [] w.op = "label"   -> {[r EXCEPT !.labels = @ \cup w.labels]}
          [] w.op = "unlabel" -> IF rows = {} THEN {} ELSE {[r EXCEPT !.labels = @ \ w.labels]}
          [] w.op = "open"    -> IF w.seen = {} THEN {r} ELSE rows
          [] w.op = "drop"    -> {}

\* Whether the statement finds its row; a conflict or a missing row raises.
InsertConflicts(w) == w.seen = {} /\ row[w.table] # {}
UpdateMisses(w) == \E s \in w.seen : \A r \in row[w.table] : r.id # s.id
Raises(w) == w.op # "drop" /\ Makes(w) # w.seen /\ (InsertConflicts(w) \/ UpdateMisses(w))

\* Nothing is written of a row that is as it was read; but a drop deletes blindly,
\* save that of a note, which is read first.
NoWrite(w) == Raises(w) \/ (Makes(w) = w.seen /\ (w.op # "drop" \/ w.table = "note"))

Inserted(w) ==
    {[n EXCEPT !.id = IF w.table \in {"inbox", "memory"} THEN orders ELSE 0] : n \in Makes(w)}
Updated(w) == UNION {Merge(w.table, CHOOSE s \in w.seen : TRUE, n) : n \in Makes(w)}

RowsAfter(w) == IF NoWrite(w) THEN row[w.table]
                ELSE IF w.seen = {} THEN Inserted(w) ELSE Updated(w)

\* The commit ends the transaction and the task, for good or with a raise.
Commits(c) ==
    /\ desk[c].at = "read"
    /\ row' = [row EXCEPT ![desk[c].table] = RowsAfter(desk[c])]
    /\ told' = IF Raises(desk[c]) THEN told
               ELSE [told EXCEPT ![desk[c].table] = Intended(desk[c], @)]
    /\ desk' = [desk EXCEPT ![c] = NoWork]
    /\ UNCHANGED clashed

Writes(c) == Commits(c) /\ Calm

\* The row is committed and the command says it failed: the answer to the commit is
\* lost, or the refresh that follows it raises.
RefreshFails(c) == Commits(c) /\ ~Raises(desk[c]) /\ Fault

\* An error up to the commit rolls the transaction back, and the command says so.
WriteFails(c) ==
    /\ desk[c].at = "read"
    /\ desk' = [desk EXCEPT ![c] = NoWork]
    /\ Fault /\ UNCHANGED <<row, told, clashed>>

-----------------------------------------------------------------------------
\* Every row holds what the commands that committed were asked for, one on top of the
\* other: those that returned, and those that raised after their commit, which the
\* owner is told failed.  A tag outlives a note written at the same time, of two
\* commands that create the row one raises, and a row is there once.  Left out are
\* tables on which two commands overlapped that write the same column: read before
\* either wrote, the later takes the other's change back (user_profile_repo.py:91-121).
RowsAsTold ==
    \A t \in Table \ clashed :
      {[val |-> r.val, labels |-> r.labels] : r \in row[t]} = told[t]

TablesTypes ==
    /\ \A t \in Table : Cardinality(row[t]) <= 1 /\ Cardinality(told[t]) <= 1
    /\ \A c \in Clerk : desk[c].op \in Op /\ Cardinality(desk[c].seen) <= 1
=============================================================================
