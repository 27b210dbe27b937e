------------------------------ MODULE PartsProofs ------------------------------
(***************************************************************************)
(* What the two small components show for every value of the constants.    *)
(*                                                                         *)
(* The windows of the assistant: the argument is about processes in which  *)
(* no two commands overlapped; there the list in memory is a copy of the   *)
(* table except between the commit of the one command under way and its    *)
(* assignment.  The proposals: one that was confirmed once at a time takes *)
(* effect once, and none vanishes.  And the two together, as MCParts       *)
(* composes them: every variable keeps its kind of value.                  *)
(***************************************************************************)
EXTENDS MCParts, FiniteSetTheorems, TLAPS

-----------------------------------------------------------------------------
(* The windows.                                                            *)

\* The types the arguments need; ids and targets of windows are in TypeOK's.
Shape ==
    /\ table \in SUBSET Window
    /\ windows \in SUBSET Window
    /\ read \in SUBSET Window
    /\ loaded \in {"no", "read", "yes"}
    /\ op \in [Op -> Command]
    /\ disturbed \in BOOLEAN
    /\ \A o \in Op : op[o].kind = "add" => op[o].target \in Window
    /\ \A o \in Op : op[o].stage = "list" => op[o].kind # "clear"

\* A remove under way names a window that was asked for.
RemovesAsked == \A o \in Op : op[o].kind = "remove" => op[o].target \in asked

\* Undisturbed, there is one command at most, it began on an agreeing list with
\* room for what it adds, and what it is about to assign is the table.
Serial ==
    ~disturbed =>
        /\ \A o, p \in Busy : o = p
        /\ Busy # {} => loaded = "yes"
        /\ loaded = "read" => read = table
        /\ loaded = "yes" /\ Busy = {} => windows = table
        /\ \A o \in Busy :
              /\ op[o].stage = "write" => windows = table
              /\ op[o].stage = "write" /\ op[o].kind = "add" => Cardinality(windows) < Cap
              /\ op[o].stage = "assign" => Refresh(op[o]) = table

WInv == Shape /\ RemovesAsked /\ Serial

-----------------------------------------------------------------------------
Asked(kind, w) == [Free EXCEPT !.kind = kind, !.target = w]

\* A command that has been asked for is a command.
LEMMA AskedCommand ==
    ASSUME NEW kind \in {"add", "remove", "clear"}, NEW w \in Window \cup {NotWindow}
    PROVE  /\ Asked(kind, w) \in Command
           /\ Asked(kind, w).kind = kind
           /\ Asked(kind, w).target = w
           /\ Asked(kind, w).stage = "write"
  BY DEF Asked, Free, Command, None

\* Nothing is a command too, and it names no window.
LEMMA FreeCommand == Free \in Command /\ Free.kind = None
  BY DEF Free, Command, None

\* The first state satisfies the invariant.
LEMMA InitWInv == Init => WInv
  <1> SUFFICES ASSUME Init
               PROVE  WInv
    OBVIOUS
  <1>1. \A o \in Op : op[o] = Free
    BY DEF Init
  <1>2. Busy = {}
    BY <1>1, FreeCommand DEF Busy
  <1>3. op \in [Op -> Command]
    BY FreeCommand DEF Init
  <1>4. Shape
    BY <1>1, <1>3, FreeCommand DEF Init, Shape, None
  <1>5. RemovesAsked
    BY <1>1, FreeCommand DEF RemovesAsked, None
  <1>6. Serial
    BY <1>2 DEF Init, Serial
  <1> QED BY <1>4, <1>5, <1>6 DEF WInv

\* Asking for a command preserves the invariant, given what each kind adds.
LEMMA AskWInv ==
    ASSUME WInv, NEW o \in Op, NEW kind \in {"add", "remove", "clear"},
           NEW w \in Window \cup {NotWindow}, Ask(o, kind, w),
           kind = "add" => w \in Window /\ Room,
           kind = "remove" => w \in asked',
           asked \subseteq asked'
    PROVE  WInv'
  <1> DEFINE c == Asked(kind, w)
  <1>1. op' = [op EXCEPT ![o] = c] /\ o \notin Busy
    BY DEF Ask, Asked
  <1>2. /\ c \in Command /\ c.kind = kind /\ c.target = w /\ c.stage = "write"
    BY AskedCommand
  <1> HIDE DEF c
  <1>3. UNCHANGED <<table, windows, loaded, read>> /\ disturbed' = (disturbed \/ Busy # {} \/ loaded # "yes")
    BY DEF Ask
  <1>4. op \in [Op -> Command]
    BY DEF WInv, Shape
  <1>5. Shape'
    <2>1. op' \in [Op -> Command]
      BY <1>1, <1>2, <1>4
    <2>2. \A p \in Op : op'[p].kind = "add" => op'[p].target \in Window
      <3> SUFFICES ASSUME NEW p \in Op, op'[p].kind = "add"
                   PROVE  op'[p].target \in Window
        OBVIOUS
      <3>1. CASE p = o
        BY <1>1, <1>2, <1>4, <3>1
      <3>2. CASE p # o
        BY <1>1, <1>4, <3>2 DEF WInv, Shape
      <3> QED BY <3>1, <3>2
    <2>3. \A p \in Op : op'[p].stage = "list" => op'[p].kind # "clear"
      BY <1>1, <1>2, <1>4 DEF WInv, Shape
    <2>4. disturbed' \in BOOLEAN
      BY <1>3
    <2> QED BY <1>3, <2>1, <2>2, <2>3, <2>4 DEF WInv, Shape
  <1>6. RemovesAsked'
    BY <1>1, <1>2, <1>4 DEF WInv, RemovesAsked
  <1>7. Serial'
    <2> SUFFICES ASSUME ~disturbed'
                 PROVE  Serial'
      BY DEF Serial
    <2>1. ~disturbed /\ Busy = {} /\ loaded = "yes"
      BY <1>3
    <2>2. windows = table
      BY <2>1 DEF WInv, Serial
    <2>3. Busy' \subseteq {o} /\ op'[o] = c
      BY <1>1, <1>4, <2>1 DEF Busy
    <2>4. o \in Busy'
      BY <1>1, <1>2, <1>4 DEF Busy, None
    <2> QED BY <1>2, <1>3, <2>1, <2>2, <2>3, <2>4 DEF Serial, Room
  <1> QED BY <1>5, <1>6, <1>7 DEF WInv

\* So does the commit of the command's transaction.
LEMMA CommitWInv ==
    ASSUME WInv, NEW o \in Op, Commit(o)
    PROVE  WInv'
  <1> DEFINE after == IF op[o].kind = "clear" THEN "assign" ELSE "list"
             c == [op[o] EXCEPT !.stage = after]
  <1>1. op' = [op EXCEPT ![o] = c] /\ o \in Busy /\ op[o].stage = "write"
    BY DEF Commit
  <1>2. op \in [Op -> Command] /\ op[o] \in Command
    BY DEF WInv, Shape
  <1>3. /\ c \in Command /\ c.kind = op[o].kind /\ c.target = op[o].target
        /\ c.seen = op[o].seen /\ c.stage = after
    BY <1>2 DEF Command
  <1>4. /\ UNCHANGED <<windows, loaded, read, disturbed>>
        /\ table' = Write(op[o])
        /\ asked \subseteq asked'
    BY DEF Commit
  <1> HIDE DEF c
  <1>5. \A p \in Op : op'[p].kind = op[p].kind /\ op'[p].target = op[p].target
    BY <1>1, <1>2, <1>3
  <1>6. table' \in SUBSET Window
    <2>1. op[o].kind \in {"add", "remove", "clear"}
      BY <1>1, <1>2 DEF Busy, Command
    <2> QED BY <1>4, <2>1 DEF Write, WInv, Shape
  <1>7. Shape'
    <2>1. op' \in [Op -> Command]
      BY <1>1, <1>2, <1>3
    <2>2. \A p \in Op : op'[p].stage = "list" => op'[p].kind # "clear"
      BY <1>1, <1>2, <1>3 DEF WInv, Shape
    <2> QED BY <1>4, <1>5, <1>6, <2>1, <2>2 DEF WInv, Shape
  <1>8. RemovesAsked'
    BY <1>4, <1>5 DEF WInv, RemovesAsked
  <1>9. Serial'
    <2> SUFFICES ASSUME ~disturbed'
                 PROVE  Serial'
      BY DEF Serial
    <2>1. /\ ~disturbed /\ loaded = "yes"
          /\ \A p \in Busy : p = o
      BY <1>1, <1>4 DEF WInv, Serial
    <2>2. Busy' = Busy
      BY <1>5 DEF Busy
    <2>3. op'[o] = c
      BY <1>1, <1>2
    <2>4. op[o].kind = "clear" => Refresh(c) = table'
      BY <1>3, <1>4 DEF Refresh, Write
    <2> QED BY <1>1, <1>3, <1>4, <2>1, <2>2, <2>3, <2>4 DEF Serial
  <1> QED BY <1>7, <1>8, <1>9 DEF WInv

\* And the read of the table that follows.
LEMMA ListWInv ==
    ASSUME WInv, NEW o \in Op, List(o)
    PROVE  WInv'
  <1> DEFINE c == [op[o] EXCEPT !.stage = "assign", !.seen = table]
  <1>1. op' = [op EXCEPT ![o] = c] /\ o \in Busy /\ op[o].stage = "list"
    BY DEF List
  <1>2. op \in [Op -> Command] /\ op[o] \in Command /\ table \in SUBSET Window
    BY DEF WInv, Shape
  <1>3. /\ c \in Command /\ c.kind = op[o].kind /\ c.target = op[o].target
        /\ c.seen = table /\ c.stage = "assign"
    BY <1>2 DEF Command
  <1>4. UNCHANGED <<table, windows, loaded, read, disturbed, asked>>
    BY DEF List
  <1> HIDE DEF c
  <1>5. \A p \in Op : op'[p].kind = op[p].kind /\ op'[p].target = op[p].target
    BY <1>1, <1>2, <1>3
  <1>6. Shape'
    <2>1. op' \in [Op -> Command]
      BY <1>1, <1>2, <1>3
    <2>2. \A p \in Op : op'[p].stage = "list" => op'[p].kind # "clear"
      BY <1>1, <1>2, <1>3 DEF WInv, Shape
    <2> QED BY <1>4, <1>5, <2>1, <2>2 DEF WInv, Shape
  <1>7. RemovesAsked'
    BY <1>4, <1>5 DEF WInv, RemovesAsked
  <1>8. Serial'
    <2> SUFFICES ASSUME ~disturbed'
                 PROVE  Serial'
      BY DEF Serial
    <2>1. /\ ~disturbed /\ loaded = "yes"
          /\ \A p \in Busy : p = o
      BY <1>1, <1>4 DEF WInv, Serial
    <2>2. Busy' = Busy
      BY <1>5 DEF Busy
    <2>3. op'[o] = c
      BY <1>1, <1>2
    <2>4. Refresh(c) = table
      <3>1. CASE c.kind # "clear"
        BY <1>3, <3>1 DEF Refresh
      <3>2. CASE c.kind = "clear"
        BY <1>1, <1>3, <3>2 DEF WInv, Shape
      <3> QED BY <3>1, <3>2
    <2> QED BY <1>1, <1>3, <1>4, <2>1, <2>2, <2>3, <2>4 DEF Serial
  <1> QED BY <1>6, <1>7, <1>8 DEF WInv

\* A command that ends without touching the table, after bringing the list up
\* to date or failing.
LEMMA EndWInv ==
    ASSUME WInv, NEW o \in Op, o \in Busy, op' = [op EXCEPT ![o] = Free],
           UNCHANGED <<table, loaded, read, asked>>,
           windows' \in SUBSET Window, disturbed' \in BOOLEAN,
           ~disturbed' => ~disturbed /\ windows' = table
    PROVE  WInv'
  <1>1. op \in [Op -> Command]
    BY DEF WInv, Shape
  <1>2. \A p \in Op : op'[p] = op[p] \/ op'[p] = Free
    BY <1>1
  <1>3. Free.kind # "add" /\ Free.kind # "remove" /\ Free.stage # "list"
    BY DEF Free, None
  <1>4. Shape'
    BY <1>1, <1>2, <1>3, FreeCommand DEF WInv, Shape
  <1>5. RemovesAsked'
    BY <1>2, <1>3 DEF WInv, RemovesAsked
  <1>6. Serial'
    <2> SUFFICES ASSUME ~disturbed'
                 PROVE  Serial'
      BY DEF Serial
    <2>1. loaded = "yes" /\ \A p \in Busy : p = o
      BY DEF WInv, Serial
    <2>2. Busy' = {}
      BY <1>1, <2>1, FreeCommand DEF Busy
    <2> QED BY <2>1, <2>2 DEF Serial
  <1> QED BY <1>4, <1>5, <1>6 DEF WInv

\* Every step of the window commands preserves the invariant.
LEMMA StepWInv == WInv /\ [Next]_vars => WInv'
  <1> SUFFICES ASSUME WInv, [Next]_vars
               PROVE  WInv'
    OBVIOUS
  <1>1. CASE LoadRead
    <2>1. Shape' /\ RemovesAsked'
      BY <1>1 DEF LoadRead, WInv, Shape, RemovesAsked
    <2>2. Busy' = Busy
      BY <1>1 DEF LoadRead, Busy
    <2>3. Serial'
      BY <1>1, <2>2 DEF LoadRead, WInv, Serial
    <2> QED BY <2>1, <2>3 DEF WInv
  <1>2. CASE Load
    <2>1. Shape' /\ RemovesAsked'
      BY <1>2 DEF Load, WInv, Shape, RemovesAsked
    <2>2. Busy' = Busy
      BY <1>2 DEF Load, Busy
    <2>3. Serial'
      BY <1>2, <2>2 DEF Load, WInv, Serial
    <2> QED BY <2>1, <2>3 DEF WInv
  <1>3. CASE Crash
    <2>1. op' = [o \in Op |-> Free]
      BY <1>3 DEF Crash
    <2>2. Busy' = {}
      BY <2>1, FreeCommand DEF Busy
    <2>3. Free.kind # "add" /\ Free.kind # "remove" /\ Free.stage # "list"
      BY DEF Free, None
    <2>4. Shape' /\ RemovesAsked'
      BY <1>3, <2>1, <2>3, FreeCommand DEF Crash, WInv, Shape, RemovesAsked
    <2>5. Serial'
      BY <1>3, <2>2 DEF Crash, Serial
    <2> QED BY <2>4, <2>5 DEF WInv
  <1>4. ASSUME NEW o \in Op, NEW w \in Window, AskAdd(o, w)
        PROVE  WInv'
    BY <1>4, AskWInv DEF AskAdd
  <1>5. ASSUME NEW o \in Op, NEW w \in Window, AskRemove(o, w)
        PROVE  WInv'
    <2>1. Ask(o, "remove", w) /\ w \in asked' /\ asked \subseteq asked'
      BY <1>5 DEF AskRemove
    <2> QED BY <2>1, AskWInv
  <1>6. ASSUME NEW o \in Op, AskClear(o)
        PROVE  WInv'
    <2>1. Ask(o, "clear", NotWindow) /\ asked \subseteq asked'
      BY <1>6 DEF AskClear
    <2> QED BY <2>1, AskWInv
  <1>7. ASSUME NEW o \in Op, Commit(o)
        PROVE  WInv'
    BY <1>7, CommitWInv
  <1>8. ASSUME NEW o \in Op, List(o)
        PROVE  WInv'
    BY <1>8, ListWInv
  <1>9. ASSUME NEW o \in Op, Assign(o)
        PROVE  WInv'
    <2>1. op[o] \in Command
      BY DEF WInv, Shape
    <2>2. windows' \in SUBSET Window
      BY <1>9, <2>1 DEF Assign, Refresh, Command
    <2>3. ~disturbed => windows' = table
      BY <1>9 DEF Assign, WInv, Serial
    <2> QED BY <1>9, <2>2, <2>3, EndWInv DEF Assign, WInv, Shape
  <1>10. ASSUME NEW o \in Op, Fail(o)
         PROVE  WInv'
    BY <1>10, EndWInv DEF Fail, WInv, Shape
  <1>11. CASE UNCHANGED vars
    BY <1>11 DEF vars, WInv, Shape, RemovesAsked, Serial, Busy
  <1> QED BY <1>1, <1>2, <1>3, <1>4, <1>5, <1>6, <1>7, <1>8, <1>9, <1>10, <1>11 DEF Next

\* In every behaviour.
THEOREM WindowsInvariant == Spec => []WInv
  BY InitWInv, StepWInv, PTL DEF Spec

-----------------------------------------------------------------------------
\* Undisturbed and quiet, the list the owner is shown is the stored one.
THEOREM QuietAgrees == Spec => []AgreesWhenQuiet
  <1>1. WInv => AgreesWhenQuiet
    BY DEF WInv, Serial, AgreesWhenQuiet
  <1> QED BY <1>1, WindowsInvariant, PTL

\* Only what was asked for is removed, however many commands overlap.
THEOREM RemovedWereAsked == Spec => OnlyAskedIsRemoved
  <1>1. ASSUME WInv, Next
        PROVE  table \ table' \subseteq asked'
    <2>1. CASE \E o \in Op : Commit(o)
      <3>1. PICK o \in Op : Commit(o)
        BY <2>1
      <3>2. op[o].kind \in {"add", "remove", "clear"}
        BY <1>1, <3>1 DEF Commit, WInv, Shape, Command, Busy
      <3>3. CASE op[o].kind = "add"
        BY <3>1, <3>3 DEF Commit, Write
      <3>4. CASE op[o].kind = "remove"
        BY <1>1, <3>1, <3>4 DEF Commit, Write, WInv, RemovesAsked
      <3>5. CASE op[o].kind = "clear"
        BY <3>1, <3>5 DEF Commit, Write
      <3> QED BY <3>2, <3>3, <3>4, <3>5
    <2>2. CASE ~\E o \in Op : Commit(o)
      BY ZenonT(60), <1>1, <2>2 DEF Next, LoadRead, Load, Crash, AskAdd, AskRemove, AskClear,
                         Ask, List, Assign, Fail
    <2> QED BY <2>1, <2>2
  <1>2. WInv /\ [Next]_vars => [table \ table' \subseteq asked']_vars
    BY <1>1
  <1> QED BY <1>2, WindowsInvariant, PTL DEF Spec, OnlyAskedIsRemoved

\* Undisturbed, a command that enlarges the table keeps it within the cap.
THEOREM CapKept == Spec => CapWhenSerial
  <1>1. ASSUME WInv, Next, ~disturbed', ~(table' \subseteq table)
        PROVE  Cardinality(table') <= Cap
    <2>1. PICK o \in Op : Commit(o)
      BY <1>1 DEF Next, LoadRead, Load, Crash, AskAdd, AskRemove, AskClear,
                  Ask, List, Assign, Fail
    <2>2. o \in Busy /\ op[o].stage = "write" /\ table' = Write(op[o]) /\ ~disturbed
      BY <1>1, <2>1 DEF Commit
    <2>3. op[o].kind \in {"add", "remove", "clear"}
      BY <1>1, <2>2 DEF WInv, Shape, Command, Busy
    <2>4. op[o].kind = "add" /\ table' = table \cup {op[o].target}
      BY <1>1, <2>2, <2>3 DEF Write
    <2>5. Cardinality(table) < Cap
      BY <1>1, <2>2, <2>4 DEF WInv, Serial
    <2>6. IsFiniteSet(table) /\ Cardinality(table) \in Nat
      BY <1>1, WindowsAssumption, FS_Subset, FS_CardinalityType DEF WInv, Shape
    <2>7. Cardinality(table') = IF op[o].target \in table THEN Cardinality(table)
                                ELSE Cardinality(table) + 1
      BY <2>4, <2>6, FS_AddElement
    <2>8. ASSUME NEW n \in Nat, n < Cap
          PROVE  n <= Cap /\ n + 1 <= Cap
      BY <2>8, WindowsAssumption
    <2> QED BY <2>5, <2>6, <2>7, <2>8
  <1>2. WInv /\ [Next]_vars
           => [~disturbed' /\ ~(table' \subseteq table) => Cardinality(table') <= Cap]_vars
    BY <1>1
  <1> QED BY <1>2, WindowsInvariant, PTL DEF Spec, CapWhenSerial

-----------------------------------------------------------------------------
(* The proposals.                                                          *)

\* The kinds of value the invariant speaks of.
Types ==
    /\ pending \in [Place -> Proposal \cup {Nothing}]
    /\ \A x \in Place : Waiting(x) => pending[x].place = x
    /\ stage \in [Proposal -> {"new", "asking", "refused", "showing", "shown", "hidden"}]
    /\ confirming \in [Confirmation -> Proposal \cup {Nothing}]
    /\ effect \in [Confirmation -> BOOLEAN]
    /\ executed \in [Proposal -> Nat]
    /\ overlapped \subseteq Proposal /\ failed \subseteq Proposal
    /\ settled \subseteq Proposal /\ withdrawn \subseteq Proposal
    /\ crossed \subseteq Proposal

\* A proposal not yet made has left no trace.
Unmade == {p \in Proposal : stage[p] \in {"new", "asking", "refused"}}
Fresh ==
    \A p \in Unmade :
        /\ executed[p] = 0
        /\ ~Running(p)
        /\ pending[p.place] # p
        /\ p \notin withdrawn

\* What waits has not been withdrawn.
Current == \A x \in Place : Waiting(x) => pending[x] \notin withdrawn

\* Confirmed once at a time and never failed: one confirmation holds it, it has
\* no effect before that one takes effect, and none while it only waits.
Single(p) ==
    /\ \A c, d \in Confirmation : confirming[c] = p /\ confirming[d] = p => c = d
    /\ \A c \in Confirmation : confirming[c] = p /\ ~effect[c] => executed[p] = 0
    /\ pending[p.place] = p /\ ~Running(p) => executed[p] = 0
    /\ executed[p] <= 1
Singly == \A p \in Proposal \ (overlapped \cup failed) : Single(p)

\* What waits in the place of a running confirmation is what that one carries
\* out, or was made meanwhile.
Crossing ==
    \A c \in Confirmation, x \in Place :
        confirming[c] # Nothing /\ confirming[c].place = x /\ Waiting(x)
            => pending[x] = confirming[c] \/ pending[x] \in crossed

IInv == Types /\ Fresh /\ Current /\ Singly /\ Crossing /\ NoProposalVanishes

-----------------------------------------------------------------------------
\* No proposal is the empty place.
LEMMA ProposalIsSomething ==
    ASSUME ProposalsAssumption
    PROVE  \A p \in Proposal : p # Nothing /\ p.place \in Place
  BY DEF ProposalsAssumption, Nothing

\* The initial state satisfies the invariant.
LEMMA InitInv ==
    ASSUME ProposalsAssumption, ProposalsInit
    PROVE  IInv
  BY ProposalIsSomething
     DEF ProposalsInit, IInv, Types, Fresh, Unmade, Current, Singly, Single, Crossing,
         NoProposalVanishes, Waiting, Running

\* Making and showing proposals keeps it; only Propose touches more than stages.
LEMMA MakingInv ==
    ASSUME ProposalsAssumption, IInv, NEW p \in Proposal,
           AskAI(p) \/ Refuse(p) \/ Propose(p) \/ Show(p) \/ ShowFails(p)
    PROVE  IInv'
  <1> USE ProposalIsSomething
  <1>1. CASE AskAI(p) \/ Refuse(p) \/ Show(p) \/ ShowFails(p)
    <2>1. UNCHANGED <<pending, confirming, effect, executed, overlapped, failed,
                      settled, withdrawn, crossed>>
      BY <1>1 DEF AskAI, Refuse, Show, ShowFails, history
    <2>2. Types'
      BY <1>1, <2>1 DEF IInv, Types, Waiting, AskAI, Refuse, Show, ShowFails
    <2>3. Unmade' \subseteq Unmade
      BY <1>1 DEF IInv, Types, Unmade, AskAI, Refuse, Show, ShowFails
    <2>4. NoProposalVanishes'
      BY <1>1, <2>1 DEF IInv, Types, NoProposalVanishes, AskAI, Refuse, Show, ShowFails
    <2> QED
      BY <2>1, <2>2, <2>3, <2>4
         DEF IInv, Fresh, Current, Singly, Single, Crossing, Waiting, Running
  <1>2. CASE Propose(p)
    <2>1. p \in Unmade /\ p.place \in Place
      BY <1>2 DEF Propose, Unmade
    <2>2. Types'
      BY <1>2, <2>1 DEF IInv, Types, Waiting, Propose
    <2>3. Fresh'
      BY <1>2, <2>1 DEF IInv, Types, Fresh, Unmade, Running, Waiting, Propose
    <2>4. Current'
      BY <1>2, <2>1 DEF IInv, Types, Fresh, Current, Waiting, Propose
    <2>5. Singly'
      BY <1>2, <2>1 DEF IInv, Types, Fresh, Singly, Single, Running, Waiting, Propose
    <2>6. Crossing'
      BY <1>2, <2>1 DEF IInv, Types, Crossing, Waiting, Occupied, Propose
    <2>7. NoProposalVanishes'
      BY <1>2, <2>1 DEF IInv, Types, NoProposalVanishes, Waiting, Propose
    <2> QED BY <2>2, <2>3, <2>4, <2>5, <2>6, <2>7 DEF IInv
  <1> QED BY <1>1, <1>2

\* The owner's cancels and late confirmations keep it.
LEMMA WithdrawingInv ==
    ASSUME ProposalsAssumption, IInv, NEW x \in Place, Cancel(x) \/ Expire(x)
    PROVE  IInv'
  <1> USE ProposalIsSomething
  <1>1. /\ Waiting(x)
        /\ pending' = [pending EXCEPT ![x] = Nothing]
        /\ withdrawn' = withdrawn \cup {pending[x]}
        /\ UNCHANGED <<stage, confirming, effect, executed, overlapped, failed,
                       settled, crossed>>
    BY DEF Cancel, Expire
  <1>2. pending[x] \in Proposal /\ pending[x] \notin Unmade
    BY <1>1 DEF IInv, Types, Fresh, Waiting
  <1>3. Types'
    BY <1>1, <1>2 DEF IInv, Types, Waiting
  <1>4. Fresh'
    BY <1>1, <1>2 DEF IInv, Types, Fresh, Unmade, Running
  <1>5. Current'
    BY <1>1 DEF IInv, Types, Current, Waiting
  <1>6. Singly'
    BY <1>1 DEF IInv, Types, Singly, Single, Running
  <1>7. Crossing'
    BY <1>1 DEF IInv, Types, Crossing, Waiting
  <1>8. NoProposalVanishes'
    BY <1>1 DEF IInv, Types, NoProposalVanishes
  <1> QED BY <1>3, <1>4, <1>5, <1>6, <1>7, <1>8 DEF IInv

\* A confirmation that begins keeps it: it takes what waits.
LEMMA ConfirmInv ==
    ASSUME ProposalsAssumption, IInv, NEW c \in Confirmation, NEW x \in Place,
           Confirm(c, x)
    PROVE  IInv'
  <1> USE ProposalIsSomething DEF Confirm
  <1>1. pending[x] \in Proposal \ Unmade /\ pending[x].place = x
    BY DEF IInv, Types, Fresh, Waiting
  <1>2. Types'
    BY <1>1 DEF IInv, Types, Waiting
  <1>3. Fresh'
    BY <1>1 DEF IInv, Types, Fresh, Unmade, Running
  <1>4. Current'
    BY DEF IInv, Types, Current, Waiting
  <1>5. Singly'
    BY <1>1 DEF IInv, Types, Singly, Single, Running
  <1>6. Crossing'
    BY <1>1 DEF IInv, Types, Crossing, Waiting
  <1>7. NoProposalVanishes'
    BY DEF IInv, Types, NoProposalVanishes
  <1> QED BY <1>2, <1>3, <1>4, <1>5, <1>6, <1>7 DEF IInv

\* So do the effect of a confirmation and its end.
LEMMA RunningInv ==
    ASSUME ProposalsAssumption, IInv, NEW c \in Confirmation,
           Execute(c) \/ Return(c) \/ Raise(c)
    PROVE  IInv'
  <1> USE ProposalIsSomething
  <1> DEFINE p == confirming[c]
  <1>1. p \in Proposal /\ p \notin Unmade /\ p.place \in Place
    BY DEF IInv, Types, Fresh, Running, Execute, Return, Raise
  <1>2. CASE Execute(c)
    <2>1. Types'
      BY <1>1, <1>2 DEF IInv, Types, Waiting, Execute
    <2>2. Fresh' /\ Current'
      BY <1>1, <1>2 DEF IInv, Types, Fresh, Current, Unmade, Running, Waiting, Execute
    <2>3. Singly'
      BY <1>1, <1>2 DEF IInv, Types, Singly, Single, Running, Execute
    <2>4. Crossing' /\ NoProposalVanishes'
      BY <1>2 DEF IInv, Types, Crossing, NoProposalVanishes, Waiting, Execute
    <2> QED BY <2>1, <2>2, <2>3, <2>4 DEF IInv
  <1>3. CASE Return(c)
    <2>1. Types'
      BY <1>1, <1>3 DEF IInv, Types, Waiting, Popped, Return
    <2>2. Fresh' /\ Current'
      BY <1>1, <1>3 DEF IInv, Types, Fresh, Current, Unmade, Running, Waiting, Popped, Return
    <2>3. Singly'
      BY <1>1, <1>3 DEF IInv, Types, Singly, Single, Running, Popped, Return
    <2>4. Crossing'
      BY <1>1, <1>3 DEF IInv, Types, Crossing, Waiting, Popped, Return
    <2>5. NoProposalVanishes'
      BY <1>1, <1>3 DEF IInv, Types, Crossing, NoProposalVanishes, Waiting, Popped, Return
    <2> QED BY <2>1, <2>2, <2>3, <2>4, <2>5 DEF IInv
  <1>4. CASE Raise(c)
    <2>1. Types'
      BY <1>1, <1>4 DEF IInv, Types, Waiting, Raise
    <2>2. Fresh' /\ Current'
      BY <1>1, <1>4 DEF IInv, Types, Fresh, Current, Unmade, Running, Waiting, Raise
    <2>3. Singly'
      BY <1>1, <1>4 DEF IInv, Types, Singly, Single, Running, Raise
    <2>4. Crossing' /\ NoProposalVanishes'
      BY <1>1, <1>4 DEF IInv, Types, Crossing, NoProposalVanishes, Waiting, Raise
    <2> QED BY <2>1, <2>2, <2>3, <2>4 DEF IInv
  <1> QED BY <1>2, <1>3, <1>4

\* A crash empties both tables and keeps it.
LEMMA CrashInv ==
    ASSUME ProposalsAssumption, IInv, ProposalsCrash
    PROVE  IInv'
  <1> USE ProposalIsSomething DEF ProposalsCrash
  <1>1. Unmade' \subseteq Unmade
    BY DEF IInv, Types, Unmade
  <1>2. \A p \in Unmade : \A x \in Place : pending[x] # p
    BY DEF IInv, Types, Fresh, Unmade, Waiting
  <1>3. Types'
    BY DEF IInv, Types, Waiting
  <1>4. Fresh'
    <2> SUFFICES ASSUME NEW p \in Unmade'
                 PROVE  /\ executed[p] = 0
                        /\ p # Nothing /\ p.place \in Place
                        /\ p \notin withdrawn'
      BY DEF Fresh, Running
    <2>1. p \in Unmade /\ p \in Proposal
      BY <1>1 DEF Unmade
    <2> QED BY <2>1, <1>2 DEF IInv, Fresh
  <1>5. Current' /\ Crossing'
    BY DEF Current, Crossing, Waiting
  <1>6. Singly'
    BY DEF IInv, Types, Singly, Single, Running
  <1>7. NoProposalVanishes'
    BY DEF IInv, Types, NoProposalVanishes, Waiting
  <1> QED BY <1>3, <1>4, <1>5, <1>6, <1>7 DEF IInv

\* Every step keeps the invariant.
LEMMA StepInv ==
    ASSUME ProposalsAssumption, IInv, [ProposalsNext]_proposalVars
    PROVE  IInv'
  <1>1. CASE Tick \/ UNCHANGED proposalVars
    BY <1>1 DEF Tick, proposalVars, history, IInv, Types, Fresh, Unmade, Current, Singly,
                Single, Crossing, NoProposalVanishes, Waiting, Running
  <1>2. CASE ProposalsNext /\ ~Tick
    BY <1>2, MakingInv, WithdrawingInv, ConfirmInv, RunningInv, CrashInv DEF ProposalsNext
  <1> QED BY <1>1, <1>2

-----------------------------------------------------------------------------
\* The invariant holds in every reachable state.
THEOREM InvariantHolds ==
    ASSUME ProposalsAssumption
    PROVE  ProposalsSpec => []IInv
  <1>1. ProposalsInit => IInv
    BY InitInv
  <1>2. IInv /\ [ProposalsNext]_proposalVars => IInv'
    BY StepInv
  <1> QED BY <1>1, <1>2, PTL DEF ProposalsSpec

\* A proposal confirmed once at a time, whose execution never raised, takes
\* effect at most once (command_router.py:574-593, smart_reply.py:110-136).
THEOREM AtMostOnce ==
    ASSUME ProposalsAssumption
    PROVE  ProposalsSpec => []OnceUnlessOverlapped
  <1>1. IInv => OnceUnlessOverlapped
    BY DEF IInv, Singly, Single, OnceUnlessOverlapped
  <1> QED BY <1>1, InvariantHolds, PTL

\* No proposal vanishes but one made while another was being carried out.
THEOREM NoneVanishes ==
    ASSUME ProposalsAssumption
    PROVE  ProposalsSpec => []NoProposalVanishes
  <1>1. IInv => NoProposalVanishes
    BY DEF IInv
  <1> QED BY <1>1, InvariantHolds, PTL

\* A confirmation only begins on a proposal that has not been withdrawn.
THEOREM WithdrawnStayOut ==
    ASSUME ProposalsAssumption
    PROVE  ProposalsSpec => WithdrawnStaysOut
  <1> DEFINE Stay == \A c \in Confirmation :
                 confirming'[c] \in withdrawn => confirming'[c] = confirming[c]
  <1>1. IInv /\ [ProposalsNext]_proposalVars => [Stay]_proposalVars
    <2> SUFFICES ASSUME IInv, ProposalsNext
                 PROVE  Stay
      BY DEF proposalVars
    <2>1. Nothing \notin withdrawn
      BY ProposalIsSomething DEF IInv, Types
    <2>2. ASSUME NEW c \in Confirmation, NEW x \in Place, Confirm(c, x)
          PROVE  Stay
      BY <2>2 DEF IInv, Types, Current, Confirm
    <2>3. ASSUME NEW c \in Confirmation, Return(c) \/ Raise(c)
          PROVE  Stay
      BY <2>1, <2>3 DEF IInv, Types, Return, Raise
    <2>4. CASE ProposalsCrash
      BY <2>1, <2>4 DEF ProposalsCrash
    <2>5. CASE UNCHANGED confirming
      BY <2>5
    <2> QED
      BY <2>2, <2>3, <2>4, <2>5
         DEF ProposalsNext, AskAI, Refuse, Propose, Show, ShowFails, Cancel, Expire, Execute, Tick
  <1> QED BY <1>1, InvariantHolds, PTL DEF ProposalsSpec, WithdrawnStaysOut

-----------------------------------------------------------------------------
(* The kinds of value, of the two together.                                *)

\* What an add is about to write has had its number given out.
Numbered == \A o \in Op : op[o].kind = "add" => op[o].target \in used

WindowTypes == WInv /\ TypeOK /\ Numbered

LEMMA InitWindowTypes == Init => WindowTypes
  <1> SUFFICES ASSUME Init
               PROVE  WindowTypes
    OBVIOUS
  <1>1. WInv
    BY InitWInv
  <1>2. \A o \in Op : op[o] = Free
    BY DEF Init
  <1>3. Free.kind = None /\ Free.target = NotWindow
    BY DEF Free
  <1>4. op \in [Op -> Command]
    BY <1>1 DEF WInv, Shape
  <1>5. TypeOK
    <2>1. \A o \in Op : op[o].kind \in {"add", "remove"} <=> op[o].target \in Window
      BY <1>2, <1>3, NotWindowIsNone DEF None
    <2>2. faults \in 0..MaxFaults
      BY WindowsAssumption DEF Init
    <2>3. table \subseteq used /\ used \in SUBSET Window /\ asked \in SUBSET Window
      BY DEF Init
    <2> QED BY <1>1, <2>1, <2>2, <2>3 DEF WInv, Shape, TypeOK
  <1>6. Numbered
    BY <1>2, <1>3 DEF Numbered, None
  <1> QED BY <1>1, <1>5, <1>6 DEF WindowTypes

\* A command takes its place, or gives it up.
LEMMA PlacedTypes ==
    ASSUME WindowTypes, WInv', NEW o \in Op, NEW c, op' = [op EXCEPT ![o] = c],
           (c.kind \in {"add", "remove"}) <=> (c.target \in Window),
           c.kind = "add" => c.target \in used',
           used \subseteq used', used' \in SUBSET Window, table' \subseteq used',
           asked' \in SUBSET Window, faults' \in 0..MaxFaults
    PROVE  WindowTypes'
  <1>1. op \in [Op -> Command]
    BY DEF WindowTypes, TypeOK
  <1>2. Shape'
    BY DEF WInv
  <1>3. \A p \in Op : op'[p].kind \in {"add", "remove"} <=> op'[p].target \in Window
    BY <1>1 DEF WindowTypes, TypeOK
  <1>4. \A p \in Op : op'[p].kind = "add" => op'[p].target \in used'
    BY <1>1 DEF WindowTypes, Numbered
  <1>5. TypeOK'
    BY <1>2, <1>3 DEF Shape, TypeOK
  <1> QED BY <1>4, <1>5 DEF WindowTypes, Numbered

LEMMA StepWindowTypes == WindowTypes /\ [Next]_vars => WindowTypes'
  <1> SUFFICES ASSUME WindowTypes, [Next]_vars
               PROVE  WindowTypes'
    OBVIOUS
  <1>1. WInv'
    BY StepWInv DEF WindowTypes
  <1>2. /\ op \in [Op -> Command] /\ used \in SUBSET Window /\ asked \in SUBSET Window
        /\ windows \in SUBSET Window /\ table \in SUBSET Window /\ table \subseteq used
        /\ faults \in 0..MaxFaults
    BY DEF WindowTypes, TypeOK
  <1>3. Fault => faults' \in 0..MaxFaults
    BY <1>2, WindowsAssumption DEF Fault
  <1>4. Free.kind = None /\ Free.target = NotWindow
    BY DEF Free
  <1>5. CASE LoadRead \/ Load
    BY <1>1, <1>5 DEF LoadRead, Load, WindowTypes, WInv, Shape, TypeOK, Numbered
  <1>6. CASE Crash
    <2>1. \A p \in Op : op'[p].kind = None /\ op'[p].target = NotWindow
      BY <1>4, <1>6 DEF Crash
    <2>2. \A p \in Op : op'[p].kind \in {"add", "remove"} <=> op'[p].target \in Window
      BY <2>1, NotWindowIsNone DEF None
    <2>3. UNCHANGED <<table, used, asked>> /\ faults' \in 0..MaxFaults
      BY <1>3, <1>6 DEF Crash
    <2>4. TypeOK'
      BY <1>1, <1>2, <2>2, <2>3 DEF WInv, Shape, TypeOK
    <2>5. Numbered'
      BY <2>1 DEF Numbered, None
    <2> QED BY <1>1, <2>4, <2>5 DEF WindowTypes
  <1>7. ASSUME NEW o \in Op, NEW w \in Window, AskAdd(o, w)
        PROVE  WindowTypes'
    <2>1. /\ op' = [op EXCEPT ![o] = Asked("add", w)]
          /\ used' = used \cup {w} /\ UNCHANGED <<table, faults, asked>>
      BY <1>7 DEF AskAdd, Ask, Asked
    <2>2. Asked("add", w).kind = "add" /\ Asked("add", w).target = w
      BY AskedCommand
    <2> QED BY <1>1, <1>2, <2>1, <2>2, PlacedTypes
  <1>8. ASSUME NEW o \in Op, NEW w \in Window, AskRemove(o, w)
        PROVE  WindowTypes'
    <2>1. /\ op' = [op EXCEPT ![o] = Asked("remove", w)]
          /\ w \in Window /\ asked' = asked \cup {w} /\ UNCHANGED <<table, faults, used>>
      BY <1>8 DEF AskRemove, Ask, Asked
    <2>2. Asked("remove", w).kind = "remove" /\ Asked("remove", w).target = w
      BY AskedCommand
    <2> QED BY <1>1, <1>2, <2>1, <2>2, PlacedTypes
  <1>9. ASSUME NEW o \in Op, AskClear(o)
        PROVE  WindowTypes'
    <2>1. /\ op' = [op EXCEPT ![o] = Asked("clear", NotWindow)]
          /\ UNCHANGED <<table, faults, used, asked>>
      BY <1>9 DEF AskClear, Ask, Asked
    <2>2. Asked("clear", NotWindow).kind = "clear" /\ Asked("clear", NotWindow).target = NotWindow
      BY AskedCommand
    <2> QED BY <1>1, <1>2, <2>1, <2>2, NotWindowIsNone, PlacedTypes
  <1>10. ASSUME NEW o \in Op, Commit(o)
         PROVE  WindowTypes'
    <2> DEFINE c == [op[o] EXCEPT !.stage = IF op[o].kind = "clear" THEN "assign" ELSE "list"]
    <2>1. op' = [op EXCEPT ![o] = c] /\ c.kind = op[o].kind /\ c.target = op[o].target
      BY <1>2, <1>10 DEF Commit, Command
    <2>2. op[o].kind \in {"add", "remove", "clear"} /\ table' = Write(op[o])
      BY <1>2, <1>10 DEF Commit, Busy, Command
    <2>3. table' \subseteq used
      BY <1>2, <2>2 DEF Write, WindowTypes, Numbered
    <2>4. asked' \in SUBSET Window /\ UNCHANGED <<used, faults>>
      BY <1>2, <1>10 DEF Commit
    <2>5. /\ (c.kind \in {"add", "remove"}) <=> (c.target \in Window)
          /\ c.kind = "add" => c.target \in used'
      BY <2>1, <2>4 DEF WindowTypes, TypeOK, Numbered
    <2> HIDE DEF c
    <2> QED BY <1>1, <1>2, <2>1, <2>3, <2>4, <2>5, PlacedTypes
  <1>11. ASSUME NEW o \in Op, List(o)
         PROVE  WindowTypes'
    <2> DEFINE c == [op[o] EXCEPT !.stage = "assign", !.seen = table]
    <2>1. op' = [op EXCEPT ![o] = c] /\ c.kind = op[o].kind /\ c.target = op[o].target
      BY <1>2, <1>11 DEF List, Command
    <2>2. UNCHANGED <<table, used, asked, faults>>
      BY <1>11 DEF List
    <2>3. /\ (c.kind \in {"add", "remove"}) <=> (c.target \in Window)
          /\ c.kind = "add" => c.target \in used'
      BY <2>1, <2>2 DEF WindowTypes, TypeOK, Numbered
    <2> HIDE DEF c
    <2> QED BY <1>1, <1>2, <2>1, <2>2, <2>3, PlacedTypes
  <1>12. ASSUME NEW o \in Op, Assign(o) \/ Fail(o)
         PROVE  WindowTypes'
    <2>1. op' = [op EXCEPT ![o] = Free] /\ UNCHANGED <<table, used, asked>>
      BY <1>12 DEF Assign, Fail
    <2>2. faults' \in 0..MaxFaults
      BY <1>2, <1>3, <1>12 DEF Assign, Fail
    <2> QED BY <1>1, <1>2, <1>4, <2>1, <2>2, NotWindowIsNone, PlacedTypes DEF None
  <1>13. CASE UNCHANGED vars
    BY <1>13 DEF vars, WindowTypes, WInv, Shape, RemovesAsked, Serial, Busy, TypeOK, Numbered
  <1> QED BY <1>5, <1>6, <1>7, <1>8, <1>9, <1>10, <1>11, <1>12, <1>13 DEF Next

\* The proposals: what IInv does not say of the ages and the mishaps.
ProposalKinds == IInv /\ age \in [Place -> Nat] /\ mishaps \in 0..MaxMishaps

LEMMA InitProposalKinds == ASSUME ProposalsAssumption, ProposalsInit  PROVE ProposalKinds
  <1>1. IInv
    BY InitInv
  <1> QED BY <1>1 DEF ProposalsInit, ProposalsAssumption, ProposalKinds

LEMMA StepProposalKinds ==
    ASSUME ProposalsAssumption, ProposalKinds, [ProposalsNext]_proposalVars
    PROVE  ProposalKinds'
  <1>1. IInv'
    BY StepInv DEF ProposalKinds
  <1>2. Mishap => mishaps' \in 0..MaxMishaps
    BY DEF Mishap, ProposalKinds, ProposalsAssumption
  <1>3. mishaps' \in 0..MaxMishaps
    BY <1>2 DEF ProposalKinds, ProposalsNext, AskAI, Refuse, Propose, Show, ShowFails, Cancel,
                Expire, Confirm, Execute, Return, Raise, Tick, ProposalsCrash, proposalVars
  <1>4. age' \in [Place -> Nat]
    <2>1. CASE Tick
      BY <2>1 DEF ProposalKinds, Tick
    <2>2. ASSUME NEW p \in Proposal, Propose(p)
          PROVE  age' \in [Place -> Nat]
      BY <2>2 DEF ProposalKinds, Propose
    <2>3. CASE UNCHANGED age
      BY <2>3 DEF ProposalKinds
    <2> QED BY <2>1, <2>2, <2>3 DEF ProposalsNext, AskAI, Refuse, Show, ShowFails, Cancel, Expire,
               Confirm, Execute, Return, Raise, ProposalsCrash, proposalVars
  <1> QED BY <1>1, <1>3, <1>4 DEF ProposalKinds

PartsInv ==
    /\ part = "windows" => WindowTypes
    /\ part = "proposals" => ProposalKinds

\* Whichever component runs, every variable of it keeps its kind of value: a
\* stored window has an id that was given out, and a proposal waits in its own
\* place.
THEOREM PartsKeepTypes == PartsSpec => []TypesOK
  <1>1. PartsInit => PartsInv
    BY InitWindowTypes, InitProposalKinds, PartsAssumption DEF PartsInit, PartsInv
  <1>2. PartsInv /\ [PartsNext]_<<part, vars, proposalVars>> => PartsInv'
    <2> SUFFICES ASSUME PartsInv, [PartsNext]_<<part, vars, proposalVars>>
                 PROVE  PartsInv'
      OBVIOUS
    <2>1. CASE WindowsTurn
      <3>1. part = "windows" /\ part' = part /\ Next
        BY <2>1 DEF WindowsTurn, InWindows, Next
      <3>2. WindowTypes'
        BY <3>1, StepWindowTypes DEF PartsInv
      <3> QED BY <3>1, <3>2 DEF PartsInv
    <2>2. CASE RouterTurn
      <3>1. part = "proposals" /\ part' = part /\ ProposalsNext
        BY <2>2 DEF RouterTurn, InProposals, ProposalsNext
      <3>2. ProposalKinds'
        BY <3>1, StepProposalKinds, PartsAssumption DEF PartsInv
      <3> QED BY <3>1, <3>2 DEF PartsInv
    <2>3. CASE UNCHANGED <<part, vars, proposalVars>>
      BY <2>3, StepWindowTypes, StepProposalKinds, PartsAssumption DEF PartsInv
    <2> QED BY <2>1, <2>2, <2>3 DEF PartsNext
  <1>3. PartsInv => TypesOK
    BY DEF PartsInv, TypesOK, WindowTypes, ProposalKinds, IInv, Types, ProposalsTypeOK
  <1> QED BY <1>1, <1>2, <1>3, PTL DEF PartsSpec
================================================================================
