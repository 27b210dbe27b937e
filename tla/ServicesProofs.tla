---------------------------- MODULE ServicesProofs ----------------------------
(***************************************************************************)
(* What holds of three services for every value of the constants.          *)
(*                                                                         *)
(* Settings: a loaded store whose last saves met neither each other nor    *)
(* the load nor a fault holds in memory what is stored, after any restart  *)
(* too; and a restore brings back what its backup holds.  Statistics:      *)
(* totals are never more than the entries stored beside them add up to.    *)
(* The clock: the profile keeps the name the owner gave last.              *)
(***************************************************************************)
EXTENDS MCServices, OutgoingProofs, DigestProofs, SequenceTheorems, FiniteSetTheorems,
        WellFoundedInduction, TLAPS

\* The owner's commands, each by a task of its own.
Command(o) ==
    \/ \E v \in BOOLEAN :
         \/ \E n \in PostRow : PostSet(o, n, v)
         \/ \E n \in DigestRow : DigestSet(o, n, v)
         \/ \E n \in FontRow : FontSet(o, n, v)
         \/ \E n \in ClockRow \ {"base"} : ClockSet(o, n, v)
         \/ \E n \in Listed \cup Greeted : GuardSet(o, n, v)
         \/ SetToggle(o, v)
         \/ \E s \in {"post", "digest", "font"} : CentreSet(o, s, v)
    \/ \E s \in {"post", "digest"} :
         \/ \E n \in Listed : AddChat(o, s, n) \/ RemoveChat(o, s, n)
         \/ ClearChats(o, s)

\* A backup may hold any cells, those the owner uses among them; a group whose
\* welcome it has on is one that it names.
IsFile(snap) ==
    /\ snap.named \subseteq Greeted
    /\ \A n \in Greeted : <<"guard", n>> \in snap.on => n \in snap.named

SettingsNext ==
    \/ \E o \in Save :
         \/ Command(o) \/ ClockSave(o)
         \/ \E snap \in [on : SUBSET (Cell \cup scope), named : SUBSET Greeted] :
              IsFile(snap) /\ Restore(o, snap)
         \/ RestoreNext(o) \/ ReadRow(o) \/ CommitSave(o) \/ SaveFails(o)
    \/ \E v \in BOOLEAN : ClockBase(v)
    \/ LoadRows \/ LoadItems \/ LoadAssign \/ SettingsCrash

settingVars == <<settingsVars, envVars>>

SettingsSpec == EnvInit /\ SettingsInit /\ [][SettingsNext]_settingVars

-----------------------------------------------------------------------------
InUse(s) == scope \cap Cells(s) # {}

\* The changes a task may have before it: of one store in use, and what goes to
\* memory is saved.
Values  == UNION {[D -> BOOLEAN] : D \in SUBSET Cell}
Changes == {c \in [store : Store, set : Values, saves : SUBSET Cell] :
              DOMAIN c.set \subseteq c.saves /\ c.saves \subseteq Cells(c.store)}
Usable  == {c \in Changes : InUse(c.store)}

\* A task is idle, or works on a store in use.
IsTask(x) ==
    /\ x = [at |-> x.at, store |-> x.store, todo |-> x.todo, tx |-> x.tx, seen |-> x.seen]
    /\ x.at \in {"idle", "begun", "read", "next"}
    /\ x.at # "idle" => /\ x.store \in Store /\ InUse(x.store)
                        /\ x.todo \in Seq(Usable)
                        /\ DOMAIN x.tx \subseteq Cells(x.store)
    /\ x.at = "idle" => x.todo = <<>>
    /\ x.at = "next" => x.todo # <<>>

\* The stores still to load are in use, and what was read is of the first.
IsLoad ==
    /\ load = [left |-> load.left, seen |-> load.seen]
    /\ load.left \subseteq {s \in Store : InUse(s)}
    /\ DOMAIN load.seen # {} => \E s \in Store : First(s) /\ DOMAIN load.seen \subseteq Cells(s)

CellKinds ==
    /\ saver = [o \in Save |-> saver[o]]
    /\ \A o \in Save : IsTask(saver[o])
    /\ IsLoad

\* A store that is not in use is as it was installed.
Untouched ==
    \A s \in Store : ~InUse(s) => \A c \in Cells(s) : mem[c] = Default[c] /\ table[c] = Default[c]

\* A cell on its way from memory to the table: the save under way will write
\* what memory holds, and what it does not write is stored already.
OnItsWay(x, c) ==
    /\ x.at # "next" /\ c \in DOMAIN x.tx => x.tx[c] = mem[c]
    /\ x.at = "next" \/ c \notin DOMAIN x.tx => mem[c] = table[c]
    /\ x.at = "read" /\ c \in DOMAIN x.tx => x.seen[c] = table[c]

\* The base name of the clock goes to memory without a save.
Firm(s) == Cells(s) \ {Base}

Alone(s)  == \A o, p \in Save : Busy(o, s) /\ Busy(p, s) => o = p
NoneSaving(s) == \A o \in Save : ~Busy(o, s)

ReadWell(s) == Loading(s) => NoneSaving(s) /\ \A c \in DOMAIN load.seen : load.seen[c] = table[c]
CellSettled(s)  == Loaded(s) /\ NoneSaving(s) => \A c \in Firm(s) : mem[c] = table[c]
Moving(s)   == Loaded(s) => \A o \in Save : Busy(o, s) => \A c \in Firm(s) : OnItsWay(saver[o], c)

Undisturbed(s) == Alone(s) /\ ReadWell(s) /\ CellSettled(s) /\ Moving(s)

SInv == CellKinds /\ Untouched /\ \A s \in Store \ disturbed : InUse(s) => Undisturbed(s)

-----------------------------------------------------------------------------
\* Cells of two stores are different, and the stores have an order.
LEMMA CellsApart ==
    ASSUME NEW s \in Store, NEW t \in Store, NEW c \in Cells(s), c \in Cells(t)
    PROVE  s = t
  <1>1. c[1] = s
    BY DEF Cells, Rows, Items
  <1>2. c[1] = t
    BY DEF Cells, Rows, Items
  <1> QED BY <1>1, <1>2

LEMMA CellsAreCells ==
    ASSUME NEW s \in Store
    PROVE  /\ Cells(s) \subseteq Cell /\ Rows(s) \subseteq Cells(s) /\ Items(s) \subseteq Cells(s)
           /\ Firm(s) \subseteq Cells(s)
  BY DEF Cell, Cells, Firm

LEMMA OneFirst ==
    ASSUME IsLoad, NEW s \in Store, NEW t \in Store, First(s), First(t)
    PROVE  s = t
  <1>1. LoadOrder[s] <= LoadOrder[t] /\ LoadOrder[t] <= LoadOrder[s]
    BY DEF First
  <1>2. LoadOrder \in [Store -> 1..6]
    BY DEF LoadOrder, Store
  <1>3. LoadOrder[s] = LoadOrder[t]
    BY <1>1, <1>2
  <1> QED BY <1>3 DEF LoadOrder, Store

\* A store in use is of the ones with cells.
LEMMA UsedHasCells ==
    ASSUME NEW s \in Store, InUse(s)
    PROVE  Cells(s) # {}
  BY DEF InUse

\* What every command changes is saved, and is of one store.
LEMMA RowChanges ==
    ASSUME NEW s \in Store, NEW n \in Row[s], NEW v \in BOOLEAN
    PROVE  RowChange(s, n, v) \in Changes
  <1>1. <<s, n>> \in Rows(s) /\ Rows(s) \subseteq Cells(s) /\ Cells(s) \subseteq Cell
    BY CellsAreCells DEF Rows
  <1>2. [c \in {<<s, n>>} |-> v] \in [{<<s, n>>} -> BOOLEAN]
    OBVIOUS
  <1>3. [c \in {<<s, n>>} |-> v] \in Values
    BY <1>1, <1>2 DEF Values
  <1> QED BY <1>1, <1>3 DEF RowChange, Change, Changes

LEMMA ItemChanges ==
    ASSUME NEW s \in Store, NEW n \in Item[s], NEW v \in BOOLEAN
    PROVE  ItemChange(s, n, v) \in Changes
  <1>1. <<s, n>> \in Items(s) /\ Items(s) \subseteq Cells(s) /\ Cells(s) \subseteq Cell
    BY CellsAreCells DEF Items
  <1>2. [c \in {<<s, n>>} |-> v] \in [{<<s, n>>} -> BOOLEAN]
    OBVIOUS
  <1>3. [c \in {<<s, n>>} |-> v] \in Values
    BY <1>1, <1>2 DEF Values
  <1> QED BY <1>1, <1>3 DEF ItemChange, Change, Changes

LEMMA ClearingChanges ==
    ASSUME NEW s \in Store
    PROVE  Clearing(s) \in Changes
  <1>1. Items(s) \subseteq Cells(s) /\ Cells(s) \subseteq Cell
    BY CellsAreCells
  <1>2. [c \in Items(s) |-> FALSE] \in [Items(s) -> BOOLEAN]
    OBVIOUS
  <1>3. [c \in Items(s) |-> FALSE] \in Values
    BY <1>1, <1>2 DEF Values
  <1> QED BY <1>1, <1>3 DEF Clearing, Change, Changes

LEMMA RestoredChanges ==
    ASSUME NEW s \in Store, NEW snap
    PROVE  Restored(s, snap) \in Changes
  <1>1. Rows(s) \subseteq Cells(s) /\ Cells(s) \subseteq Cell
    BY CellsAreCells
  <1> DEFINE D == Rows(s) \ ({Base} \ snap.on)
  <1>2. [c \in D |-> c \in snap.on] \in [D -> BOOLEAN]
    OBVIOUS
  <1>3. [c \in D |-> c \in snap.on] \in Values
    BY <1>1, <1>2 DEF Values
  <1> QED BY <1>1, <1>3 DEF Restored, Change, Changes

\* A command is the order of one change of a store in use.
LEMMA CommandIsOrder ==
    ASSUME NEW o \in Save, Command(o)
    PROVE  \E c \in Usable : Order(o, c)
  <1>1. \E c \in Changes : Order(o, c)
    <2>1. CASE \E v \in BOOLEAN, n \in PostRow : PostSet(o, n, v)
      <3>1. PICK v \in BOOLEAN, n \in PostRow : PostSet(o, n, v)
        BY <2>1
      <3> QED BY <3>1, RowChanges DEF PostSet, Store, Row
    <2>2. CASE \E v \in BOOLEAN, n \in DigestRow : DigestSet(o, n, v)
      BY <2>2, RowChanges DEF DigestSet, Store, Row
    <2>3. CASE \E v \in BOOLEAN, n \in FontRow : FontSet(o, n, v)
      BY <2>3, RowChanges DEF FontSet, Store, Row
    <2>4. CASE \E v \in BOOLEAN, n \in ClockRow \ {"base"} : ClockSet(o, n, v)
      BY <2>4, RowChanges DEF ClockSet, Store, Row
    <2>5. CASE \E v \in BOOLEAN, n \in Listed \cup Greeted : GuardSet(o, n, v)
      BY <2>5, ItemChanges DEF GuardSet, Store, Item
    <2>6. CASE \E v \in BOOLEAN : SetToggle(o, v)
      BY <2>6, ItemChanges DEF SetToggle, Store, Item
    <2>7. CASE \E v \in BOOLEAN, s \in {"post", "digest", "font"} : CentreSet(o, s, v)
      <3>1. \A s \in {"post", "digest", "font"} : s \in Store /\ "on" \in Row[s]
        BY DEF Store, Row, PostRow, DigestRow, FontRow
      <3> QED BY <2>7, <3>1, RowChanges DEF CentreSet
    <2> DEFINE Lists == {"post", "digest"}
    <2>8. \A s \in Lists : s \in Store /\ Item[s] = Listed
      BY DEF Store, Item
    <2>9. CASE \E s \in Lists, n \in Listed : AddChat(o, s, n) \/ RemoveChat(o, s, n)
      BY <2>8, <2>9, ItemChanges DEF AddChat, RemoveChat
    <2>10. CASE \E s \in Lists : ClearChats(o, s)
      BY <2>8, <2>10, ClearingChanges DEF ClearChats
    <2> QED BY <2>1, <2>2, <2>3, <2>4, <2>5, <2>6, <2>7, <2>9, <2>10 DEF Command
  <1>2. PICK c \in Changes : Order(o, c)
    BY <1>1
  <1>3. DOMAIN c.set \subseteq Cells(c.store) /\ DOMAIN c.set \cap scope # {}
    BY <1>2 DEF Changes, Order
  <1>4. InUse(c.store)
    BY <1>3 DEF InUse
  <1> QED BY <1>2, <1>4 DEF Usable

\* A finite set listed without repetition is a sequence of its elements.
LEMMA ListedOnce ==
    ASSUME NEW S, IsFiniteSet(S)
    PROVE  /\ SetToSeq(S) \in Seq(S)
           /\ \A x \in S : \E i \in DOMAIN SetToSeq(S) : SetToSeq(S)[i] = x
  <1> DEFINE n == Cardinality(S)
  <1>1. ExistsBijection(1..n, S) /\ n \in Nat
    BY FS_CardinalityType
  <1>2. \E f \in [1..n -> S] : IsInjective(f)
    BY <1>1 DEF ExistsBijection, Bijection, Injection, Surjection, IsInjective
  <1>3. SetToSeq(S) \in [1..n -> S] /\ IsInjective(SetToSeq(S))
    BY <1>2 DEF SetToSeq
  <1>4. SetToSeq(S) \in Seq(S)
    BY <1>1, <1>3, SeqDef
  <1> DEFINE f == SetToSeq(S)
             T == {f[i] : i \in 1..n}
  <1>6. IsFiniteSet(1..n) /\ Cardinality(1..n) = n
    BY <1>1, FS_Interval
  <1>7. f \in Bijection(1..n, T) /\ T \subseteq S
    BY <1>3 DEF Bijection, Injection, Surjection, IsInjective
  <1>8. ExistsBijection(1..n, T)
    BY <1>7 DEF ExistsBijection
  <1>9. Cardinality(T) = n
    BY <1>6, <1>8, FS_Bijection
  <1>10. T = S
    BY <1>7, <1>9, FS_Subset
  <1>11. DOMAIN f = 1..n
    BY <1>3
  <1> QED BY <1>4, <1>10, <1>11

\* One cell turned on.
TurnOn(c) == ItemChange(c[1], c[2], TRUE)

\* The steps of a restore are changes of stores in use.
LEMMA AddingUsable ==
    ASSUME SettingsAssumption, NEW s \in Store, s = "post" \/ s = "guard", InUse(s),
           NEW C \in SUBSET ({s} \X Listed)
    PROVE  /\ Adding(C) \in Seq(Usable)
           /\ \A i \in DOMAIN Adding(C) : \E c \in C : Adding(C)[i] = TurnOn(c)
           /\ \A c \in C : \E i \in DOMAIN Adding(C) : Adding(C)[i] = TurnOn(c)
  <1> DEFINE q == SetToSeq(C)
  <1>1. s \in Store /\ Listed \subseteq Item[s]
    BY DEF Store, Item
  <1>2. \A c \in C : \E n \in Listed : c = <<s, n>>
    OBVIOUS
  <1>3. IsFiniteSet(C)
    <2>1. IsFiniteSet({s}) /\ IsFiniteSet(Listed)
      BY FS_Singleton DEF SettingsAssumption
    <2>2. IsFiniteSet({s} \X Listed)
      BY <2>1, FS_Product
    <2> QED BY <2>2, FS_Subset
  <1>4. q \in Seq(C) /\ \A x \in C : \E i \in DOMAIN q : q[i] = x
    BY <1>3, ListedOnce
  <1>5. Len(q) \in Nat /\ DOMAIN q = 1..Len(q) /\ \A i \in 1..Len(q) : q[i] \in C
    BY <1>4, LenProperties, ElementOfSeq
  <1>6. \A c \in C : TurnOn(c) \in Usable
    <2> SUFFICES ASSUME NEW c \in C PROVE TurnOn(c) \in Usable
      OBVIOUS
    <2>1. PICK n \in Listed : c = <<s, n>>
      BY <1>2
    <2>2. c[1] = s /\ c[2] = n
      BY <2>1
    <2>3. TurnOn(c) = ItemChange(s, n, TRUE) /\ ItemChange(s, n, TRUE) \in Changes
      BY <1>1, <2>2, ItemChanges DEF TurnOn
    <2>4. ItemChange(s, n, TRUE).store = s
      BY DEF ItemChange, Change
    <2> QED BY <2>2, <2>3, <2>4 DEF Usable
  <1>7. Adding(C) = [i \in 1..Len(q) |-> TurnOn(q[i])]
    BY DEF Adding, TurnOn
  <1> HIDE DEF q
  <1>8. Adding(C) \in Seq(Usable)
    <2>1. Adding(C) \in [1..Len(q) -> Usable]
      BY <1>5, <1>6, <1>7
    <2> QED BY <1>5, <2>1, SeqDef
  <1>9. DOMAIN Adding(C) = 1..Len(q)
        /\ \A i \in 1..Len(q) : Adding(C)[i] = TurnOn(q[i])
    BY <1>7
  <1>10. \A i \in DOMAIN Adding(C) : \E c \in C : Adding(C)[i] = TurnOn(c)
    BY <1>5, <1>9
  <1>11. \A c \in C : \E i \in DOMAIN Adding(C) : Adding(C)[i] = TurnOn(c)
    BY <1>4, <1>5, <1>9
  <1> QED BY <1>8, <1>10, <1>11

\* A welcome turned on or off.
Turned(n, snap) == ItemChange("guard", n, <<"guard", n>> \in snap.on)

LEMMA GreetingUsable ==
    ASSUME SettingsAssumption, NEW snap, IsFile(snap), InUse("guard")
    PROVE  /\ Greeting(snap) \in Seq(Usable)
           /\ \A i \in DOMAIN Greeting(snap) : \E n \in snap.named : Greeting(snap)[i] = Turned(n, snap)
           /\ \A n \in snap.named : \E i \in DOMAIN Greeting(snap) : Greeting(snap)[i] = Turned(n, snap)
  <1> DEFINE q == SetToSeq(snap.named)
  <1>1. snap.named \subseteq Greeted /\ "guard" \in Store /\ Greeted \subseteq Item["guard"]
    BY DEF IsFile, Store, Item
  <1>2. IsFiniteSet(snap.named)
    BY <1>1, FS_Subset DEF SettingsAssumption
  <1>3. q \in Seq(snap.named) /\ \A x \in snap.named : \E i \in DOMAIN q : q[i] = x
    BY <1>2, ListedOnce
  <1>4. Len(q) \in Nat /\ DOMAIN q = 1..Len(q) /\ \A i \in 1..Len(q) : q[i] \in snap.named
    BY <1>3, LenProperties, ElementOfSeq
  <1>5. \A n \in snap.named : Turned(n, snap) \in Usable
    <2> SUFFICES ASSUME NEW n \in snap.named PROVE Turned(n, snap) \in Usable
      OBVIOUS
    <2>1. Turned(n, snap) \in Changes
      <3>1. \A v \in BOOLEAN : ItemChange("guard", n, v) \in Changes
        BY <1>1, ItemChanges
      <3>2. CASE <<"guard", n>> \in snap.on
        <4>1. (<<"guard", n>> \in snap.on) = TRUE
          BY <3>2
        <4> QED BY <3>1, <4>1 DEF Turned
      <3>3. CASE <<"guard", n>> \notin snap.on
        <4>1. (<<"guard", n>> \in snap.on) = FALSE
          BY <3>3
        <4> QED BY <3>1, <4>1 DEF Turned
      <3> QED BY <3>2, <3>3
    <2>2. Turned(n, snap).store = "guard"
      BY DEF Turned, ItemChange, Change
    <2> QED BY <2>1, <2>2 DEF Usable
  <1>6. Greeting(snap) = [i \in 1..Len(q) |-> Turned(q[i], snap)]
    BY DEF Greeting, Turned
  <1> HIDE DEF q
  <1>7. Greeting(snap) \in Seq(Usable)
    <2>1. Greeting(snap) \in [1..Len(q) -> Usable]
      BY <1>4, <1>5, <1>6
    <2> QED BY <1>4, <2>1, SeqDef
  <1>8. DOMAIN Greeting(snap) = 1..Len(q)
        /\ \A i \in 1..Len(q) : Greeting(snap)[i] = Turned(q[i], snap)
    BY <1>6
  <1> QED BY <1>3, <1>4, <1>7, <1>8

\* What a restore does to one store.
Part(t, snap) ==
    IF ~InUse(t) THEN <<>>
    ELSE CASE t = "post"  -> <<Restored(t, snap), Clearing(t)>> \o Adding(snap.on \cap Items(t))
           [] t = "guard" -> Adding(snap.on \cap ({t} \X Listed)) \o Greeting(snap)
           [] OTHER       -> <<Restored(t, snap)>>

LEMMA RestoreParts ==
    ASSUME NEW snap
    PROVE  RestoreSteps(snap)
           = Part("post", snap) \o Part("font", snap) \o Part("clock", snap) \o Part("guard", snap)
  <1> DEFINE of == [s \in BackedUp |->
                 CASE s = "post"  -> <<Restored(s, snap), Clearing(s)>> \o Adding(snap.on \cap Items(s))
                   [] s = "guard" -> Adding(snap.on \cap ({s} \X Listed)) \o Greeting(snap)
                   [] OTHER       -> <<Restored(s, snap)>>]
             used(s) == IF scope \cap Cells(s) # {} THEN of[s] ELSE <<>>
  <1>1. RestoreSteps(snap) = used("post") \o used("font") \o used("clock") \o used("guard")
    BY DEF RestoreSteps
  <1>2. \A s \in BackedUp : used(s) = Part(s, snap)
    <2> SUFFICES ASSUME NEW s \in BackedUp PROVE used(s) = Part(s, snap)
      OBVIOUS
    <2>1. CASE ~InUse(s)
      BY <2>1 DEF Part, InUse
    <2>2. CASE InUse(s)
      <3>1. used(s) = of[s]
        BY <2>2 DEF InUse
      <3> HIDE DEF used
      <3> QED BY <2>2, <3>1 DEF Part, BackedUp
    <2> QED BY <2>1, <2>2
  <1> HIDE DEF used
  <1> QED BY <1>1, <1>2 DEF BackedUp

LEMMA PartUsable ==
    ASSUME SettingsAssumption, NEW t \in BackedUp, NEW snap, IsFile(snap)
    PROVE  Part(t, snap) \in Seq(Usable)
  <1>1. CASE ~InUse(t)
    BY <1>1, EmptySeq DEF Part
  <1>2. CASE InUse(t)
    <2>1. t \in Store
      BY DEF BackedUp, Store
    <2>2. Restored(t, snap) \in Usable /\ Clearing(t) \in Usable
      BY <1>2, <2>1, RestoredChanges, ClearingChanges DEF Usable, Restored, Clearing, Change
    <2>3. CASE t = "post"
      <3>1. Part(t, snap) = <<Restored(t, snap), Clearing(t)>> \o Adding(snap.on \cap Items(t))
        BY <1>2, <2>3 DEF Part
      <3>2. <<Restored(t, snap), Clearing(t)>> \in Seq(Usable)
        BY <2>2
      <3>3. Adding(snap.on \cap Items(t)) \in Seq(Usable)
        BY <1>2, <2>1, <2>3, AddingUsable DEF Items, Item
      <3> QED BY <3>1, <3>2, <3>3, ConcatProperties
    <2>4. CASE t = "guard"
      <3>1. Part(t, snap) = Adding(snap.on \cap ({t} \X Listed)) \o Greeting(snap)
        BY <1>2, <2>4 DEF Part
      <3>2. Adding(snap.on \cap ({t} \X Listed)) \in Seq(Usable)
        BY <1>2, <2>1, <2>4, AddingUsable
      <3>3. Greeting(snap) \in Seq(Usable)
        BY <1>2, <2>4, GreetingUsable
      <3> QED BY <3>1, <3>2, <3>3, ConcatProperties
    <2>5. CASE t # "post" /\ t # "guard"
      <3>1. Part(t, snap) = <<Restored(t, snap)>>
        BY <1>2, <2>5 DEF Part
      <3> QED BY <2>2, <3>1
    <2> QED BY <2>3, <2>4, <2>5
  <1> QED BY <1>1, <1>2

LEMMA RestoreUsable ==
    ASSUME SettingsAssumption, NEW snap, IsFile(snap)
    PROVE  RestoreSteps(snap) \in Seq(Usable)
  <1>1. \A t \in {"post", "font", "clock", "guard"} : Part(t, snap) \in Seq(Usable)
    BY PartUsable DEF BackedUp
  <1> QED BY <1>1, RestoreParts, ConcatProperties

-----------------------------------------------------------------------------
\* The beginning of a save, by a task with nothing under way: the store it leaves
\* agreed, the store it enters was at rest or is disturbed.
LEMMA BeginInv ==
    ASSUME SInv, NEW o \in Save, NEW c \in Usable, NEW rest \in Seq(Usable),
           saver[o].at \in {"idle", "next"}, Begin(o, c, rest)
    PROVE  SInv'
  <1>1. PICK z : z = c.store
    OBVIOUS
  <1>2. z \in Store /\ InUse(z) /\ DOMAIN c.set \subseteq c.saves /\ c.saves \subseteq Cells(z)
    BY <1>1 DEF Usable, Changes
  <1>3. mem' = [x \in Cell |-> IF x \in DOMAIN c.set THEN c.set[x] ELSE mem[x]]
    BY DEF Begin, With
  <1>4. UNCHANGED <<table, load, scope>>
    BY DEF Begin
  <1>5. PICK new : new = [at |-> "begun", store |-> z, todo |-> rest,
                          tx |-> [x \in c.saves |-> mem'[x]], seen |-> NoCells]
    OBVIOUS
  <1>6. saver' = [saver EXCEPT ![o] = new]
    BY <1>1, <1>5 DEF Begin
  <1>7. saver = [p \in Save |-> saver[p]]
    BY DEF SInv, CellKinds
  <1>8. saver'[o] = new /\ \A p \in Save \ {o} : saver'[p] = saver[p]
    BY <1>6, <1>7
  <1>9. new.at = "begun" /\ new.store = z /\ new.todo = rest
        /\ new.tx = [x \in c.saves |-> mem'[x]]
    BY <1>5
  <1>10. \A s : InUse(s)' <=> InUse(s)
    BY <1>4 DEF InUse
  <1>11. Usable' = Usable
    BY <1>4 DEF Usable, InUse
  <1>12. \A s \in Store \ {z} : \A x \in Cells(s) : mem'[x] = mem[x]
    <2> SUFFICES ASSUME NEW s \in Store \ {z}, NEW x \in Cells(s) PROVE mem'[x] = mem[x]
      OBVIOUS
    <2>1. x \notin Cells(z)
      BY <1>2, CellsApart
    <2> QED BY <1>2, <1>3, <2>1, CellsAreCells
  <1>13. \A s : First(s)' <=> First(s)
    BY <1>4 DEF First
  <1>14. \A s : (Loading(s)' <=> Loading(s)) /\ (Loaded(s)' <=> Loaded(s))
    BY <1>4, <1>13 DEF Loading, Loaded
  <1>15. disturbed \subseteq disturbed'
         /\ (z \in disturbed' \/ (~Loading(z) /\ \A p \in Save \ {o} : ~Busy(p, z)))
    <2>1. disturbed' = IF Loading(z) \/ \E p \in Save \ {o} : Busy(p, z)
                       THEN disturbed \cup {z} ELSE disturbed
      BY <1>1 DEF Begin
    <2> QED BY <2>1
  <1>16. \A p \in Save \ {o} : \A s : Busy(p, s)' <=> Busy(p, s)
    BY <1>8 DEF Busy
  <1>17. \A s : Busy(o, s)' <=> s = z
    BY <1>8, <1>9 DEF Busy
  <1>18. CellKinds'
    <2>1. IsTask(new)'
      BY <1>2, <1>5, <1>9, <1>10, <1>11 DEF IsTask
    <2>2. \A p \in Save \ {o} : IsTask(saver[p])'
      <3> SUFFICES ASSUME NEW p \in Save \ {o} PROVE IsTask(saver[p])'
        OBVIOUS
      <3>1. IsTask(saver[p])
        BY DEF SInv, CellKinds
      <3> QED BY <1>8, <1>10, <1>11, <3>1 DEF IsTask
    <2>3. IsTask(saver[o])'
      BY <1>8, <2>1 DEF IsTask
    <2>4. IsLoad'
      BY <1>4, <1>10, <1>13 DEF SInv, CellKinds, IsLoad
    <2>5. saver' = [p \in Save |-> saver'[p]]
      BY <1>6, <1>7
    <2> QED BY <2>2, <2>3, <2>4, <2>5 DEF CellKinds
  <1>19. Untouched'
    BY <1>2, <1>4, <1>10, <1>12 DEF SInv, Untouched
  <1>20. ASSUME NEW s \in Store, s \notin disturbed', InUse(s)
         PROVE  Undisturbed(s)'
    <2>1. Undisturbed(s)
      BY <1>15, <1>20 DEF SInv
    <2>2. Alone(s)'
      BY <1>15, <1>16, <1>17, <1>20, <2>1 DEF Undisturbed, Alone
    <2>3. ReadWell(s)'
      BY <1>4, <1>14, <1>15, <1>16, <1>17, <1>20, <2>1 DEF Undisturbed, ReadWell, NoneSaving
    <2>4. CASE s = z
      <3>1. CellSettled(s)'
        BY <1>17, <2>4 DEF CellSettled, NoneSaving
      <3>2. \A p \in Save : Busy(p, z)' => p = o
        BY <1>15, <1>16, <1>20, <2>4
      <3>3. ASSUME Loaded(z), NEW x \in Firm(z)
            PROVE  mem[x] = table[x]
        <4>1. CASE Busy(o, z)
          <5>1. OnItsWay(saver[o], x) /\ saver[o].at = "next"
            BY <2>1, <2>4, <3>3, <4>1 DEF Undisturbed, Moving, Busy
          <5> QED BY <5>1 DEF OnItsWay
        <4>2. CASE ~Busy(o, z)
          BY <1>15, <1>20, <2>1, <2>4, <3>3, <4>2 DEF Undisturbed, CellSettled, NoneSaving
        <4> QED BY <4>1, <4>2
      <3>4. ASSUME Loaded(z), NEW x \in Firm(z)
            PROVE  OnItsWay(new, x)'
        <4>1. x \in Cell
          BY <1>2, CellsAreCells
        <4>2. x \in DOMAIN new.tx => new.tx[x] = mem'[x]
          BY <1>9
        <4>3. x \notin DOMAIN new.tx => mem'[x] = table'[x]
          BY <1>2, <1>3, <1>4, <1>9, <3>3, <3>4, <4>1
        <4> QED BY <1>9, <4>2, <4>3 DEF OnItsWay
      <3>5. Moving(s)'
        BY <1>8, <1>14, <2>4, <3>2, <3>4 DEF Moving, OnItsWay
      <3> QED BY <2>2, <2>3, <3>1, <3>5 DEF Undisturbed
    <2>5. CASE s # z
      <3>1. \A x \in Cells(s) : mem'[x] = mem[x] /\ table'[x] = table[x]
        BY <1>4, <1>12, <2>5
      <3>2. \A p \in Save : Busy(p, s)' => p # o /\ Busy(p, s)
        BY <1>16, <1>17, <2>5
      <3>3. CellSettled(s)'
        <4> SUFFICES ASSUME Loaded(s)', NoneSaving(s)', NEW x \in Firm(s) PROVE mem'[x] = table'[x]
          BY DEF CellSettled
        <4>1. CASE Busy(o, s)
          <5>1. OnItsWay(saver[o], x) /\ saver[o].at = "next"
            BY <1>14, <2>1, <4>1 DEF Undisturbed, Moving, Busy
          <5> QED BY <3>1, <5>1, CellsAreCells DEF OnItsWay
        <4>2. CASE ~Busy(o, s)
          <5>1. NoneSaving(s)
            BY <1>16, <4>2 DEF NoneSaving
          <5> QED BY <1>14, <2>1, <3>1, <5>1, CellsAreCells DEF Undisturbed, CellSettled
        <4> QED BY <4>1, <4>2
      <3>4. Moving(s)'
        BY <1>8, <1>14, <2>1, <3>1, <3>2, CellsAreCells DEF Undisturbed, Moving, OnItsWay
      <3> QED BY <2>2, <2>3, <3>3, <3>4 DEF Undisturbed
    <2> QED BY <2>4, <2>5
  <1> QED BY <1>10, <1>18, <1>19, <1>20 DEF SInv

\* What a step that changes only one task, and perhaps the table, leaves alone.
LEMMA OneTask ==
    ASSUME NEW o \in Save, NEW new, saver = [p \in Save |-> saver[p]],
           saver' = [saver EXCEPT ![o] = new]
    PROVE  /\ saver'[o] = new
           /\ \A p \in Save \ {o} : saver'[p] = saver[p] /\ \A s : Busy(p, s)' <=> Busy(p, s)
           /\ saver' = [p \in Save |-> saver'[p]]
  <1>1. saver'[o] = new /\ \A p \in Save \ {o} : saver'[p] = saver[p]
    OBVIOUS
  <1> QED BY <1>1 DEF Busy

LEMMA SameScope ==
    ASSUME UNCHANGED scope
    PROVE  Usable' = Usable /\ \A s : InUse(s)' <=> InUse(s)
  BY DEF Usable, InUse

LEMMA SameLoad ==
    ASSUME UNCHANGED <<load, scope>>
    PROVE  \A s : /\ First(s)' <=> First(s)
                  /\ Loading(s)' <=> Loading(s)
                  /\ Loaded(s)' <=> Loaded(s)
  BY DEF First, Loading, Loaded

LEMMA IsTaskKept ==
    ASSUME UNCHANGED scope, NEW p \in Save, NEW x, IsTask(x), saver'[p] = x
    PROVE  IsTask(saver[p])'
  BY SameScope DEF IsTask

LEMMA IsLoadKept ==
    ASSUME UNCHANGED <<load, scope>>, IsLoad
    PROVE  IsLoad'
  BY SameScope, SameLoad DEF IsLoad

\* A task with some of its fields set anew.
LEMMA TaskRead ==
    ASSUME NEW a, NEW s, NEW l, NEW u, NEW v, NEW w, NEW x, NEW y,
           x = [at |-> a, store |-> s, todo |-> l, tx |-> u, seen |-> v],
           y = [x EXCEPT !.at = "read", !.seen = w]
    PROVE  y = [at |-> "read", store |-> s, todo |-> l, tx |-> u, seen |-> w]
  <1>1. y.at = "read" /\ y.seen = w /\ y.store = s /\ y.todo = l /\ y.tx = u
    OBVIOUS
  <1>2. DOMAIN y = {"at", "store", "todo", "tx", "seen"} /\ y = [i \in DOMAIN y |-> y[i]]
    OBVIOUS
  <1> QED BY <1>1, <1>2

LEMMA TaskNext ==
    ASSUME NEW a, NEW s, NEW l, NEW u, NEW v, NEW w, NEW x, NEW y,
           x = [at |-> a, store |-> s, todo |-> l, tx |-> u, seen |-> v],
           y = [x EXCEPT !.at = "next", !.tx = w, !.seen = w]
    PROVE  y = [at |-> "next", store |-> s, todo |-> l, tx |-> w, seen |-> w]
  <1>1. y.at = "next" /\ y.seen = w /\ y.store = s /\ y.todo = l /\ y.tx = w
    OBVIOUS
  <1>2. DOMAIN y = {"at", "store", "todo", "tx", "seen"} /\ y = [i \in DOMAIN y |-> y[i]]
    OBVIOUS
  <1> QED BY <1>1, <1>2

\* A row is read.
LEMMA ReadRowInv ==
    ASSUME SInv, NEW o \in Save, ReadRow(o)
    PROVE  SInv'
  <1>1. PICK x : x = saver[o]
    OBVIOUS
  <1>2. IsTask(x) /\ x.at = "begun" /\ saver = [p \in Save |-> saver[p]]
    BY <1>1 DEF SInv, CellKinds, ReadRow
  <1>3. PICK new : new = [at |-> "read", store |-> x.store, todo |-> x.todo, tx |-> x.tx,
                          seen |-> [c \in DOMAIN x.tx |-> table[c]]]
    OBVIOUS
  <1>4. new.at = "read" /\ new.store = x.store /\ new.todo = x.todo /\ new.tx = x.tx
        /\ new.seen = [c \in DOMAIN x.tx |-> table[c]]
    BY <1>3
  <1>5. UNCHANGED <<mem, table, load, scope, disturbed>>
    BY DEF ReadRow
  <1>6. saver' = [saver EXCEPT ![o] = new]
    <2>1. x = [at |-> x.at, store |-> x.store, todo |-> x.todo, tx |-> x.tx, seen |-> x.seen]
      BY <1>2 DEF IsTask
    <2> DEFINE w == [c \in DOMAIN x.tx |-> table[c]]
    <2>2. PICK y : y = [x EXCEPT !.at = "read", !.seen = w]
      OBVIOUS
    <2> HIDE DEF w
    <2>3. y = [at |-> "read", store |-> x.store, todo |-> x.todo, tx |-> x.tx, seen |-> w]
      BY <2>1, <2>2, TaskRead
    <2>4. y = new
      BY <1>3, <2>3 DEF w
    <2>5. saver' = [saver EXCEPT ![o] = [x EXCEPT !.at = "read", !.seen = [c \in DOMAIN x.tx |-> table[c]]]]
      BY <1>1, <1>2 DEF ReadRow
    <2> QED BY <2>2, <2>4, <2>5 DEF w
  <1>7. /\ saver'[o] = new /\ \A p \in Save \ {o} : saver'[p] = saver[p]
        /\ saver' = [p \in Save |-> saver'[p]]
    BY <1>2, <1>6, OneTask
  <1>8. IsTask(new)
    BY <1>2, <1>3, <1>4 DEF IsTask
  <1>9. CellKinds'
    <2>1. \A p \in Save : IsTask(saver[p])'
      BY <1>5, <1>7, <1>8, IsTaskKept DEF SInv, CellKinds
    <2> QED BY <1>5, <1>7, <2>1, IsLoadKept DEF SInv, CellKinds
  <1>10. Untouched'
    BY <1>5, SameScope DEF SInv, Untouched
  <1>11. \A p \in Save : \A s : Busy(p, s)' <=> Busy(p, s)
    BY <1>1, <1>2, <1>4, <1>7 DEF Busy
  <1>12. ASSUME NEW s \in Store, s \notin disturbed', InUse(s)
         PROVE  Undisturbed(s)'
    <2>1. Undisturbed(s)
      BY <1>5, <1>12 DEF SInv
    <2>2. Alone(s)' /\ ReadWell(s)' /\ CellSettled(s)'
      BY <1>5, <1>11, <2>1, SameLoad DEF Undisturbed, Alone, ReadWell, CellSettled, NoneSaving
    <2>3. ASSUME Loaded(s), Busy(o, s), NEW c \in Firm(s)
          PROVE  OnItsWay(new, c)
      <3>1. OnItsWay(x, c)
        BY <1>1, <2>1, <2>3 DEF Undisturbed, Moving
      <3> QED BY <1>2, <1>4, <3>1 DEF OnItsWay
    <2>4. Moving(s)'
      <3> SUFFICES ASSUME Loaded(s)', NEW p \in Save, Busy(p, s)', NEW c \in Firm(s)
                   PROVE  OnItsWay(saver[p], c)'
        BY DEF Moving
      <3>1. Loaded(s) /\ Busy(p, s)
        BY <1>5, <1>11, SameLoad
      <3>2. OnItsWay(saver'[p], c)
        BY <1>7, <2>1, <2>3, <3>1 DEF Undisturbed, Moving
      <3> QED BY <1>5, <3>2 DEF OnItsWay
    <2> QED BY <2>2, <2>4 DEF Undisturbed
  <1> QED BY <1>9, <1>10, <1>12, <1>5, SameScope DEF SInv

\* A save is committed: the table gets what memory held, and still holds if
\* nothing disturbed the store.
LEMMA CommitInv ==
    ASSUME SInv, NEW o \in Save, CommitSave(o)
    PROVE  SInv'
  <1>1. PICK x : x = saver[o]
    OBVIOUS
  <1>2. IsTask(x) /\ x.at = "read" /\ saver = [p \in Save |-> saver[p]]
    BY <1>1 DEF SInv, CellKinds, CommitSave
  <1>3. x = [at |-> x.at, store |-> x.store, todo |-> x.todo, tx |-> x.tx, seen |-> x.seen]
        /\ x.store \in Store /\ InUse(x.store) /\ DOMAIN x.tx \subseteq Cells(x.store)
        /\ x.todo \in Seq(Usable)
    BY <1>2 DEF IsTask
  <1>4. PICK new : new = IF x.todo = <<>> THEN Idling
                         ELSE [at |-> "next", store |-> x.store, todo |-> x.todo,
                               tx |-> NoCells, seen |-> NoCells]
    OBVIOUS
  <1>5. UNCHANGED <<mem, load, scope, disturbed>>
    BY DEF CommitSave
  <1>6. saver' = [saver EXCEPT ![o] = new]
    <2>1. PICK y : y = [x EXCEPT !.at = "next", !.tx = NoCells, !.seen = NoCells]
      OBVIOUS
    <2>3. y = [at |-> "next", store |-> x.store, todo |-> x.todo, tx |-> NoCells, seen |-> NoCells]
      BY <1>3, <2>1, TaskNext
    <2>2. saver' = [saver EXCEPT ![o] = IF x.todo = <<>> THEN Idling
                                        ELSE [x EXCEPT !.at = "next", !.tx = NoCells, !.seen = NoCells]]
      BY <1>1, <1>2 DEF CommitSave
    <2> QED BY <1>4, <2>1, <2>2, <2>3
  <1>7. /\ saver'[o] = new /\ \A p \in Save \ {o} : saver'[p] = saver[p]
        /\ saver' = [p \in Save |-> saver'[p]]
    BY <1>2, <1>6, OneTask
  <1>8. IsTask(new)
    <2>1. CASE x.todo = <<>>
      BY <1>4, <2>1 DEF IsTask, Idling
    <2>2. CASE x.todo # <<>>
      <3>1. DOMAIN NoCells = {}
        BY DEF NoCells
      <3> QED BY <1>3, <1>4, <2>2, <3>1 DEF IsTask
    <2> QED BY <2>1, <2>2
  <1>9. new.at \in {"idle", "next"} /\ (new.at # "idle" => new.store = x.store)
    BY <1>4 DEF Idling
  <1>10. table' = [c \in Cell |-> IF c \in DOMAIN x.tx /\ (Blind(c) \/ x.tx[c] # x.seen[c])
                                  THEN x.tx[c] ELSE table[c]]
    BY <1>1 DEF CommitSave, Written
  <1>11. \A s \in Store \ {x.store} : \A c \in Cells(s) : table'[c] = table[c]
    <2> SUFFICES ASSUME NEW s \in Store \ {x.store}, NEW c \in Cells(s) PROVE table'[c] = table[c]
      OBVIOUS
    <2>1. c \notin Cells(x.store)
      BY <1>3, CellsApart
    <2> QED BY <1>3, <1>10, <2>1, CellsAreCells
  <1>12. CellKinds'
    <2>1. \A p \in Save : IsTask(saver[p])'
      BY <1>5, <1>7, <1>8, IsTaskKept DEF SInv, CellKinds
    <2> QED BY <1>5, <1>7, <2>1, IsLoadKept DEF SInv, CellKinds
  <1>13. Untouched'
    BY <1>3, <1>5, <1>11, SameScope DEF SInv, Untouched
  <1>14. \A p \in Save \ {o} : \A s : Busy(p, s)' <=> Busy(p, s)
    BY <1>7 DEF Busy
  <1>15. \A s : Busy(o, s)' => s = x.store
    BY <1>7, <1>9 DEF Busy
  <1>16. Busy(o, x.store)
    BY <1>1, <1>2 DEF Busy
  <1>17. ASSUME NEW s \in Store, s \notin disturbed', InUse(s)
         PROVE  Undisturbed(s)'
    <2>1. Undisturbed(s)
      BY <1>5, <1>17 DEF SInv
    <2>2. Alone(s)'
      BY <1>14, <1>15, <1>16, <2>1 DEF Undisturbed, Alone
    <2>3. CASE s = x.store
      <3>1. ~Loading(s)
        BY <1>16, <2>1, <2>3 DEF Undisturbed, ReadWell, NoneSaving
      <3>2. ReadWell(s)'
        BY <1>5, <3>1, SameLoad DEF ReadWell
      <3>3. ASSUME Loaded(s), NEW c \in Firm(s)
            PROVE  mem'[c] = table'[c]
        <4>1. OnItsWay(x, c) /\ c \in Cell
          BY <1>1, <1>16, <2>1, <2>3, <3>3, CellsAreCells DEF Undisturbed, Moving
        <4>2. (c \in DOMAIN x.tx => x.tx[c] = mem[c] /\ x.seen[c] = table[c])
              /\ (c \notin DOMAIN x.tx => mem[c] = table[c])
          BY <1>2, <4>1 DEF OnItsWay
        <4>3. table'[c] = IF c \in DOMAIN x.tx /\ (Blind(c) \/ x.tx[c] # x.seen[c])
                          THEN x.tx[c] ELSE table[c]
          BY <1>10, <4>1
        <4> QED BY <1>5, <4>2, <4>3
      <3>4. CellSettled(s)'
        BY <1>5, <3>3, SameLoad DEF CellSettled
      <3>5. \A p \in Save : Busy(p, s)' => p = o
        BY <1>14, <1>16, <2>1, <2>3 DEF Undisturbed, Alone
      <3>6. ASSUME Loaded(s), Busy(o, s)', NEW c \in Firm(s)
            PROVE  OnItsWay(saver[o], c)'
        <4>1. new.at = "next"
          BY <1>7, <1>9, <3>6 DEF Busy
        <4> QED BY <1>7, <3>3, <3>6, <4>1 DEF OnItsWay
      <3>7. Moving(s)'
        BY <1>5, <3>5, <3>6, SameLoad DEF Moving
      <3> QED BY <2>2, <3>2, <3>4, <3>7 DEF Undisturbed
    <2>4. CASE s # x.store
      <3>1. \A c \in Cells(s) : mem'[c] = mem[c] /\ table'[c] = table[c]
        BY <1>5, <1>11, <2>4
      <3>2. ~Busy(o, s) /\ ~Busy(o, s)'
        BY <1>1, <1>15, <2>4 DEF Busy
      <3>3. \A p \in Save : Busy(p, s)' <=> Busy(p, s)
        BY <1>14, <3>2
      <3>4. CellSettled(s)'
        BY <1>5, <2>1, <3>1, <3>3, SameLoad, CellsAreCells DEF Undisturbed, CellSettled, NoneSaving
      <3>5. ReadWell(s)'
        <4> SUFFICES ASSUME Loading(s)' PROVE NoneSaving(s)' /\ \A c \in DOMAIN load'.seen : load'.seen[c] = table'[c]
          BY DEF ReadWell
        <4>1. Loading(s)
          BY <1>5, SameLoad
        <4>2. DOMAIN load.seen \subseteq Cells(s)
          BY <4>1, OneFirst DEF SInv, CellKinds, IsLoad, Loading
        <4> QED BY <1>5, <2>1, <3>1, <3>3, <4>1, <4>2 DEF Undisturbed, ReadWell, NoneSaving
      <3>6. Moving(s)'
        <4> SUFFICES ASSUME Loaded(s)', NEW p \in Save, Busy(p, s)', NEW c \in Firm(s)
                     PROVE  OnItsWay(saver[p], c)'
          BY DEF Moving
        <4>1. Loaded(s) /\ Busy(p, s) /\ p # o
          BY <1>5, <3>2, <3>3, SameLoad
        <4>2. OnItsWay(saver[p], c)
          BY <2>1, <4>1 DEF Undisturbed, Moving
        <4> QED BY <1>7, <3>1, <4>1, <4>2, CellsAreCells DEF OnItsWay
      <3> QED BY <2>2, <3>4, <3>5, <3>6 DEF Undisturbed
    <2> QED BY <2>3, <2>4
  <1> QED BY <1>12, <1>13, <1>17, <1>5, SameScope DEF SInv

\* A save that raises disturbs its store.
LEMMA SaveFailsInv ==
    ASSUME SInv, NEW o \in Save, SaveFails(o)
    PROVE  SInv'
  <1>1. PICK x : x = saver[o]
    OBVIOUS
  <1>2. x.at # "idle" /\ saver = [p \in Save |-> saver[p]]
    BY <1>1 DEF SInv, CellKinds, SaveFails
  <1>3. UNCHANGED <<mem, table, load, scope>> /\ disturbed' = disturbed \cup {x.store}
    BY <1>1 DEF SaveFails
  <1>4. saver' = [saver EXCEPT ![o] = Idling]
    BY DEF SaveFails
  <1>5. /\ saver'[o] = Idling /\ \A p \in Save \ {o} : saver'[p] = saver[p]
        /\ saver' = [p \in Save |-> saver'[p]]
    BY <1>2, <1>4, OneTask
  <1>6. CellKinds'
    <2>1. IsTask(Idling)
      BY DEF IsTask, Idling
    <2>2. \A p \in Save : IsTask(saver[p])'
      BY <1>3, <1>5, <2>1, IsTaskKept DEF SInv, CellKinds
    <2> QED BY <1>3, <1>5, <2>2, IsLoadKept DEF SInv, CellKinds
  <1>7. Untouched'
    BY <1>3, SameScope DEF SInv, Untouched
  <1>8. ASSUME NEW s \in Store, s \notin disturbed', InUse(s)
        PROVE  Undisturbed(s)'
    <2>1. Undisturbed(s) /\ s # x.store
      BY <1>3, <1>8 DEF SInv
    <2>2. \A p \in Save : Busy(p, s)' <=> p # o /\ Busy(p, s)
      BY <1>5 DEF Busy, Idling
    <2>3. ~Busy(o, s)
      BY <1>1, <2>1 DEF Busy
    <2>4. Alone(s)' /\ ReadWell(s)' /\ CellSettled(s)'
      BY <1>3, <2>1, <2>2, <2>3, SameLoad DEF Undisturbed, Alone, ReadWell, CellSettled, NoneSaving
    <2>5. Moving(s)'
      <3> SUFFICES ASSUME Loaded(s)', NEW p \in Save, Busy(p, s)', NEW c \in Firm(s)
                   PROVE  OnItsWay(saver[p], c)'
        BY DEF Moving
      <3>1. Loaded(s) /\ Busy(p, s) /\ p # o
        BY <1>3, <2>2, SameLoad
      <3>2. OnItsWay(saver[p], c)
        BY <2>1, <3>1 DEF Undisturbed, Moving
      <3> QED BY <1>3, <1>5, <3>1, <3>2 DEF OnItsWay
    <2> QED BY <2>4, <2>5 DEF Undisturbed
  <1> QED BY <1>3, <1>6, <1>7, <1>8, SameScope DEF SInv

-----------------------------------------------------------------------------
\* A load reads rows of the first store, whose rows nobody is saving unless the
\* store is disturbed.
LEMMA LoadReadInv ==
    ASSUME SInv, NEW s \in Store, First(s), NEW C \in SUBSET Cells(s), C # {}, NEW new,
           DOMAIN new = C, \A c \in C : new[c] = table[c] \/ (c \in DOMAIN load.seen /\ new[c] = load.seen[c]),
           DOMAIN load.seen = {} \/ disturbed' = disturbed,
           load' = [load EXCEPT !.seen = new],
           DOMAIN load.seen = {} =>
             disturbed' = IF \E o \in Save : Busy(o, s) THEN disturbed \cup {s} ELSE disturbed,
           UNCHANGED <<mem, table, saver, scope>>
    PROVE  SInv'
  <1>1. load = [left |-> load.left, seen |-> load.seen]
    BY DEF SInv, CellKinds, IsLoad
  <1>2. load'.left = load.left /\ load'.seen = new /\ load' = [left |-> load'.left, seen |-> load'.seen]
    BY <1>1
  <1>3. \A t : /\ First(t)' <=> First(t)
               /\ Loaded(t)' <=> Loaded(t)
    BY <1>2 DEF First, Loaded
  <1>4. \A o : \A t : Busy(o, t)' <=> Busy(o, t)
    BY DEF Busy
  <1>5. disturbed \subseteq disturbed'
    OBVIOUS
  <1>6. CellKinds'
    <2>1. IsLoad'
      <3>1. load'.left \subseteq {t \in Store : InUse(t)'}
        BY <1>2, SameScope DEF SInv, CellKinds, IsLoad
      <3>2. \E t \in Store : First(t)' /\ DOMAIN load'.seen \subseteq Cells(t)
        BY <1>2, <1>3
      <3> QED BY <1>2, <3>1, <3>2 DEF IsLoad
    <2>2. \A o \in Save : IsTask(saver[o])'
      BY IsTaskKept DEF SInv, CellKinds
    <2> QED BY <2>1, <2>2 DEF SInv, CellKinds
  <1>7. Untouched'
    BY SameScope DEF SInv, Untouched
  <1>8. ASSUME NEW t \in Store, t \notin disturbed', InUse(t)
        PROVE  Undisturbed(t)'
    <2>1. Undisturbed(t)
      BY <1>5, <1>8 DEF SInv
    <2>2. Alone(t)' /\ CellSettled(t)'
      BY <1>3, <1>4, <2>1 DEF Undisturbed, Alone, CellSettled, NoneSaving
    <2>3. Moving(t)'
      BY <1>3, <1>4, <2>1 DEF Undisturbed, Moving, OnItsWay
    <2>4. ReadWell(t)'
      <3> SUFFICES ASSUME Loading(t)'
                   PROVE  NoneSaving(t)' /\ \A c \in C : new[c] = table[c]
        BY <1>2 DEF ReadWell
      <3>1. t = s
        BY <1>3, OneFirst DEF Loading, SInv, CellKinds
      <3>2. CASE DOMAIN load.seen = {}
        <4>1. NoneSaving(s)
          BY <1>8, <3>1, <3>2 DEF NoneSaving
        <4> QED BY <1>4, <3>1, <3>2, <4>1 DEF NoneSaving
      <3>3. CASE DOMAIN load.seen # {}
        <4>1. Loading(s)
          BY <3>3 DEF Loading
        <4> QED BY <1>4, <2>1, <3>1, <4>1 DEF Undisturbed, ReadWell, NoneSaving
      <3> QED BY <3>2, <3>3
    <2> QED BY <2>2, <2>3, <2>4 DEF Undisturbed
  <1> QED BY <1>6, <1>7, <1>8, SameScope DEF SInv

LEMMA LoadRowsInv ==
    ASSUME SInv, LoadRows
    PROVE  SInv'
  <1>1. PICK s \in Store :
          /\ First(s)
          /\ load' = [load EXCEPT !.seen = [c \in IF Row[s] = {} THEN Items(s) ELSE Rows(s) |-> table[c]]]
          /\ disturbed' = IF \E o \in Save : Busy(o, s) THEN disturbed \cup {s} ELSE disturbed
    BY DEF LoadRows
  <1>2. UNCHANGED <<mem, table, saver, scope>> /\ DOMAIN load.seen = {}
    BY DEF LoadRows
  <1>3. PICK C : C = IF Row[s] = {} THEN Items(s) ELSE Rows(s)
    OBVIOUS
  <1>4. InUse(s)
    BY <1>1 DEF SInv, CellKinds, IsLoad, First
  <1>5. C # {} /\ C \subseteq Cells(s)
    <2>1. CASE Row[s] = {}
      <3>1. Rows(s) = {}
        BY <2>1 DEF Rows
      <3> QED BY <1>3, <1>4, <2>1, <3>1, UsedHasCells DEF Cells
    <2>2. CASE Row[s] # {}
      <3>1. PICK r \in Row[s] : TRUE
        BY <2>2
      <3>2. <<s, r>> \in Rows(s)
        BY <3>1 DEF Rows
      <3> QED BY <1>3, <2>2, <3>2, CellsAreCells
    <2> QED BY <2>1, <2>2
  <1>6. PICK new : new = [c \in C |-> table[c]]
    OBVIOUS
  <1>7. DOMAIN new = C /\ \A c \in C : new[c] = table[c]
    BY <1>6
  <1>8. load' = [load EXCEPT !.seen = new]
    BY <1>1, <1>3, <1>6
  <1>9. C \in SUBSET Cells(s)
    BY <1>5
  <1>10. \A c \in C : new[c] = table[c] \/ (c \in DOMAIN load.seen /\ new[c] = load.seen[c])
    BY <1>7
  <1>11. DOMAIN new = C /\ C # {}
    BY <1>5, <1>7
  <1> QED BY <1>1, <1>2, <1>8, <1>9, <1>10, <1>11, LoadReadInv

LEMMA LoadItemsInv ==
    ASSUME SInv, LoadItems
    PROVE  SInv'
  <1>1. PICK s \in Store :
          /\ First(s) /\ Row[s] # {} /\ DOMAIN load.seen = Rows(s)
          /\ load' = [load EXCEPT !.seen = [c \in Cells(s) |-> IF c \in Rows(s) THEN @[c] ELSE table[c]]]
    BY DEF LoadItems
  <1>2. UNCHANGED <<mem, table, saver, scope, disturbed>>
    BY DEF LoadItems
  <1>3. Rows(s) # {} /\ Rows(s) \subseteq Cells(s) /\ Cells(s) # {}
    <2>1. PICK r \in Row[s] : TRUE
      BY <1>1
    <2>2. <<s, r>> \in Rows(s)
      BY <2>1 DEF Rows
    <2> QED BY <2>2, CellsAreCells
  <1>4. PICK new : new = [c \in Cells(s) |-> IF c \in Rows(s) THEN load.seen[c] ELSE table[c]]
    OBVIOUS
  <1>5. DOMAIN new = Cells(s)
        /\ \A c \in Cells(s) : new[c] = table[c] \/ (c \in DOMAIN load.seen /\ new[c] = load.seen[c])
    BY <1>1, <1>4
  <1>6. load' = [load EXCEPT !.seen = new]
    <2>1. load = [left |-> load.left, seen |-> load.seen]
      BY DEF SInv, CellKinds, IsLoad
    <2> QED BY <1>1, <1>4, <2>1
  <1> QED BY <1>1, <1>2, <1>3, <1>5, <1>6, LoadReadInv

\* What was read goes to memory, and the store is loaded.
LEMMA LoadAssignInv ==
    ASSUME SInv, LoadAssign
    PROVE  SInv'
  <1>1. PICK s \in Store :
          /\ First(s) /\ DOMAIN load.seen = Cells(s)
          /\ load' = [left |-> load.left \ {s}, seen |-> NoCells]
    BY DEF LoadAssign
  <1>2. UNCHANGED <<table, saver, scope, disturbed>>
        /\ mem' = [c \in Cell |-> IF c \in DOMAIN load.seen \ {Base} THEN load.seen[c] ELSE mem[c]]
    BY DEF LoadAssign, With
  <1>3. InUse(s) /\ s \in load.left /\ load.left \subseteq {t \in Store : InUse(t)}
    BY <1>1 DEF SInv, CellKinds, IsLoad, First
  <1>4. Loading(s)
    BY <1>1, <1>3, UsedHasCells DEF Loading
  <1>5. load'.left = load.left \ {s} /\ DOMAIN load'.seen = {}
        /\ load' = [left |-> load'.left, seen |-> load'.seen]
    BY <1>1 DEF NoCells
  <1>6. \A t : ~Loading(t)'
    BY <1>5 DEF Loading
  <1>7. \A t \in Store \ {s} : \A c \in Cells(t) : mem'[c] = mem[c]
    <2> SUFFICES ASSUME NEW t \in Store \ {s}, NEW c \in Cells(t) PROVE mem'[c] = mem[c]
      OBVIOUS
    <2>1. c \notin Cells(s)
      BY CellsApart
    <2> QED BY <1>1, <1>2, <2>1, CellsAreCells
  <1>8. \A o : \A t : Busy(o, t)' <=> Busy(o, t)
    BY <1>2 DEF Busy
  <1>9. \A t \in Store \ {s} : Loaded(t)' <=> Loaded(t)
    BY <1>5 DEF Loaded
  <1>10. CellKinds'
    <2>1. IsLoad'
      <3>1. load'.left \subseteq {t \in Store : InUse(t)'}
        BY <1>2, <1>3, <1>5, SameScope
      <3> QED BY <1>5, <3>1 DEF IsLoad
    <2>2. \A o \in Save : IsTask(saver[o])'
      BY <1>2, IsTaskKept DEF SInv, CellKinds
    <2> QED BY <1>2, <2>1, <2>2 DEF SInv, CellKinds
  <1>11. Untouched'
    BY <1>2, <1>3, <1>7, SameScope DEF SInv, Untouched
  <1>12. ASSUME NEW t \in Store, t \notin disturbed', InUse(t)
         PROVE  Undisturbed(t)'
    <2>1. Undisturbed(t)
      BY <1>2, <1>12 DEF SInv
    <2>2. Alone(t)' /\ ReadWell(t)'
      BY <1>6, <1>8, <2>1 DEF Undisturbed, Alone, ReadWell
    <2>3. CASE t = s
      <3>1. NoneSaving(s) /\ \A c \in Cells(s) : load.seen[c] = table[c]
        BY <1>1, <1>4, <2>1, <2>3 DEF Undisturbed, ReadWell
      <3>2. \A c \in Firm(s) : mem'[c] = table'[c]
        BY <1>1, <1>2, <3>1, CellsAreCells DEF Firm
      <3>3. CellSettled(t)' /\ Moving(t)'
        BY <1>8, <2>3, <3>1, <3>2 DEF CellSettled, Moving, NoneSaving
      <3> QED BY <2>2, <3>3 DEF Undisturbed
    <2>4. CASE t # s
      <3>1. CellSettled(t)'
        BY <1>2, <1>7, <1>8, <1>9, <2>1, <2>4, CellsAreCells DEF Undisturbed, CellSettled, NoneSaving
      <3>2. Moving(t)'
        <4> SUFFICES ASSUME Loaded(t)', NEW p \in Save, Busy(p, t)', NEW c \in Firm(t)
                     PROVE  OnItsWay(saver[p], c)'
          BY DEF Moving
        <4>1. OnItsWay(saver[p], c)
          BY <1>8, <1>9, <2>1, <2>4 DEF Undisturbed, Moving
        <4>2. mem'[c] = mem[c] /\ table'[c] = table[c]
          BY <1>2, <1>7, <2>4, CellsAreCells
        <4> QED BY <1>2, <4>1, <4>2 DEF OnItsWay
      <3> QED BY <2>2, <3>1, <3>2 DEF Undisturbed
    <2> QED BY <2>3, <2>4
  <1> QED BY <1>2, <1>10, <1>11, <1>12, SameScope DEF SInv

\* The base name is no cell of another store.
LEMMA BaseApart == Base \in Cells("clock") /\ \A s \in Store \ {"clock"} : Base \notin Cells(s)
  <1>1. "clock" \in Store /\ Base \in Cells("clock")
    BY DEF Store, Cells, Rows, Row, ClockRow, Base
  <1> QED BY <1>1, CellsApart

LEMMA SavingUsable ==
    ASSUME Base \in scope
    PROVE  Change("clock", NoCells, Rows("clock")) \in Usable
  <1>1. NoCells \in Values
    <2>1. NoCells \in [{} -> BOOLEAN] /\ {} \in SUBSET Cell
      BY DEF NoCells
    <2> QED BY <2>1 DEF Values
  <1>2. "clock" \in Store /\ InUse("clock")
    BY BaseApart DEF Store, InUse
  <1>3. Rows("clock") \subseteq Cells("clock") /\ Cells("clock") \subseteq Cell
    BY <1>2, CellsAreCells
  <1>4. DOMAIN NoCells = {}
    BY DEF NoCells
  <1> QED BY <1>1, <1>2, <1>3, <1>4 DEF Change, Changes, Usable

\* A base name in memory alone: no other cell changes.
LEMMA ClockBaseInv ==
    ASSUME SInv, NEW v \in BOOLEAN, ClockBase(v)
    PROVE  SInv'
  <1>1. UNCHANGED <<table, saver, load, scope, disturbed>> /\ Base \in scope
        /\ mem' = [c \in Cell |-> IF c \in {Base} THEN [d \in {Base} |-> v][c] ELSE mem[c]]
    BY DEF ClockBase, With
  <1>2. \A s \in Store : \A c \in Firm(s) : mem'[c] = mem[c]
    BY <1>1, CellsAreCells DEF Firm
  <1>3. \A o, s : Busy(o, s)' <=> Busy(o, s)
    BY <1>1 DEF Busy
  <1>4. CellKinds'
    BY <1>1, IsTaskKept, IsLoadKept DEF SInv, CellKinds
  <1>5. Untouched'
    <2>1. InUse("clock")
      BY <1>1, BaseApart DEF InUse
    <2>2. \A s \in Store : ~InUse(s) => Firm(s) = Cells(s)
      BY <2>1, BaseApart DEF Firm
    <2> QED BY <1>1, <1>2, <2>2, SameScope DEF SInv, Untouched
  <1>6. ASSUME NEW s \in Store, s \notin disturbed', InUse(s)
        PROVE  Undisturbed(s)'
    <2>1. Undisturbed(s)
      BY <1>1, <1>6 DEF SInv
    <2>2. Alone(s)' /\ ReadWell(s)'
      BY <1>1, <1>3, <2>1, SameLoad DEF Undisturbed, Alone, ReadWell, NoneSaving
    <2>3. CellSettled(s)'
      BY <1>1, <1>2, <1>3, <2>1, SameLoad DEF Undisturbed, CellSettled, NoneSaving, Firm
    <2>4. Moving(s)'
      <3> SUFFICES ASSUME Loaded(s)', NEW p \in Save, Busy(p, s)', NEW c \in Firm(s)
                   PROVE  OnItsWay(saver[p], c)'
        BY DEF Moving, Firm
      <3>1. OnItsWay(saver[p], c)
        BY <1>1, <1>3, <2>1, SameLoad DEF Undisturbed, Moving
      <3>2. mem'[c] = mem[c]
        BY <1>2
      <3> QED BY <1>1, <3>1, <3>2 DEF OnItsWay
    <2> QED BY <2>2, <2>3, <2>4 DEF Undisturbed
  <1> QED BY <1>1, <1>4, <1>5, <1>6, SameScope DEF SInv

\* At the start of a process nobody saves and every store in use is to load.
LEMMA FreshInv ==
    ASSUME mem = Default, saver = [o \in Save |-> Idling], load = LoadsOf(scope), Untouched
    PROVE  SInv
  <1>1. \A o \in Save : saver[o] = Idling /\ IsTask(saver[o])
    BY DEF IsTask, Idling
  <1>2. load.left = {s \in Store : InUse(s)} /\ DOMAIN load.seen = {}
        /\ load = [left |-> load.left, seen |-> load.seen]
    BY DEF LoadsOf, NoCells, InUse
  <1>3. CellKinds
    BY <1>1, <1>2 DEF CellKinds, IsLoad
  <1>4. \A o \in Save : \A s : ~Busy(o, s)
    BY <1>1 DEF Busy, Idling
  <1>5. \A s \in Store : InUse(s) => ~Loaded(s) /\ ~Loading(s)
    BY <1>2 DEF Loaded, Loading
  <1> QED BY <1>3, <1>4, <1>5 DEF SInv, Undisturbed, Alone, ReadWell, CellSettled, Moving

LEMMA SettingsInitInv ==
    ASSUME SettingsInit
    PROVE  SInv
  <1>1. Untouched
    BY DEF SettingsInit, Untouched
  <1> QED BY <1>1, FreshInv DEF SettingsInit

LEMMA SettingsCrashInv ==
    ASSUME SInv, SettingsCrash
    PROVE  SInv'
  <1>1. /\ mem' = Default /\ saver' = [o \in Save |-> Idling] /\ load' = LoadsOf(scope)'
        /\ UNCHANGED <<table, scope>>
    BY DEF SettingsCrash, LoadsOf
  <1>2. Untouched'
    BY <1>1, SameScope, CellsAreCells DEF SInv, Untouched
  <1>3. \A o \in Save : saver'[o] = Idling /\ IsTask(saver[o])'
    BY <1>1 DEF IsTask, Idling
  <1>4. load'.left = {s \in Store : InUse(s)'} /\ DOMAIN load'.seen = {}
        /\ load' = [left |-> load'.left, seen |-> load'.seen]
    BY <1>1 DEF LoadsOf, NoCells, InUse
  <1>5. CellKinds'
    BY <1>1, <1>3, <1>4 DEF CellKinds, IsLoad
  <1>6. \A o \in Save : \A s : ~Busy(o, s)'
    BY <1>3 DEF Busy, Idling
  <1>7. \A s \in Store : InUse(s)' => ~Loaded(s)' /\ ~Loading(s)'
    BY <1>4 DEF Loaded, Loading
  <1> QED BY <1>2, <1>5, <1>6, <1>7 DEF SInv, Undisturbed, Alone, ReadWell, CellSettled, Moving

\* Every step keeps the invariant.
LEMMA SettingsStepInv ==
    ASSUME SettingsAssumption, SInv, [SettingsNext]_settingVars
    PROVE  SInv'
  <1>1. ASSUME NEW o \in Save, Command(o)
        PROVE  SInv'
    <2>1. PICK c \in Usable : Order(o, c)
      BY <1>1, CommandIsOrder
    <2> QED BY <2>1, BeginInv, EmptySeq DEF Order
  <1>2. ASSUME NEW o \in Save, NEW snap, IsFile(snap), Restore(o, snap)
        PROVE  SInv'
    <2>1. RestoreSteps(snap) \in Seq(Usable) /\ RestoreSteps(snap) # <<>>
      BY <1>2, RestoreUsable DEF Restore
    <2>2. Head(RestoreSteps(snap)) \in Usable /\ Tail(RestoreSteps(snap)) \in Seq(Usable)
      BY <2>1, HeadTailProperties
    <2> QED BY <1>2, <2>2, BeginInv DEF Restore
  <1>3. ASSUME NEW o \in Save, RestoreNext(o)
        PROVE  SInv'
    <2>1. saver[o].todo \in Seq(Usable) /\ saver[o].todo # <<>>
      BY <1>3 DEF RestoreNext, SInv, CellKinds, IsTask
    <2>2. Head(saver[o].todo) \in Usable /\ Tail(saver[o].todo) \in Seq(Usable)
      BY <2>1, HeadTailProperties
    <2> QED BY <1>3, <2>2, BeginInv DEF RestoreNext
  <1>4. CASE UNCHANGED settingVars
    <2>1. UNCHANGED <<mem, table, saver, load, scope, disturbed>>
      BY <1>4 DEF settingVars, settingsVars
    <2>2. CellKinds'
      BY <2>1, IsTaskKept, IsLoadKept DEF SInv, CellKinds
    <2>3. Untouched'
      BY <2>1, SameScope DEF SInv, Untouched
    <2>4. \A s : Undisturbed(s)' <=> Undisturbed(s)
      <3>1. \A o, s : Busy(o, s)' <=> Busy(o, s)
        BY <2>1 DEF Busy
      <3> QED BY <2>1, <3>1, SameLoad DEF Undisturbed, Alone, ReadWell, CellSettled, Moving, NoneSaving, OnItsWay
    <2> QED BY <2>1, <2>2, <2>3, <2>4, SameScope DEF SInv
  <1>5. ASSUME NEW o \in Save, ClockSave(o)
        PROVE  SInv'
    <2>1. Change("clock", NoCells, Rows("clock")) \in Usable
      BY <1>5, SavingUsable DEF ClockSave
    <2> QED BY <1>5, <2>1, BeginInv, EmptySeq DEF ClockSave
  <1> QED BY <1>1, <1>2, <1>3, <1>4, <1>5, ClockBaseInv, ReadRowInv, CommitInv, SaveFailsInv, LoadRowsInv, LoadItemsInv,
             LoadAssignInv, SettingsCrashInv DEF SettingsNext

\* A loaded store that nobody is saving holds what is stored, if its last saves
\* neither overlapped each other or the load nor failed (settings_toggles.py:29-33).
THEOREM SettingsAgree == ASSUME SettingsAssumption PROVE SettingsSpec => []StoresAgree
  <1>1. SInv => StoresAgree
    <2> SUFFICES ASSUME SInv, NEW s \in Store \ disturbed, Loaded(s),
                        \A o \in Save : ~Busy(o, s), NEW c \in Firm(s)
                 PROVE  mem[c] = table[c]
      BY DEF StoresAgree, Firm
    <2>1. CASE InUse(s)
      BY <2>1 DEF SInv, Undisturbed, CellSettled, NoneSaving
    <2>2. CASE ~InUse(s)
      BY <2>2, CellsAreCells DEF SInv, Untouched
    <2> QED BY <2>1, <2>2
  <1>2. SettingsInit => SInv
    BY SettingsInitInv
  <1>3. SInv /\ [SettingsNext]_settingVars => SInv'
    BY SettingsStepInv
  <1> QED BY <1>1, <1>2, <1>3, PTL DEF SettingsSpec

-----------------------------------------------------------------------------
(* A restore.  The changes still before it decide what memory will hold: a *)
(* cell gets v if one of them sets it to v and so do all the later ones.   *)

OnlyTo(q, c, v) == \A j \in DOMAIN q : c \in DOMAIN q[j].set => q[j].set[c] = v

SetsTo(q, c, v) ==
    \E i \in DOMAIN q :
      /\ c \in DOMAIN q[i].set
      /\ \A j \in DOMAIN q : j >= i /\ c \in DOMAIN q[j].set => q[j].set[c] = v

WillBe(q, c, v) == SetsTo(q, c, v) \/ (mem[c] = v /\ OnlyTo(q, c, v))

\* The file decides each cell but the base name: those in it are on, and off the
\* others but the switches of groups that it does not name.
OffIn(snap, s, c) == c \notin snap.on /\ (s # "guard" \/ c[2] \in snap.named)

AsTold(s, c) ==
    LET q == saver[restore.by].todo
    IN  /\ c \in restore.snap.on => WillBe(q, c, TRUE)
        /\ OffIn(restore.snap, s, c) => WillBe(q, c, FALSE)

Told ==
    /\ restore = [by |-> restore.by, snap |-> restore.snap, clean |-> restore.clean]
    /\ restore.clean =>
         /\ restore.by \in Save /\ load.left = {}
         /\ \A p \in Save \ {restore.by} : saver[p].at = "idle"
         /\ \A s \in BackedUp : \A c \in scope \cap Firm(s) : AsTold(s, c)

\* What the parts of a sequence of changes do, the whole does.
LEMMA ConcatSets ==
    ASSUME NEW S, NEW q \in Seq(S), NEW r \in Seq(S), NEW c, NEW v
    PROVE  /\ SetsTo(q, c, v) /\ OnlyTo(r, c, v) => SetsTo(q \o r, c, v)
           /\ SetsTo(r, c, v) => SetsTo(q \o r, c, v)
           /\ OnlyTo(q, c, v) /\ OnlyTo(r, c, v) => OnlyTo(q \o r, c, v)
  <1> DEFINE w == q \o r
  <1>1. Len(q) \in Nat /\ Len(r) \in Nat /\ DOMAIN q = 1..Len(q) /\ DOMAIN r = 1..Len(r)
    BY LenProperties
  <1>2. DOMAIN w = 1..(Len(q) + Len(r))
        /\ \A i \in 1..(Len(q) + Len(r)) : w[i] = IF i <= Len(q) THEN q[i] ELSE r[i - Len(q)]
    BY ConcatProperties, LenProperties
  <1> HIDE DEF w
  <1>3. \A i \in DOMAIN q : i \in DOMAIN w /\ w[i] = q[i]
    BY <1>1, <1>2
  <1>4. \A i \in DOMAIN r : (i + Len(q)) \in DOMAIN w /\ w[i + Len(q)] = r[i]
    BY <1>1, <1>2
  <1>5. \A j \in DOMAIN w : \/ j \in DOMAIN q /\ w[j] = q[j]
                            \/ j > Len(q) /\ (j - Len(q)) \in DOMAIN r /\ w[j] = r[j - Len(q)]
    BY <1>1, <1>2
  <1>6. ASSUME SetsTo(q, c, v), OnlyTo(r, c, v) PROVE SetsTo(w, c, v)
    <2>1. PICK i \in DOMAIN q : /\ c \in DOMAIN q[i].set
                                /\ \A j \in DOMAIN q : j >= i /\ c \in DOMAIN q[j].set => q[j].set[c] = v
      BY <1>6 DEF SetsTo
    <2>2. \A j \in DOMAIN w : j >= i /\ c \in DOMAIN w[j].set => w[j].set[c] = v
      BY <1>5, <1>6, <2>1 DEF OnlyTo
    <2> QED BY <1>3, <2>1, <2>2 DEF SetsTo
  <1>7. ASSUME SetsTo(r, c, v) PROVE SetsTo(w, c, v)
    <2>1. PICK i \in DOMAIN r : /\ c \in DOMAIN r[i].set
                                /\ \A j \in DOMAIN r : j >= i /\ c \in DOMAIN r[j].set => r[j].set[c] = v
      BY <1>7 DEF SetsTo
    <2>2. ASSUME NEW j \in DOMAIN w, j >= i + Len(q), c \in DOMAIN w[j].set PROVE w[j].set[c] = v
      <3>1. j > Len(q) /\ (j - Len(q)) \in DOMAIN r /\ w[j] = r[j - Len(q)] /\ j - Len(q) >= i
        BY <1>1, <1>2, <1>5, <2>1, <2>2
      <3> QED BY <2>1, <2>2, <3>1
    <2>3. (i + Len(q)) \in DOMAIN w /\ c \in DOMAIN w[i + Len(q)].set
      BY <1>4, <2>1
    <2> QED BY <2>2, <2>3 DEF SetsTo
  <1>8. ASSUME OnlyTo(q, c, v), OnlyTo(r, c, v) PROVE OnlyTo(w, c, v)
    BY <1>5, <1>8 DEF OnlyTo
  <1> QED BY <1>6, <1>7, <1>8 DEF w

\* Once the first change is made, the others decide.
LEMMA TailWill ==
    ASSUME NEW S, NEW q \in Seq(S), q # <<>>, NEW c, NEW v, WillBe(q, c, v),
           mem'[c] = IF c \in DOMAIN Head(q).set THEN Head(q).set[c] ELSE mem[c]
    PROVE  SetsTo(Tail(q), c, v) \/ (mem'[c] = v /\ OnlyTo(Tail(q), c, v))
  <1> DEFINE r == Tail(q)
  <1>1. Len(q) \in Nat \ {0} /\ DOMAIN q = 1..Len(q) /\ Head(q) = q[1]
    BY LenProperties, EmptySeq
  <1>2. DOMAIN r = 1..(Len(q) - 1) /\ \A i \in 1..(Len(q) - 1) : r[i] = q[i + 1]
    BY <1>1, HeadTailProperties, LenProperties
  <1> HIDE DEF r
  <1>3. \A j \in DOMAIN r : (j + 1) \in DOMAIN q /\ r[j] = q[j + 1]
    BY <1>1, <1>2
  <1>4. 1 \in DOMAIN q
    BY <1>1
  <1>5. CASE mem[c] = v /\ OnlyTo(q, c, v)
    <2>1. mem'[c] = v
      BY <1>1, <1>4, <1>5 DEF OnlyTo
    <2>2. OnlyTo(r, c, v)
      BY <1>3, <1>5 DEF OnlyTo
    <2> QED BY <2>1, <2>2 DEF r
  <1>6. CASE SetsTo(q, c, v)
    <2>1. PICK i \in DOMAIN q : /\ c \in DOMAIN q[i].set
                                /\ \A j \in DOMAIN q : j >= i /\ c \in DOMAIN q[j].set => q[j].set[c] = v
      BY <1>6 DEF SetsTo
    <2>2. CASE i = 1
      <3>1. mem'[c] = v
        BY <1>1, <1>4, <2>1, <2>2
      <3>2. \A j \in DOMAIN r : j + 1 >= i
        BY <1>1, <1>2, <2>2
      <3>3. OnlyTo(r, c, v)
        BY <1>3, <2>1, <3>2 DEF OnlyTo
      <3> QED BY <3>1, <3>3 DEF r
    <2>3. CASE i # 1
      <3>1. (i - 1) \in DOMAIN r /\ r[i - 1] = q[i]
        BY <1>1, <1>2, <2>3
      <3>2. ASSUME NEW j \in DOMAIN r, j >= i - 1, c \in DOMAIN r[j].set
            PROVE  r[j].set[c] = v
        <4>1. j + 1 >= i
          BY <1>1, <1>2, <3>2
        <4> QED BY <1>3, <2>1, <3>2, <4>1
      <3>3. SetsTo(r, c, v)
        BY <2>1, <3>1, <3>2 DEF SetsTo
      <3> QED BY <3>3 DEF r
    <2> QED BY <2>2, <2>3
  <1> QED BY <1>5, <1>6 DEF WillBe

\* Two sequences of changes of one store, one after the other.
LEMMA ConcatStores ==
    ASSUME NEW S, NEW q \in Seq(S), NEW r \in Seq(S), NEW t,
           \A i \in DOMAIN q : q[i].store = t, \A i \in DOMAIN r : r[i].store = t
    PROVE  \A i \in DOMAIN (q \o r) : (q \o r)[i].store = t
  <1> DEFINE w == q \o r
  <1>1. Len(q) \in Nat /\ Len(r) \in Nat /\ DOMAIN q = 1..Len(q) /\ DOMAIN r = 1..Len(r)
    BY LenProperties
  <1>2. DOMAIN w = 1..(Len(q) + Len(r))
        /\ \A i \in 1..(Len(q) + Len(r)) : w[i] = IF i <= Len(q) THEN q[i] ELSE r[i - Len(q)]
    BY ConcatProperties, LenProperties
  <1> HIDE DEF w
  <1>3. \A j \in DOMAIN w : \/ j \in DOMAIN q /\ w[j] = q[j]
                            \/ (j - Len(q)) \in DOMAIN r /\ w[j] = r[j - Len(q)]
    BY <1>1, <1>2
  <1>4. \A j \in DOMAIN w : w[j].store = t
    BY <1>3
  <1> QED BY <1>4 DEF w

\* The part of a restore that is about another store leaves a cell alone.
LEMMA PartApart ==
    ASSUME SettingsAssumption, NEW snap, IsFile(snap),
           NEW s \in BackedUp, NEW c \in Cells(s), NEW v,
           NEW t \in BackedUp \ {s}
    PROVE  OnlyTo(Part(t, snap), c, v)
  <1>1. Part(t, snap) \in Seq(Usable) /\ s \in Store /\ t \in Store
    BY PartUsable DEF BackedUp, Store
  <1>2. \A i \in DOMAIN Part(t, snap) : Part(t, snap)[i] \in Usable
    BY <1>1, LenProperties, ElementOfSeq
  <1>3. \A i \in DOMAIN Part(t, snap) : Part(t, snap)[i].store = t
    <2>1. CASE ~InUse(t)
      BY <2>1 DEF Part
    <2>2. CASE InUse(t)
      <3>1. Restored(t, snap).store = t /\ Clearing(t).store = t
        BY DEF Restored, Clearing, Change
      <3>2. ASSUME NEW C \in SUBSET ({t} \X Listed), t = "guard" \/ t = "post"
            PROVE  /\ Adding(C) \in Seq(Usable)
                   /\ \A i \in DOMAIN Adding(C) : Adding(C)[i].store = t
        <4>1. /\ Adding(C) \in Seq(Usable)
              /\ \A i \in DOMAIN Adding(C) : \E d \in C : Adding(C)[i] = TurnOn(d)
          BY <1>1, <2>2, <3>2, AddingUsable
        <4>2. \A d \in C : TurnOn(d).store = t
          BY DEF TurnOn, ItemChange, Change
        <4> QED BY <4>1, <4>2
      <3>4. CASE t = "guard"
        <4> DEFINE a == Adding(snap.on \cap ({t} \X Listed))
                   g == Greeting(snap)
        <4>1. Part(t, snap) = a \o g
          BY <2>2, <3>4 DEF Part
        <4>2. a \in Seq(Usable) /\ \A i \in DOMAIN a : a[i].store = t
          BY <3>2, <3>4
        <4>3. /\ g \in Seq(Usable)
              /\ \A i \in DOMAIN g : \E n \in snap.named : g[i] = Turned(n, snap)
          BY <2>2, <3>4, GreetingUsable
        <4>4. \A n \in snap.named : Turned(n, snap).store = t
          BY <3>4 DEF Turned, ItemChange, Change
        <4>5. \A i \in DOMAIN g : g[i].store = t
          BY <4>3, <4>4
        <4> HIDE DEF a, g
        <4> QED BY <4>1, <4>2, <4>3, <4>5, ConcatStores
      <3>5. CASE t = "post"
        <4> DEFINE a == Adding(snap.on \cap Items(t))
                   b == <<Restored(t, snap), Clearing(t)>>
        <4>1. Part(t, snap) = b \o a
          BY <2>2, <3>5 DEF Part
        <4>2. Restored(t, snap) \in Usable /\ Clearing(t) \in Usable
          BY <1>1, <2>2, RestoredChanges, ClearingChanges DEF Usable, Restored, Clearing, Change
        <4>3. b \in Seq(Usable) /\ \A i \in DOMAIN b : b[i].store = t
          BY <3>1, <4>2
        <4>4. Items(t) = {t} \X Listed
          BY <3>5 DEF Items, Item
        <4>5. a \in Seq(Usable) /\ \A i \in DOMAIN a : a[i].store = t
          BY <3>2, <3>5, <4>4
        <4> HIDE DEF a, b
        <4> QED BY <4>1, <4>3, <4>5, ConcatStores
      <3>3. CASE t # "guard" /\ t # "post"
        <4>1. Part(t, snap) = <<Restored(t, snap)>>
          BY <2>2, <3>3 DEF Part
        <4> QED BY <3>1, <4>1
      <3> QED BY <3>3, <3>4, <3>5
    <2> QED BY <2>1, <2>2
  <1>4. c \notin Cells(t)
    BY <1>1, CellsApart
  <1>5. \A i \in DOMAIN Part(t, snap) : c \notin DOMAIN Part(t, snap)[i].set
    BY <1>2, <1>3, <1>4 DEF Usable, Changes
  <1> QED BY <1>5 DEF OnlyTo

\* The part about its own store decides it.
LEMMA PartTells ==
    ASSUME SettingsAssumption, NEW snap, IsFile(snap),
           NEW s \in BackedUp, NEW c \in scope \cap Firm(s), NEW v,
           \/ v = TRUE /\ c \in snap.on
           \/ v = FALSE /\ OffIn(snap, s, c)
    PROVE  SetsTo(Part(s, snap), c, v)
  <1>1. s \in Store /\ InUse(s) /\ Cells(s) = Rows(s) \cup Items(s) /\ c \in Cells(s) /\ c # Base
    BY DEF BackedUp, Store, InUse, Cells, Firm
  <1>0. (c \in snap.on) = v
    <2>1. CASE v = TRUE /\ c \in snap.on
      <3>1. (c \in snap.on) = TRUE
        BY <2>1
      <3> QED BY <2>1, <3>1
    <2>2. CASE v = FALSE /\ c \notin snap.on
      <3>1. (c \in snap.on) = FALSE
        BY <2>2
      <3> QED BY <2>2, <3>1
    <2> QED BY <2>1, <2>2 DEF OffIn
  <1>2. DOMAIN Restored(s, snap).set \subseteq Rows(s)
        /\ (c \in Rows(s) => c \in DOMAIN Restored(s, snap).set /\ Restored(s, snap).set[c] = v)
    <2> DEFINE D == Rows(s) \ ({Base} \ snap.on)
    <2>1. Restored(s, snap).set = [d \in D |-> d \in snap.on]
      BY DEF Restored, Change
    <2>2. D \subseteq Rows(s) /\ (c \in Rows(s) => c \in D)
      BY <1>1
    <2> HIDE DEF D
    <2>3. c \in D => Restored(s, snap).set[c] = (c \in snap.on)
      BY <2>1
    <2>4. DOMAIN Restored(s, snap).set = D
      BY <2>1
    <2> QED BY <1>0, <2>2, <2>3, <2>4, Zenon
  <1>3. DOMAIN Clearing(s).set = Items(s) /\ (c \in Items(s) => Clearing(s).set[c] = FALSE)
    BY DEF Clearing, Change
  <1>4. PICK C \in SUBSET ({s} \X Listed) : C = snap.on \cap ({s} \X Listed)
    OBVIOUS
  <1> DEFINE a == Adding(C)
             b == <<Restored(s, snap), Clearing(s)>>
  <1>5. \A d \in {s} \X Listed : /\ DOMAIN TurnOn(d).set = {d}
                                 /\ TurnOn(d).set[d] = TRUE
    <2> SUFFICES ASSUME NEW d \in {s} \X Listed
                 PROVE  TurnOn(d).set = [e \in {d} |-> TRUE]
      OBVIOUS
    <2>1. d = <<d[1], d[2]>>
      OBVIOUS
    <2> QED BY <2>1 DEF TurnOn, ItemChange, Change
  <1>6. ASSUME s = "post" \/ s = "guard"
        PROVE  /\ a \in Seq(Usable)
               /\ OnlyTo(a, c, v)
               /\ c \in C => SetsTo(a, c, v)
    <2>1. /\ a \in Seq(Usable)
          /\ \A i \in DOMAIN a : \E d \in C : a[i] = TurnOn(d)
          /\ \A d \in C : \E i \in DOMAIN a : a[i] = TurnOn(d)
      BY <1>1, <1>6, AddingUsable
    <2> HIDE DEF a
    <2>2. \A i \in DOMAIN a : c \in DOMAIN a[i].set => c \in snap.on /\ a[i].set[c] = TRUE
      <3> SUFFICES ASSUME NEW i \in DOMAIN a, c \in DOMAIN a[i].set
                   PROVE  c \in snap.on /\ a[i].set[c] = TRUE
        OBVIOUS
      <3>1. PICK d \in C : a[i] = TurnOn(d)
        BY <2>1
      <3>2. DOMAIN a[i].set = {d} /\ a[i].set[d] = TRUE
        BY <1>5, <3>1, Zenon
      <3>3. c = d /\ c \in snap.on
        BY <1>4, <3>1, <3>2
      <3> QED BY <3>2, <3>3, Zenon
    <2>3. OnlyTo(a, c, v)
      BY <1>0, <2>2 DEF OnlyTo
    <2>4. ASSUME c \in C PROVE SetsTo(a, c, v)
      <3>1. PICK i \in DOMAIN a : c \in DOMAIN a[i].set
        BY <1>5, <2>1, <2>4
      <3> QED BY <2>3, <3>1 DEF SetsTo, OnlyTo
    <2> QED BY <2>1, <2>3, <2>4
  <1>7. CASE s = "guard"
    <2> DEFINE g == Greeting(snap)
    <2>1. Part(s, snap) = a \o g /\ Rows(s) = {}
      BY <1>1, <1>4, <1>7 DEF Part, Rows, Row
    <2>2. /\ g \in Seq(Usable)
          /\ \A i \in DOMAIN g : \E n \in snap.named : g[i] = Turned(n, snap)
          /\ \A n \in snap.named : \E i \in DOMAIN g : g[i] = Turned(n, snap)
      BY <1>1, <1>7, GreetingUsable
    <2>3. PICK n \in Listed \cup Greeted : c = <<s, n>>
      BY <1>1, <1>7, <2>1 DEF Items, Item
    <2>4. \A m : DOMAIN Turned(m, snap).set = {<<s, m>>}
                /\ Turned(m, snap).set[<<s, m>>] = (<<s, m>> \in snap.on)
      BY <1>7 DEF Turned, ItemChange, Change
    <2>5. a \in Seq(Usable) /\ (c \in C => SetsTo(a, c, v))
      BY <1>6, <1>7
    <2> HIDE DEF a, g
    <2>6. \A i \in DOMAIN g : c \in DOMAIN g[i].set => n \in snap.named /\ g[i].set[c] = v
      <3> SUFFICES ASSUME NEW i \in DOMAIN g, c \in DOMAIN g[i].set
                   PROVE  n \in snap.named /\ g[i].set[c] = v
        OBVIOUS
      <3>1. PICK m \in snap.named : g[i] = Turned(m, snap)
        BY <2>2
      <3>2. c = <<s, m>>
        BY <2>4, <3>1, Zenon
      <3>3. m = n
        BY <2>3, <3>2
      <3> QED BY <1>0, <2>4, <3>1, <3>2, <3>3, Zenon
    <2>7. OnlyTo(g, c, v)
      BY <2>6 DEF OnlyTo
    <2>8. CASE n \in snap.named
      <3>1. PICK i \in DOMAIN g : g[i] = Turned(n, snap)
        BY <2>2, <2>8
      <3>2. c \in DOMAIN g[i].set
        BY <2>3, <2>4, <3>1
      <3>3. SetsTo(g, c, v)
        BY <2>7, <3>2 DEF SetsTo, OnlyTo
      <3> QED BY <2>1, <2>2, <2>5, <3>3, ConcatSets
    <2>9. CASE n \notin snap.named
      <3>1. c \in snap.on
        BY <1>7, <2>3, <2>9 DEF OffIn
      <3>2. n \in Listed
        BY <1>7, <2>3, <2>9, <3>1 DEF IsFile
      <3>3. c \in C
        BY <1>4, <2>3, <3>1, <3>2
      <3> QED BY <2>1, <2>2, <2>5, <2>7, <3>3, ConcatSets
    <2> QED BY <2>8, <2>9
  <1>8. CASE s = "post"
    <2>0. Items(s) = {s} \X Listed
      BY <1>8 DEF Items, Item
    <2>1. Part(s, snap) = b \o a
      BY <1>1, <1>4, <1>8, <2>0 DEF Part
    <2>2. Restored(s, snap) \in Usable /\ Clearing(s) \in Usable
      BY <1>1, RestoredChanges, ClearingChanges DEF Usable, Restored, Clearing, Change
    <2>3. b \in Seq(Usable) /\ DOMAIN b = {1, 2} /\ b[1] = Restored(s, snap) /\ b[2] = Clearing(s)
      BY <2>2
    <2>4. CASE c \in C
      <3>1. a \in Seq(Usable) /\ SetsTo(a, c, v)
        BY <1>6, <1>8, <2>4
      <3> QED BY <2>1, <2>3, <3>1, ConcatSets
    <2>5. CASE c \notin C
      <3>1. SetsTo(b, c, v)
        <4>1. CASE c \in Items(s)
          <5>1. v = FALSE
            BY <1>4, <2>0, <2>5, <4>1
          <5>2. 2 \in DOMAIN b /\ c \in DOMAIN b[2].set
                /\ \A j \in DOMAIN b : j >= 2 /\ c \in DOMAIN b[j].set => b[j].set[c] = v
            BY <1>2, <1>3, <2>3, <4>1, <5>1
          <5> QED BY <5>2 DEF SetsTo
        <4>2. CASE c \notin Items(s)
          <5>1. c \in Rows(s)
            BY <1>1, <4>2
          <5>2. 1 \in DOMAIN b /\ c \in DOMAIN b[1].set
                /\ \A j \in DOMAIN b : j >= 1 /\ c \in DOMAIN b[j].set => b[j].set[c] = v
            BY <1>2, <1>3, <2>3, <4>2, <5>1
          <5> QED BY <5>2 DEF SetsTo
        <4> QED BY <4>1, <4>2
      <3>2. a \in Seq(Usable) /\ OnlyTo(a, c, v)
        BY <1>6, <1>8
      <3> QED BY <2>1, <2>3, <3>1, <3>2, ConcatSets
    <2> QED BY <2>4, <2>5
  <1>9. CASE s # "guard" /\ s # "post"
    <2>1. Part(s, snap) = <<Restored(s, snap)>>
      BY <1>1, <1>9 DEF Part
    <2>2. Items(s) = {}
      BY <1>9 DEF Items, Item, BackedUp
    <2>3. c \in Rows(s)
      BY <1>1, <2>2
    <2>4. DOMAIN Part(s, snap) = {1} /\ Part(s, snap)[1] = Restored(s, snap)
      BY <2>1
    <2>5. 1 \in DOMAIN Part(s, snap) /\ c \in DOMAIN Part(s, snap)[1].set
          /\ \A j \in DOMAIN Part(s, snap) :
               j >= 1 /\ c \in DOMAIN Part(s, snap)[j].set => Part(s, snap)[j].set[c] = v
      BY <1>2, <2>3, <2>4
    <2> QED BY <2>5 DEF SetsTo
  <1> QED BY <1>7, <1>8, <1>9

\* The steps of a restore decide every cell in use as the file says.
LEMMA StepsAsTold ==
    ASSUME SettingsAssumption, NEW snap, IsFile(snap),
           NEW s \in BackedUp, NEW c \in scope \cap Firm(s), NEW v,
           \/ v = TRUE /\ c \in snap.on
           \/ v = FALSE /\ OffIn(snap, s, c)
    PROVE  SetsTo(RestoreSteps(snap), c, v)
  <1> DEFINE p == Part("post", snap)
             f == Part("font", snap)
             k == Part("clock", snap)
             g == Part("guard", snap)
  <1>1. SetsTo(Part(s, snap), c, v)
    BY PartTells
  <1>2. \A t \in BackedUp \ {s} : OnlyTo(Part(t, snap), c, v)
    <2>1. c \in Cells(s)
      BY DEF Firm
    <2> QED BY <2>1, PartApart
  <1>3. p \in Seq(Usable) /\ f \in Seq(Usable) /\ k \in Seq(Usable) /\ g \in Seq(Usable)
    BY PartUsable DEF BackedUp
  <1>4. RestoreSteps(snap) = p \o f \o k \o g
    BY RestoreParts
  <1>5. p \o f \in Seq(Usable) /\ p \o f \o k \in Seq(Usable)
    BY <1>3, ConcatProperties
  <1>6. CASE s = "post"
    <2>1. SetsTo(p, c, v) /\ OnlyTo(f, c, v) /\ OnlyTo(k, c, v) /\ OnlyTo(g, c, v)
      BY <1>1, <1>2, <1>6 DEF BackedUp
    <2> HIDE DEF p, f, k, g
    <2>2. SetsTo(p \o f, c, v)
      BY <1>3, <2>1, ConcatSets
    <2>3. SetsTo(p \o f \o k, c, v)
      BY <1>3, <1>5, <2>1, <2>2, ConcatSets
    <2> QED BY <1>3, <1>4, <1>5, <2>1, <2>3, ConcatSets
  <1>7. CASE s = "font"
    <2>1. SetsTo(f, c, v) /\ OnlyTo(k, c, v) /\ OnlyTo(g, c, v)
      BY <1>1, <1>2, <1>7 DEF BackedUp
    <2> HIDE DEF p, f, k, g
    <2>2. SetsTo(p \o f, c, v)
      BY <1>3, <2>1, ConcatSets
    <2>3. SetsTo(p \o f \o k, c, v)
      BY <1>3, <1>5, <2>1, <2>2, ConcatSets
    <2> QED BY <1>3, <1>4, <1>5, <2>1, <2>3, ConcatSets
  <1>8. CASE s = "clock"
    <2>1. SetsTo(k, c, v) /\ OnlyTo(g, c, v)
      BY <1>1, <1>2, <1>8 DEF BackedUp
    <2> HIDE DEF p, f, k, g
    <2>3. SetsTo(p \o f \o k, c, v)
      BY <1>3, <1>5, <2>1, ConcatSets
    <2> QED BY <1>3, <1>4, <1>5, <2>1, <2>3, ConcatSets
  <1>9. CASE s = "guard"
    <2>1. SetsTo(g, c, v)
      BY <1>1, <1>9 DEF BackedUp
    <2> HIDE DEF p, f, k, g
    <2> QED BY <1>3, <1>4, <1>5, <2>1, ConcatSets
  <1> QED BY <1>6, <1>7, <1>8, <1>9 DEF BackedUp

\* A change of no task but the restore's keeps what the file says.
LEMMA BeginTold ==
    ASSUME SInv, NEW o \in Save, NEW q \in Seq(Usable), q # <<>>, Begin(o, Head(q), Tail(q)),
           NEW x \in Cell, NEW v, WillBe(q, x, v)
    PROVE  WillBe(Tail(q), x, v)'
  <1>1. mem'[x] = IF x \in DOMAIN Head(q).set THEN Head(q).set[x] ELSE mem[x]
    BY DEF Begin, With
  <1>2. SetsTo(Tail(q), x, v) \/ (mem'[x] = v /\ OnlyTo(Tail(q), x, v))
    BY <1>1, TailWill
  <1> QED BY <1>2 DEF WillBe, SetsTo, OnlyTo

\* Nothing but a restore that meets nothing else leaves the claim standing, and
\* its steps keep what they were told.
LEMMA ToldStep ==
    ASSUME SettingsAssumption, SInv, Told, [SettingsNext]_settingVars
    PROVE  Told'
  <1>1. restore = [by |-> restore.by, snap |-> restore.snap, clean |-> restore.clean]
    BY DEF Told
  <1>2. ASSUME restore' = [restore EXCEPT !.clean = FALSE] \/ restore' = NoRestore
        PROVE  Told'
    BY <1>1, <1>2 DEF Told, NoRestore
  <1>3. ASSUME UNCHANGED <<restore, load, scope, mem>>, UNCHANGED saver
        PROVE  Told'
    <2>1. \A q, c, v : WillBe(q, c, v)' <=> WillBe(q, c, v)
      BY <1>3 DEF WillBe, SetsTo, OnlyTo
    <2> QED BY <1>3, <2>1 DEF Told, AsTold, Firm, OffIn
  <1>4. ASSUME NEW o \in Save, Command(o) PROVE Told'
    <2>1. PICK c \in Usable : Order(o, c)
      BY <1>4, CommandIsOrder
    <2> QED BY <1>2, <2>1 DEF Order
  <1>5. ASSUME NEW o \in Save, NEW snap, IsFile(snap), Restore(o, snap) PROVE Told'
    <2>1. restore' = [by |-> o, snap |-> snap,
                      clean |-> load.left = {} /\ \A p \in Save : saver[p].at = "idle"]
      BY <1>5 DEF Restore
    <2>2. restore'.by = o /\ restore'.snap = snap
          /\ (restore'.clean => load.left = {} /\ \A p \in Save : saver[p].at = "idle")
          /\ restore' = [by |-> restore'.by, snap |-> restore'.snap, clean |-> restore'.clean]
      BY <2>1
    <2>3. PICK q : q = RestoreSteps(snap)
      OBVIOUS
    <2>4. q \in Seq(Usable) /\ q # <<>> /\ Begin(o, Head(q), Tail(q))
      BY <1>5, <2>3, RestoreUsable DEF Restore
    <2>5. Head(q) \in Usable /\ saver = [p \in Save |-> saver[p]]
      BY <2>4, HeadTailProperties DEF SInv, CellKinds
    <2>6. UNCHANGED <<load, scope>> /\ \A p \in Save \ {o} : saver'[p] = saver[p]
      BY <2>4, <2>5 DEF Begin
    <2>7. ASSUME NEW s \in BackedUp, NEW x \in scope \cap Firm(s)
          PROVE  AsTold(s, x)'
      <3>1. x \in snap.on => WillBe(q, x, TRUE)
        BY <1>5, <2>3, StepsAsTold DEF WillBe
      <3>2. OffIn(snap, s, x) => WillBe(q, x, FALSE)
        BY <1>5, <2>3, StepsAsTold DEF WillBe
      <3>3. x \in Cell /\ saver'[o].todo = Tail(q)
        BY <2>4, <2>5, CellsAreCells DEF Begin, BackedUp, Store
      <3>4. ASSUME x \in snap.on PROVE WillBe(Tail(q), x, TRUE)'
        BY <2>4, <3>1, <3>3, <3>4, BeginTold
      <3>5. ASSUME OffIn(snap, s, x) PROVE WillBe(Tail(q), x, FALSE)'
        BY <2>4, <3>2, <3>3, <3>5, BeginTold
      <3> QED BY <2>2, <3>3, <3>4, <3>5 DEF AsTold, WillBe, SetsTo, OnlyTo, OffIn
    <2> QED BY <2>2, <2>6, <2>7 DEF Told, Firm
  <1>6. ASSUME NEW o \in Save, RestoreNext(o) PROVE Told'
    <2>1. UNCHANGED restore
      BY <1>6 DEF RestoreNext
    <2>2. CASE ~restore.clean
      BY <2>1, <2>2 DEF Told
    <2>3. CASE restore.clean
      <3>1. o = restore.by
        BY <1>6, <2>3 DEF Told, RestoreNext
      <3>2. PICK q : q = saver[o].todo
        OBVIOUS
      <3>3. q \in Seq(Usable) /\ q # <<>> /\ Begin(o, Head(q), Tail(q))
        BY <1>6, <3>2 DEF RestoreNext, SInv, CellKinds, IsTask
      <3>4. Head(q) \in Usable /\ saver = [p \in Save |-> saver[p]]
        BY <3>3, HeadTailProperties DEF SInv, CellKinds
      <3>5. UNCHANGED <<load, scope>> /\ \A p \in Save \ {o} : saver'[p] = saver[p]
        BY <3>3, <3>4 DEF Begin
      <3>6. ASSUME NEW s \in BackedUp, NEW x \in scope \cap Firm(s)
            PROVE  AsTold(s, x)'
        <4>1. PICK snap : snap = restore.snap
          OBVIOUS
        <4>2. x \in snap.on => WillBe(q, x, TRUE)
          BY <2>3, <3>1, <3>2, <4>1 DEF Told, AsTold
        <4>3. OffIn(snap, s, x) => WillBe(q, x, FALSE)
          BY <2>3, <3>1, <3>2, <4>1 DEF Told, AsTold
        <4>4. x \in Cell /\ saver'[o].todo = Tail(q)
          BY <3>3, <3>4, CellsAreCells DEF Begin, BackedUp, Store
        <4>5. ASSUME x \in snap.on PROVE WillBe(Tail(q), x, TRUE)'
          BY <3>3, <4>2, <4>4, <4>5, BeginTold
        <4>6. ASSUME OffIn(snap, s, x) PROVE WillBe(Tail(q), x, FALSE)'
          BY <3>3, <4>3, <4>4, <4>6, BeginTold
        <4> QED BY <2>1, <3>1, <4>1, <4>4, <4>5, <4>6 DEF AsTold, WillBe, SetsTo, OnlyTo, OffIn
      <3> QED BY <2>1, <2>3, <3>1, <3>5, <3>6 DEF Told, Firm
    <2> QED BY <2>2, <2>3
  <1>7. ASSUME NEW o \in Save, ReadRow(o) \/ CommitSave(o) PROVE Told'
    <2>1. UNCHANGED <<restore, mem, load, scope>>
      BY <1>7 DEF ReadRow, CommitSave
    <2>2. saver = [p \in Save |-> saver[p]] /\ IsTask(saver[o])
      BY DEF SInv, CellKinds
    <2>3. saver'[o].todo = saver[o].todo
      <3>1. CASE ReadRow(o)
        <4>1. saver'[o] = [saver[o] EXCEPT !.at = "read",
                                           !.seen = [c \in DOMAIN saver[o].tx |-> table[c]]]
          BY <2>2, <3>1 DEF ReadRow
        <4> QED BY <2>2, <4>1 DEF IsTask
      <3>2. CASE CommitSave(o)
        <4>1. saver'[o] = IF saver[o].todo = <<>> THEN Idling
                          ELSE [saver[o] EXCEPT !.at = "next", !.tx = NoCells, !.seen = NoCells]
          BY <2>2, <3>2 DEF CommitSave
        <4> QED BY <2>2, <4>1 DEF IsTask, Idling
      <3> QED BY <1>7, <3>1, <3>2
    <2>4. \A p \in Save \ {o} : saver'[p] = saver[p]
      BY <1>7, <2>2 DEF ReadRow, CommitSave
    <2>5. \A p \in Save : saver'[p].todo = saver[p].todo
      BY <2>3, <2>4
    <2>6. \A q, c, v : WillBe(q, c, v)' <=> WillBe(q, c, v)
      BY <2>1 DEF WillBe, SetsTo, OnlyTo
    <2>7. saver[o].at # "idle"
      BY <1>7 DEF ReadRow, CommitSave
    <2> QED BY <2>1, <2>4, <2>5, <2>6, <2>7 DEF Told, AsTold, Firm, OffIn
  <1>8. ASSUME NEW o \in Save, SaveFails(o) PROVE Told'
    <2>1. CASE restore.by = o
      BY <1>2, <1>8, <2>1 DEF SaveFails
    <2>2. CASE restore.by # o
      <3>1. UNCHANGED restore
        BY <1>8, <2>2 DEF SaveFails
      <3>2. ~restore.clean
        BY <1>8, <2>2 DEF Told, SaveFails
      <3> QED BY <3>1, <3>2 DEF Told
    <2> QED BY <2>1, <2>2
  <1>9. ASSUME LoadRows \/ LoadItems \/ LoadAssign PROVE Told'
    <2>1. UNCHANGED restore /\ load.left # {}
      BY <1>9 DEF LoadRows, LoadItems, LoadAssign, First
    <2> QED BY <2>1 DEF Told
  <1>10. ASSUME SettingsCrash PROVE Told'
    BY <1>2, <1>10 DEF SettingsCrash
  <1>11. CASE UNCHANGED settingVars
    BY <1>3, <1>11 DEF settingVars, settingsVars
  <1>12. ASSUME NEW o \in Save, ClockSave(o) PROVE Told'
    BY <1>2, <1>12 DEF ClockSave
  <1>13. ASSUME NEW v \in BOOLEAN, ClockBase(v) PROVE Told'
    <2>1. UNCHANGED <<restore, load, scope, saver>>
      BY <1>13 DEF ClockBase
    <2>2. \A s \in BackedUp : \A c \in scope \cap Firm(s) : mem'[c] = mem[c]
      <3> SUFFICES ASSUME NEW s \in BackedUp, NEW c \in scope \cap Firm(s) PROVE mem'[c] = mem[c]
        OBVIOUS
      <3>1. c \in Cell /\ c # Base
        BY CellsAreCells DEF Firm, BackedUp, Store
      <3> QED BY <1>13, <3>1 DEF ClockBase, With
    <2>3. ASSUME NEW s \in BackedUp, NEW c \in scope \cap Firm(s), NEW q, NEW w, WillBe(q, c, w)
          PROVE  WillBe(q, c, w)'
      <3>1. mem'[c] = mem[c]
        BY <2>2
      <3> QED BY <2>3, <3>1 DEF WillBe, SetsTo, OnlyTo
    <2>4. ASSUME NEW s \in BackedUp, NEW c \in scope \cap Firm(s), AsTold(s, c)
          PROVE  AsTold(s, c)'
      BY <2>1, <2>3, <2>4 DEF AsTold, OffIn
    <2> QED BY <2>1, <2>4 DEF Told, Firm
  <1> QED BY <1>4, <1>5, <1>6, <1>7, <1>8, <1>9, <1>10, <1>11, <1>12, <1>13 DEF SettingsNext

\* A restore that ended, and that nothing else met, left memory and table as the
\* file says (backup.py:88-174).
THEOREM RestoresExactly == ASSUME SettingsAssumption PROVE SettingsSpec => []RestoreExact
  <1>1. SInv /\ Told => RestoreExact
    <2> SUFFICES ASSUME SInv, Told, restore.clean, saver[restore.by].at = "idle", disturbed = {},
                        NEW s \in BackedUp, NEW c \in scope \cap Firm(s)
                 PROVE  /\ mem[c] = table[c]
                        /\ c \in restore.snap.on => mem[c]
                        /\ mem[c] => \/ c \in restore.snap.on
                                     \/ s = "guard" /\ c[2] \notin restore.snap.named
      BY DEF RestoreExact, Firm
    <2>1. saver[restore.by].todo = <<>> /\ load.left = {} /\ \A p \in Save : saver[p].at = "idle"
      BY DEF Told, SInv, CellKinds, IsTask
    <2>2. s \in Store /\ InUse(s)
      BY DEF BackedUp, Store, InUse, Cells, Firm
    <2>3. mem[c] = table[c]
      BY <2>1, <2>2 DEF SInv, Undisturbed, CellSettled, Loaded, NoneSaving, Busy
    <2>4. \A v : WillBe(<<>>, c, v) => mem[c] = v
      BY DEF WillBe, SetsTo
    <2>5. c \in restore.snap.on => mem[c] = TRUE
      BY <2>1, <2>4, Zenon DEF Told, AsTold
    <2>6. OffIn(restore.snap, s, c) => mem[c] = FALSE
      BY <2>1, <2>4, Zenon DEF Told, AsTold
    <2> QED BY <2>3, <2>5, <2>6, Zenon DEF OffIn
  <1>2. SettingsInit => SInv /\ Told
    BY SettingsInitInv DEF SettingsInit, Told, NoRestore
  <1>3. SInv /\ Told /\ [SettingsNext]_settingVars => SInv' /\ Told'
    BY SettingsStepInv, ToldStep
  <1> QED BY <1>1, <1>2, <1>3, PTL DEF SettingsSpec

-----------------------------------------------------------------------------
(* The statistics.                                                         *)

StatsNext ==
    \/ \E c \in StatChat : RecordMessage(c)
    \/ \E b \in BOOLEAN : StatsSwitch(b)
    \/ \E s \in Saver :
         \/ SaveBegin(s) \/ SaveTotals(s) \/ SaveChats(s)
         \/ SaveRow(s) \/ SaveCommit(s) \/ SaveRaises(s)
         \/ ResetMemory(s) \/ ResetCommit(s)
    \/ StatsLoadTotals \/ StatsLoad \/ StatsCrash

StatsSpec == EnvInit /\ StatsInit /\ [][StatsNext]_<<envVars, statsVars>>

-----------------------------------------------------------------------------
(* Sums, as the sizes of sets of single messages.                          *)

Messages(d) == UNION {{c} \X (1..d[c]) : c \in DOMAIN d}
Counter(d)  == d \in [DOMAIN d -> Nat] /\ IsFiniteSet(DOMAIN d)

\* Finitely many entries add up to a number.
LEMMA SumsAreNumbers ==
    ASSUME NEW d, Counter(d)
    PROVE  IsFiniteSet(Messages(d)) /\ SumOf(d) \in Nat
  <1> DEFINE T == {{c} \X (1..d[c]) : c \in DOMAIN d}
             of(c) == {c} \X (1..d[c])
  <1>1. ASSUME NEW c \in DOMAIN d
        PROVE  IsFiniteSet(of(c))
    <2>1. d[c] \in Nat
      BY DEF Counter
    <2>2. IsFiniteSet({c})
      BY FS_Singleton
    <2>3. \A n \in Nat : IsFiniteSet(1..n)
      BY FS_Interval
    <2>4. IsFiniteSet(1..d[c])
      BY <2>1, <2>3
    <2> QED BY <2>2, <2>4, FS_Product
  <1>2. IsFiniteSet(T)
    <2> DEFINE f == [c \in DOMAIN d |-> of(c)]
    <2>1. f \in Surjection(DOMAIN d, T)
      BY DEF Surjection
    <2> HIDE DEF f, T
    <2> QED BY <2>1, FS_Surjection DEF Counter
  <1>3. \A S \in T : IsFiniteSet(S)
    BY <1>1
  <1> HIDE DEF T, of
  <1>4. IsFiniteSet(UNION T)
    BY <1>2, <1>3, FS_UNION
  <1>5. IsFiniteSet(Messages(d))
    BY <1>4 DEF Messages, T
  <1> QED BY <1>5, FS_CardinalityType DEF SumOf, Messages

\* More entries, none of them less, add up to no less.
LEMMA SumsGrow ==
    ASSUME NEW d, NEW e, Counter(d), Counter(e), DOMAIN d \subseteq DOMAIN e,
           \A c \in DOMAIN d : d[c] <= e[c]
    PROVE  SumOf(d) <= SumOf(e)
  <1>1. \A c \in DOMAIN d : d[c] \in Nat /\ e[c] \in Nat
    BY DEF Counter
  <1>2. \A x \in Messages(d) : x \in Messages(e)
    BY <1>1 DEF Messages
  <1>3. Messages(d) \in SUBSET Messages(e) /\ IsFiniteSet(Messages(e))
    BY <1>2, SumsAreNumbers
  <1>4. Cardinality(Messages(d)) <= Cardinality(Messages(e))
    BY <1>3, FS_Subset
  <1> QED BY <1>4 DEF SumOf, Messages

\* One more message adds one at least.
LEMMA SumsCount ==
    ASSUME NEW d, NEW e, Counter(d), Counter(e), NEW c \in DOMAIN e,
           DOMAIN d \subseteq DOMAIN e, \A x \in DOMAIN d : d[x] <= e[x],
           IF c \in DOMAIN d THEN e[c] = d[c] + 1 ELSE e[c] = 1
    PROVE  SumOf(d) + 1 <= SumOf(e)
  <1> DEFINE n == <<c, e[c]>>
             M == Messages(d)
             N == Messages(e)
  <1>1. /\ \A x \in DOMAIN d : d[x] \in Nat /\ e[x] \in Nat
        /\ e[c] \in Nat /\ e[c] >= 1
    BY DEF Counter
  <1>2. n \in N
    BY <1>1 DEF Messages
  <1>3. n \notin M
    <2>1. ASSUME n \in M
          PROVE  c \in DOMAIN d /\ e[c] \in 1..d[c]
      BY <2>1 DEF Messages
    <2> QED BY <1>1, <2>1
  <1>4. \A x \in M : x \in N
    BY <1>1 DEF Messages
  <1>5. IsFiniteSet(M) /\ IsFiniteSet(N)
    BY SumsAreNumbers
  <1> HIDE DEF n, M, N
  <1>6. M \cup {n} \in SUBSET N
    BY <1>2, <1>4
  <1>7. Cardinality(M \cup {n}) = Cardinality(M) + 1
    BY <1>3, <1>5, FS_AddElement
  <1>8. Cardinality(M \cup {n}) <= Cardinality(N)
    BY <1>5, <1>6, FS_Subset
  <1>9. SumOf(d) = Cardinality(M) /\ SumOf(e) = Cardinality(N)
    BY DEF SumOf, Messages, M, N
  <1> QED BY <1>7, <1>8, <1>9

\* Nothing adds up to nothing.
LEMMA SumOfNone == Counter(NoChats) /\ SumOf(NoChats) = 0 /\ DOMAIN NoChats = {}
  <1>1. DOMAIN NoChats = {} /\ NoChats \in [{} -> Nat]
    BY DEF NoChats
  <1>2. Messages(NoChats) = {}
    BY <1>1 DEF Messages
  <1> QED BY <1>1, <1>2, FS_EmptySet DEF Counter, SumOf, Messages

-----------------------------------------------------------------------------
(* The tasks, and what each of them holds.                                 *)

Fields == {"at", "seen", "total", "flushed", "left", "keys", "live", "view", "item", "wrote"}

\* The keys a walk began with: written, in hand, or left.
InHand(t) == {e[1] : e \in t.item}

IsSaver(t) ==
    /\ DOMAIN t = Fields
    /\ t.at \in {"idle", "load", "names", "row", "commit", "reset"}
    /\ t.seen \in Int /\ t.total \in Nat
    /\ Counter(t.wrote)
    /\ t.at \in {"row", "commit"} =>
         /\ t.keys = DOMAIN t.wrote \cup InHand(t) \cup t.left
         /\ IsFiniteSet(t.keys)
    /\ t.at = "row" => \E c, n : t.item = {<<c, n>>} /\ n \in Nat
    /\ t.at = "commit" => t.item = {} /\ t.left = {}
    /\ t.at \in {"idle", "load", "names"} => t.wrote = NoChats
    /\ t.at \notin {"row", "commit"} => t.live = TRUE
    /\ t.live \in BOOLEAN /\ Counter(t.view)

StatsKinds ==
    /\ total \in Nat /\ Counter(perChat)
    /\ DOMAIN stored = {"total", "chats"} /\ stored.total \in Nat /\ Counter(stored.chats)
    /\ DOMAIN saving = Saver
    /\ \A s \in Saver : IsSaver(saving[s])
    /\ starting.at \in {"start", "totals", "done"} /\ starting.total \in Nat
    /\ met \in BOOLEAN

Walking(t) == t.at \in {"row", "commit"}

\* Some counts of the keys of a walk, whose sum is its total or more, are not
\* above what is written, in hand, or still in the dictionary d.
WalkCovers(t, d) ==
    \E g \in [t.keys -> Nat] :
      /\ t.total <= SumOf(g)
      /\ \A c \in DOMAIN t.wrote : g[c] <= t.wrote[c]
      /\ \A e \in t.item : g[e[1]] <= e[2]
      /\ \A c \in t.left : g[c] <= d[c]

\* A save under way, with the totals n and the counts d in memory and k in the
\* row: it walks the living dictionary, which has only grown; and if its totals
\* will not be written, those in the row are no more than they.
Underway(t, n, d, k) ==
    /\ t.live = TRUE /\ t.keys \subseteq DOMAIN d
    /\ t.total <= n
    /\ t.total = t.seen => k <= t.total
    /\ WalkCovers(t, d)

\* Totals that are taken: the dictionary covers them, and so it will when its walk
\* begins.
Taken(t, n, d, k) ==
    /\ t.total <= n /\ t.total <= SumOf(d)
    /\ t.total = t.seen => k <= t.total

\* What a save that walks, or has read the row, knows of the totals.
Knows(t, n, d, k) ==
    /\ t.at \in {"row", "commit"} => Underway(t, n, d, k)
    /\ t.at = "names" => Taken(t, n, d, k)
    /\ t.at = "load" => k <= t.seen \/ k <= n

\* The start: no reset runs, and what it read is stored.
Started ==
    /\ starting.at = "totals" => starting.total = stored.total
    /\ starting.at # "done" => \A s \in Saver : saving[s].at # "reset"

\* A reset is alone, and nothing was stored since it began.
ResetAlone ==
    \A s \in Saver : saving[s].at = "reset" =>
      /\ stored.total = saving[s].seen
      /\ \A p \in Saver : saving[p].at = "reset" => p = s

SavesKnow == \A s \in Saver : Knows(saving[s], total, perChat, stored.total)

Unmet == CountsCovered /\ Started /\ ResetAlone /\ SavesKnow

StatsInv == StatsKinds /\ (~met => Unmet)

\* At rest nothing is written, and nothing is to be.
LEMMA EaseIsSaver == IsSaver(AtEase) /\ AtEase.at = "idle"
  BY SumOfNone DEF AtEase, IsSaver, Fields, Unseen

\* One task moves, the others stay.
LEMMA OneSaver ==
    ASSUME StatsKinds, NEW s \in Saver, NEW t, saving' = [saving EXCEPT ![s] = t]
    PROVE  DOMAIN saving' = Saver /\ \A p \in Saver : saving'[p] = IF p = s THEN t ELSE saving[p]
  BY DEF StatsKinds

\* What a save knows stays true while messages are counted and the row loses.
LEMMA KnowsMore ==
    ASSUME NEW t, NEW n \in Nat, NEW d, NEW k \in Nat, NEW m \in Nat, NEW e, NEW j \in Nat,
           Knows(t, n, d, k), IsSaver(t), Counter(d), Counter(e),
           n <= m, j <= k, DOMAIN d \subseteq DOMAIN e, \A c \in DOMAIN d : d[c] <= e[c]
    PROVE  Knows(t, m, e, j)
  <1>1. t.seen \in Int /\ t.total \in Nat
    BY DEF IsSaver
  <1>2. ASSUME t.at \in {"row", "commit"}
        PROVE  Underway(t, m, e, j)
    <2>1. Underway(t, n, d, k)
      BY <1>2 DEF Knows
    <2>2. PICK g \in [t.keys -> Nat] :
            /\ t.total <= SumOf(g)
            /\ \A c \in DOMAIN t.wrote : g[c] <= t.wrote[c]
            /\ \A x \in t.item : g[x[1]] <= x[2]
            /\ \A c \in t.left : g[c] <= d[c]
      BY <2>1 DEF Underway, WalkCovers
    <2>3. t.left \subseteq t.keys /\ t.keys \subseteq DOMAIN d
      BY <1>2, <2>1 DEF Underway, IsSaver
    <2>4. ASSUME NEW c \in t.left
          PROVE  g[c] <= e[c]
      <3>1. g[c] \in Nat /\ d[c] \in Nat /\ e[c] \in Nat /\ d[c] <= e[c]
        BY <2>3 DEF Counter
      <3> QED BY <2>2, <3>1
    <2>5. WalkCovers(t, e)
      BY <2>2, <2>4 DEF WalkCovers
    <2>6. t.total <= m /\ (t.total = t.seen => j <= t.total)
      BY <1>1, <2>1 DEF Underway
    <2> QED BY <2>1, <2>3, <2>5, <2>6 DEF Underway
  <1>3. t.at = "load" => j <= t.seen \/ j <= m
    BY <1>1 DEF Knows
  <1>4. ASSUME t.at = "names"
        PROVE  Taken(t, m, e, j)
    <2>1. SumOf(d) \in Nat /\ SumOf(e) \in Nat /\ SumOf(d) <= SumOf(e)
      BY SumsAreNumbers, SumsGrow
    <2>2. Taken(t, n, d, k)
      BY <1>4 DEF Knows
    <2> QED BY <1>1, <2>1, <2>2 DEF Taken
  <1> QED BY <1>2, <1>3, <1>4 DEF Knows

\* One task moves, and is no reset; the totals stay.
LEMMA SaverMoves ==
    ASSUME StatsInv, NEW s \in Saver, NEW t, IsSaver(t), saving' = [saving EXCEPT ![s] = t],
           UNCHANGED <<total, perChat, stored, starting, met>>, t.at # "reset",
           ~met => Knows(t, total, perChat, stored.total)
    PROVE  StatsInv'
  <1>1. DOMAIN saving' = Saver /\ \A p \in Saver : saving'[p] = IF p = s THEN t ELSE saving[p]
    BY OneSaver DEF StatsInv
  <1>2. StatsKinds'
    BY <1>1 DEF StatsInv, StatsKinds
  <1>3. ASSUME ~met
        PROVE  Unmet'
    <2>1. CountsCovered'
      BY DEF StatsInv, Unmet, CountsCovered
    <2>2. Started'
      BY <1>1, <1>3 DEF StatsInv, Unmet, Started
    <2>3. ResetAlone'
      BY <1>1, <1>3 DEF StatsInv, Unmet, ResetAlone
    <2>4. SavesKnow'
      BY <1>1, <1>3 DEF StatsInv, Unmet, SavesKnow
    <2> QED BY <2>1, <2>2, <2>3, <2>4 DEF Unmet
  <1> QED BY <1>2, <1>3 DEF StatsInv

\* A save raises or ends, and knows nothing any more.
LEMMA EaseKnows ==
    ASSUME NEW n, NEW d, NEW k
    PROVE  IsSaver(AtEase) /\ Knows(AtEase, n, d, k) /\ AtEase.at = "idle"
  BY EaseIsSaver DEF Knows

LEMMA SaveRaisesInv ==
    ASSUME StatsInv, NEW s \in Saver, SaveRaises(s)
    PROVE  StatsInv'
  <1>1. saving' = [saving EXCEPT ![s] = AtEase] /\ UNCHANGED <<total, perChat, stored, starting, met>>
    BY DEF SaveRaises, InMemory
  <1> QED BY <1>1, EaseKnows, SaverMoves

LEMMA SaveBeginInv ==
    ASSUME StatsInv, NEW s \in Saver, SaveBegin(s)
    PROVE  StatsInv'
  <1> DEFINE t == [saving[s] EXCEPT !.at = "load", !.seen = stored.total]
  <1>1. saving' = [saving EXCEPT ![s] = t] /\ UNCHANGED <<total, perChat, stored, starting, met>>
    BY DEF SaveBegin, InMemory, StatsInv, StatsKinds
  <1>2. IsSaver(saving[s]) /\ saving[s].at = "idle" /\ stored.total \in Nat
    BY DEF StatsInv, StatsKinds, SaveBegin
  <1>3. IsSaver(t) /\ t.at = "load" /\ t.seen = stored.total
    BY <1>2 DEF IsSaver, Fields
  <1> HIDE DEF t
  <1>4. Knows(t, total, perChat, stored.total)
    BY <1>2, <1>3 DEF Knows
  <1> QED BY <1>1, <1>3, <1>4, SaverMoves

\* The walk goes on with an entry that is left, or is over.
LEMMA WalkGoesOn ==
    ASSUME NEW u, DOMAIN u = Fields, NEW left, NEW t \in WalksOn(u, left)
    PROVE  /\ DOMAIN t = Fields /\ t.seen = u.seen /\ t.total = u.total /\ t.keys = u.keys
           /\ t.wrote = u.wrote /\ t.live = u.live /\ t.view = u.view
           /\ \/ t.at = "commit" /\ left = {} /\ t.left = {} /\ t.item = {}
              \/ /\ t.at = "row"
                 /\ \E c \in left : t.left = left \ {c} /\ t.item = {<<c, View(u)[c]>>}
  <1>1. CASE left = {}
    BY <1>1 DEF WalksOn, Fields
  <1>2. CASE left # {}
    <2>1. PICK c \in left :
            t = [u EXCEPT !.at = "row", !.left = left \ {c}, !.item = {<<c, View(u)[c]>>}]
      BY <1>2 DEF WalksOn
    <2> DEFINE e == <<c, View(u)[c]>>
    <2>2. t = [u EXCEPT !.at = "row", !.left = left \ {c}, !.item = {e}]
      BY <2>1
    <2> HIDE DEF e
    <2>3. /\ DOMAIN t = Fields /\ t.seen = u.seen /\ t.total = u.total /\ t.keys = u.keys
          /\ t.wrote = u.wrote /\ t.live = u.live /\ t.view = u.view
          /\ t.at = "row" /\ t.left = left \ {c} /\ t.item = {e}
      BY <2>2 DEF Fields
    <2> QED BY <2>3 DEF e
  <1> QED BY <1>1, <1>2

\* Whoever goes on is a saver.
LEMMA WalkerIsSaver ==
    ASSUME NEW u, NEW left, NEW t \in WalksOn(u, left),
           DOMAIN u = Fields, u.live \in BOOLEAN, Counter(u.view), Counter(View(u)),
           u.seen \in Int, u.total \in Nat, Counter(u.wrote),
           IsFiniteSet(u.keys), u.keys = DOMAIN u.wrote \cup left, left \subseteq DOMAIN View(u)
    PROVE  IsSaver(t) /\ t.at \in {"row", "commit"}
  <1>1. /\ DOMAIN t = Fields /\ t.seen = u.seen /\ t.total = u.total /\ t.keys = u.keys
        /\ t.wrote = u.wrote /\ t.live = u.live /\ t.view = u.view
        /\ \/ t.at = "commit" /\ left = {} /\ t.left = {} /\ t.item = {}
           \/ /\ t.at = "row"
              /\ \E c \in left : t.left = left \ {c} /\ t.item = {<<c, View(u)[c]>>}
    BY WalkGoesOn
  <1>2. CASE t.at = "commit"
    <2>1. left = {} /\ t.left = {} /\ t.item = {}
      BY <1>1, <1>2
    <2>2. InHand(t) = {}
      BY <2>1 DEF InHand
    <2>3. t.keys = DOMAIN t.wrote \cup InHand(t) \cup t.left
      BY <1>1, <2>1, <2>2
    <2> QED BY <1>1, <1>2, <2>1, <2>3 DEF IsSaver
  <1>3. CASE t.at = "row"
    <2>1. PICK c \in left : t.left = left \ {c} /\ t.item = {<<c, View(u)[c]>>}
      BY <1>1, <1>3
    <2>2. InHand(t) = {c}
      BY <2>1 DEF InHand
    <2>3. t.keys = DOMAIN t.wrote \cup InHand(t) \cup t.left
      BY <1>1, <2>1, <2>2
    <2>4. View(u)[c] \in Nat
      BY <2>1 DEF Counter
    <2>5. \E x, m : t.item = {<<x, m>>} /\ m \in Nat
      BY <2>1, <2>4
    <2> QED BY <1>1, <1>3, <2>3, <2>5 DEF IsSaver
  <1> QED BY <1>1, <1>2, <1>3

\* Whoever goes on with what covers his totals knows that it does.
LEMMA WalkerKnows ==
    ASSUME NEW n \in Nat, NEW k \in Nat, NEW u, NEW left, NEW t \in WalksOn(u, left),
           DOMAIN u = Fields, u.live = TRUE, u.keys \subseteq DOMAIN perChat,
           u.total <= n, u.total = u.seen => k <= u.total,
           \E g \in [u.keys -> Nat] :
             /\ u.total <= SumOf(g)
             /\ \A c \in DOMAIN u.wrote : g[c] <= u.wrote[c]
             /\ \A c \in left : g[c] <= perChat[c]
    PROVE  Knows(t, n, perChat, k)
  <1>1. /\ DOMAIN t = Fields /\ t.seen = u.seen /\ t.total = u.total /\ t.keys = u.keys
        /\ t.wrote = u.wrote /\ t.live = u.live /\ t.view = u.view
        /\ \/ t.at = "commit" /\ left = {} /\ t.left = {} /\ t.item = {}
           \/ /\ t.at = "row"
              /\ \E c \in left : t.left = left \ {c} /\ t.item = {<<c, View(u)[c]>>}
    BY WalkGoesOn
  <1>2. PICK g \in [u.keys -> Nat] :
          /\ u.total <= SumOf(g)
          /\ \A c \in DOMAIN u.wrote : g[c] <= u.wrote[c]
          /\ \A c \in left : g[c] <= perChat[c]
    OBVIOUS
  <1>3. View(u) = perChat
    BY DEF View
  <1>4. (\A e \in t.item : g[e[1]] <= e[2]) /\ t.left \subseteq left
    BY <1>1, <1>2, <1>3
  <1>5. WalkCovers(t, perChat)
    BY <1>1, <1>2, <1>4 DEF WalkCovers
  <1>6. Underway(t, n, perChat, k)
    BY <1>1, <1>5 DEF Underway
  <1>7. t.at \notin {"load", "names"}
    BY <1>1
  <1> QED BY <1>6, <1>7 DEF Knows

\* The walk of the chats begins with totals that the dictionary covers.
LEMMA ChatsBeginInv ==
    ASSUME StatsInv, NEW s \in Saver, NEW o, IsSaver(o), o.at \in {"load", "names"},
           ~met => Taken(o, total, perChat, stored.total), NEW t \in ChatsBegin(o),
           saving' = [saving EXCEPT ![s] = t], UNCHANGED <<total, perChat, stored, starting, met>>
    PROVE  StatsInv'
  <1> DEFINE u == [o EXCEPT !.keys = DOMAIN perChat]
  <1>1. t \in WalksOn(u, DOMAIN perChat)
    BY DEF ChatsBegin
  <1>2. Counter(perChat) /\ total \in Nat /\ stored.total \in Nat
    BY DEF StatsInv, StatsKinds
  <1>3. /\ DOMAIN u = Fields /\ u.total = o.total /\ u.keys = DOMAIN perChat
        /\ u.seen = o.seen /\ u.seen \in Int /\ u.wrote = NoChats /\ u.live = TRUE
        /\ u.total \in Nat /\ Counter(u.view)
    BY DEF IsSaver, Fields
  <1> HIDE DEF u
  <1>4. View(u) = perChat
    BY <1>3 DEF View
  <1>5. perChat \in [u.keys -> Nat] /\ IsFiniteSet(u.keys)
    BY <1>2, <1>3 DEF Counter
  <1>6. \A c \in DOMAIN perChat : perChat[c] <= perChat[c]
    BY <1>2 DEF Counter
  <1>7. DOMAIN u.wrote = {} /\ Counter(u.wrote)
    BY <1>3, SumOfNone
  <1>8. u.keys = DOMAIN u.wrote \cup DOMAIN perChat /\ u.keys \subseteq DOMAIN perChat
    BY <1>3, <1>7
  <1>9. IsSaver(t) /\ t.at \in {"row", "commit"}
    BY <1>1, <1>2, <1>3, <1>4, <1>5, <1>7, <1>8, WalkerIsSaver
  <1>10. ASSUME ~met
         PROVE  Knows(t, total, perChat, stored.total)
    <2>1. /\ u.total <= total /\ u.total <= SumOf(perChat)
          /\ u.total = u.seen => stored.total <= u.total
      BY <1>3, <1>10 DEF Taken
    <2>2. \E g \in [u.keys -> Nat] :
            /\ u.total <= SumOf(g)
            /\ \A c \in DOMAIN u.wrote : g[c] <= u.wrote[c]
            /\ \A c \in DOMAIN perChat : g[c] <= perChat[c]
      BY <1>5, <1>6, <1>7, <2>1
    <2> QED BY <1>1, <1>2, <1>3, <1>8, <2>1, <2>2, WalkerKnows
  <1> QED BY <1>9, <1>10, SaverMoves

\* Totals are taken that the dictionary covers; a row that is less, or was read so.
LEMMA SaveTotalsInv ==
    ASSUME StatsInv, NEW s \in Saver, SaveTotals(s)
    PROVE  StatsInv'
  <1> DEFINE o == [saving[s] EXCEPT !.total = total]
             v == [o EXCEPT !.at = "names"]
  <1>1. PICK t \in {v} \cup ChatsBegin(o) : saving' = [saving EXCEPT ![s] = t]
    BY DEF SaveTotals
  <1>2. UNCHANGED <<total, perChat, stored, starting, met>>
    BY DEF SaveTotals, InMemory
  <1>3. /\ IsSaver(saving[s]) /\ saving[s].at = "load" /\ Counter(perChat)
        /\ total \in Nat /\ stored.total \in Nat /\ met \in BOOLEAN
    BY DEF StatsInv, StatsKinds, SaveTotals
  <1>4. /\ IsSaver(o) /\ o.at = "load" /\ o.total = total /\ o.seen = saving[s].seen
        /\ o.seen \in Int
    BY <1>3 DEF IsSaver, Fields
  <1>5. IsSaver(v) /\ v.at = "names" /\ v.total = total /\ v.seen = saving[s].seen
    BY <1>3 DEF IsSaver, Fields
  <1>6. ASSUME ~met
        PROVE  Taken(o, total, perChat, stored.total)
    <2>1. Knows(saving[s], total, perChat, stored.total) /\ total <= SumOf(perChat)
      BY <1>6 DEF StatsInv, Unmet, SavesKnow, CountsCovered
    <2>2. stored.total <= saving[s].seen \/ stored.total <= total
      BY <1>3, <2>1 DEF Knows
    <2>3. total = saving[s].seen => stored.total <= total
      BY <2>2
    <2>4. total <= total
      BY <1>3
    <2> QED BY <1>4, <2>1, <2>3, <2>4 DEF Taken
  <1> HIDE DEF o, v
  <1>7. CASE t = v
    <2>1. ~met => Knows(v, total, perChat, stored.total)
      BY <1>4, <1>5, <1>6 DEF Taken, Knows
    <2> QED BY <1>1, <1>2, <1>5, <1>7, <2>1, SaverMoves
  <1>8. CASE t \in ChatsBegin(o)
    BY <1>1, <1>2, <1>4, <1>6, <1>8, ChatsBeginInv
  <1> QED BY <1>1, <1>7, <1>8

\* The commands are upserted, and the walk of the chats begins.
LEMMA SaveChatsInv ==
    ASSUME StatsInv, NEW s \in Saver, SaveChats(s)
    PROVE  StatsInv'
  <1> DEFINE o == [saving[s] EXCEPT !.flushed = TRUE]
  <1>1. PICK t \in ChatsBegin(o) \cup {AtEase} : saving' = [saving EXCEPT ![s] = t]
    BY DEF SaveChats
  <1>2. UNCHANGED <<total, perChat, stored, starting, met>>
    BY DEF SaveChats, InMemory
  <1>3. IsSaver(saving[s]) /\ saving[s].at = "names"
    BY DEF StatsInv, StatsKinds, SaveChats
  <1>4. IsSaver(o) /\ o.at = "names" /\ o.total = saving[s].total /\ o.seen = saving[s].seen
    BY <1>3 DEF IsSaver, Fields
  <1>5. ~met => Taken(saving[s], total, perChat, stored.total)
    BY <1>3 DEF StatsInv, Unmet, SavesKnow, Knows
  <1> HIDE DEF o
  <1>6. ~met => Taken(o, total, perChat, stored.total)
    BY <1>4, <1>5 DEF Taken
  <1>7. CASE t = AtEase
    BY <1>1, <1>2, <1>7, EaseKnows, SaverMoves
  <1>8. CASE t \in ChatsBegin(o)
    BY <1>1, <1>2, <1>4, <1>6, <1>8, ChatsBeginInv
  <1> QED BY <1>1, <1>7, <1>8

\* What is upserted takes the place of what was there.
LEMMA RowsUpserted ==
    ASSUME NEW f, NEW g, Counter(f), Counter(g)
    PROVE  Counter(Upserted(f, g))
  <1> DEFINE v == Upserted(f, g)
  <1>1. /\ DOMAIN v = DOMAIN f \cup DOMAIN g
        /\ \A x \in DOMAIN v : v[x] = IF x \in DOMAIN f THEN f[x] ELSE g[x]
    BY DEF Upserted
  <1>2. v = [x \in DOMAIN v |-> v[x]]
    BY DEF Upserted
  <1> HIDE DEF v
  <1>3. \A x \in DOMAIN v : v[x] \in Nat
    BY <1>1 DEF Counter
  <1>4. IsFiniteSet(DOMAIN v)
    BY <1>1, FS_Union DEF Counter
  <1>5. v \in [DOMAIN v -> Nat]
    BY <1>2, <1>3
  <1>6. Counter(v)
    BY <1>4, <1>5 DEF Counter
  <1> QED BY <1>6 DEF v

LEMMA RowWritten ==
    ASSUME NEW w, Counter(w), NEW c, NEW m \in Nat
    PROVE  Counter(Upserted(OneRow(c, m), w))
  <1> DEFINE f == OneRow(c, m)
  <1>1. DOMAIN f = {c} /\ f \in [{c} -> Nat]
    BY DEF OneRow
  <1> HIDE DEF f
  <1>2. IsFiniteSet(DOMAIN f)
    BY <1>1, FS_Singleton
  <1>3. Counter(f)
    BY <1>1, <1>2 DEF Counter
  <1> QED BY <1>3, RowsUpserted DEF f

\* A row is written and the walk goes on over what is left, or ends with nothing.
LEMMA SaveRowInv ==
    ASSUME StatsInv, NEW s \in Saver, SaveRow(s)
    PROVE  StatsInv'
  <1> DEFINE o == saving[s]
  <1>1. IsSaver(o) /\ o.at = "row" /\ Counter(perChat) /\ stored.total \in Nat /\ total \in Nat
    BY DEF StatsInv, StatsKinds, SaveRow
  <1>2. UNCHANGED <<total, perChat, stored, starting, met>>
    BY DEF SaveRow, InMemory
  <1>3. PICK c, m : o.item = {<<c, m>>} /\ m \in Nat
    BY <1>1 DEF IsSaver
  <1> DEFINE u == [o EXCEPT !.flushed = TRUE, !.wrote = Upserted(OneRow(c, m), o.wrote)]
  <1>4. \E t \in IF DOMAIN View(u) = u.keys THEN WalksOn(u, u.left) ELSE {AtEase} :
          saving' = [saving EXCEPT ![s] = t]
    <2>1. PICK e \in o.item :
            LET v == [saving[s] EXCEPT !.flushed = TRUE, !.wrote = Upserted(OneRow(e[1], e[2]), @)]
            IN  \E t \in IF DOMAIN View(v) = v.keys THEN WalksOn(v, v.left) ELSE {AtEase} :
                  saving' = [saving EXCEPT ![s] = t]
      BY DEF SaveRow
    <2>2. e[1] = c /\ e[2] = m
      BY <1>3, <2>1
    <2> QED BY <2>1, <2>2
  <1>5. /\ DOMAIN u = Fields /\ u.wrote = Upserted(OneRow(c, m), o.wrote) /\ u.total = o.total
        /\ u.seen = o.seen /\ u.keys = o.keys /\ u.left = o.left /\ u.live = o.live
        /\ u.view = o.view /\ u.at = "row"
    BY <1>1 DEF IsSaver, Fields
  <1>6. /\ o.keys = DOMAIN o.wrote \cup InHand(o) \cup o.left /\ IsFiniteSet(o.keys)
        /\ Counter(o.wrote) /\ Counter(o.view) /\ o.live \in BOOLEAN /\ o.seen \in Int
        /\ o.total \in Nat
    BY <1>1 DEF IsSaver
  <1> HIDE DEF o, u
  <1>7. InHand(o) = {c}
    BY <1>3 DEF InHand
  <1>8. /\ Counter(u.wrote) /\ DOMAIN u.wrote = DOMAIN o.wrote \cup {c}
        /\ u.wrote[c] = m /\ \A x \in DOMAIN o.wrote \ {c} : u.wrote[x] = o.wrote[x]
    <2>1. Counter(u.wrote)
      BY <1>3, <1>5, <1>6, RowWritten
    <2> QED BY <1>5, <2>1 DEF Upserted, OneRow
  <1>9. CASE DOMAIN View(u) # u.keys
    <2>1. saving' = [saving EXCEPT ![s] = AtEase]
      BY <1>4, <1>9
    <2> QED BY <1>2, <2>1, EaseKnows, SaverMoves
  <1>10. CASE DOMAIN View(u) = u.keys
    <2>1. PICK t \in WalksOn(u, u.left) : saving' = [saving EXCEPT ![s] = t]
      BY <1>4, <1>10
    <2>2. Counter(View(u))
      BY <1>1, <1>5, <1>6 DEF View
    <2>3. u.keys = DOMAIN u.wrote \cup u.left /\ u.left \subseteq DOMAIN View(u)
      BY <1>5, <1>6, <1>7, <1>8, <1>10
    <2>4. /\ u.live \in BOOLEAN /\ Counter(u.view) /\ u.seen \in Int /\ u.total \in Nat
          /\ IsFiniteSet(u.keys)
      BY <1>5, <1>6
    <2>5. IsSaver(t) /\ t.at \in {"row", "commit"}
      BY <1>5, <1>8, <2>1, <2>2, <2>3, <2>4, WalkerIsSaver
    <2>6. ASSUME ~met
          PROVE  Knows(t, total, perChat, stored.total)
      <3>1. Underway(o, total, perChat, stored.total)
        BY <1>1, <2>6 DEF StatsInv, Unmet, SavesKnow, Knows, o
      <3>2. PICK g \in [o.keys -> Nat] :
              /\ o.total <= SumOf(g)
              /\ \A x \in DOMAIN o.wrote : g[x] <= o.wrote[x]
              /\ \A e \in o.item : g[e[1]] <= e[2]
              /\ \A x \in o.left : g[x] <= perChat[x]
        BY <3>1 DEF Underway, WalkCovers
      <3>3. g[c] <= m
        <4>1. <<c, m>> \in o.item
          BY <1>3
        <4> QED BY <3>2, <4>1
      <3>4. \A x \in DOMAIN u.wrote : g[x] <= u.wrote[x]
        BY <1>8, <3>2, <3>3
      <3>5. \E f \in [u.keys -> Nat] :
              /\ u.total <= SumOf(f)
              /\ \A x \in DOMAIN u.wrote : f[x] <= u.wrote[x]
              /\ \A x \in u.left : f[x] <= perChat[x]
        BY <1>5, <3>2, <3>4
      <3>6. /\ u.live = TRUE /\ u.keys \subseteq DOMAIN perChat
            /\ u.total <= total /\ (u.total = u.seen => stored.total <= u.total)
        BY <1>5, <3>1 DEF Underway
      <3> QED BY <1>1, <1>5, <2>1, <3>5, <3>6, WalkerKnows
    <2> QED BY <1>2, <2>1, <2>5, <2>6, SaverMoves
  <1> QED BY <1>9, <1>10

\* What a save knows when it commits: its rows are no less than its totals,
\* which are not less than those that will be stored.
LEMMA CommitCovers ==
    ASSUME NEW t, IsSaver(t), t.at = "commit", NEW n \in Nat, NEW d, NEW k \in Nat,
           Knows(t, n, d, k), NEW r, Counter(r),
           NEW j, j = IF Changed(t) THEN t.total ELSE k
    PROVE  j <= t.total /\ t.total <= n /\ t.total <= SumOf(Upserted(t.wrote, r))
  <1>1. /\ t.total \in Nat /\ Counter(t.wrote) /\ t.item = {} /\ t.left = {}
        /\ t.keys = DOMAIN t.wrote \cup InHand(t) \cup t.left
    BY DEF IsSaver
  <1>2. t.keys = DOMAIN t.wrote
    BY <1>1 DEF InHand
  <1>3. Underway(t, n, d, k)
    BY DEF Knows
  <1>4. j <= t.total /\ t.total <= n
    BY <1>1, <1>3 DEF Underway, Changed
  <1>5. PICK g \in [t.keys -> Nat] :
          t.total <= SumOf(g) /\ \A c \in DOMAIN t.wrote : g[c] <= t.wrote[c]
    BY <1>3 DEF Underway, WalkCovers
  <1> DEFINE v == Upserted(t.wrote, r)
  <1>6. Counter(v)
    BY <1>1, RowsUpserted
  <1>7. DOMAIN t.wrote \subseteq DOMAIN v /\ \A c \in DOMAIN t.wrote : v[c] = t.wrote[c]
    BY DEF Upserted
  <1>8. Counter(g)
    BY <1>1, <1>2, <1>5 DEF Counter
  <1> HIDE DEF v
  <1>9. DOMAIN g = DOMAIN t.wrote /\ \A c \in DOMAIN g : g[c] <= v[c]
    BY <1>2, <1>5, <1>7
  <1>10. SumOf(g) <= SumOf(v)
    BY <1>6, <1>7, <1>8, <1>9, SumsGrow
  <1>11. SumOf(g) \in Nat /\ SumOf(v) \in Nat
    BY <1>6, <1>8, SumsAreNumbers
  <1>12. t.total <= SumOf(v)
    BY <1>1, <1>5, <1>10, <1>11
  <1> QED BY <1>4, <1>12 DEF v

\* A save that met nothing stores what its rows cover.
LEMMA SaveCommitInv ==
    ASSUME StatsInv, NEW s \in Saver, SaveCommit(s)
    PROVE  StatsInv'
  <1> DEFINE o == saving[s]
             v == Upserted(o.wrote, stored.chats)
             j == IF Changed(o) THEN o.total ELSE stored.total
  <1>1. /\ IsSaver(o) /\ o.at = "commit" /\ Counter(perChat) /\ stored.total \in Nat /\ total \in Nat
        /\ Counter(stored.chats) /\ met \in BOOLEAN
    BY DEF StatsInv, StatsKinds, SaveCommit
  <1>2. /\ saving' = [saving EXCEPT ![s] = AtEase] /\ stored' = [total |-> j, chats |-> v]
        /\ met' = (met \/ Meets(s)) /\ UNCHANGED <<total, perChat, starting>>
    BY DEF SaveCommit, InMemory
  <1>3. o.total \in Nat /\ Counter(o.wrote)
    BY <1>1 DEF IsSaver
  <1>4. j \in Nat
    BY <1>1, <1>3
  <1>5. Counter(v)
    BY <1>1, <1>3, RowsUpserted
  <1>6. DOMAIN saving' = Saver /\ \A p \in Saver : saving'[p] = IF p = s THEN AtEase ELSE saving[p]
    BY <1>2, OneSaver DEF StatsInv
  <1> HIDE DEF o, v, j
  <1>7. DOMAIN stored' = {"total", "chats"} /\ stored'.total = j /\ stored'.chats = v
    BY <1>2
  <1>8. met' \in BOOLEAN
    BY <1>2
  <1>9. StatsKinds'
    <2>1. \A p \in Saver : IsSaver(saving'[p])
      BY <1>6, EaseIsSaver DEF StatsInv, StatsKinds
    <2> QED BY <1>2, <1>4, <1>5, <1>6, <1>7, <1>8, <2>1 DEF StatsInv, StatsKinds
  <1>10. ASSUME ~met'
         PROVE  Unmet'
    <2>1. ~met /\ ~Meets(s)
      BY <1>2, <1>10
    <2>2. /\ starting.at = "done"
          /\ \A p \in Saver \ {s} : /\ saving[p].at # "reset"
                                    /\ saving[p].at \in {"names", "row", "commit"} => Changed(saving[p])
      BY <2>1 DEF Meets
    <2>3. Knows(o, total, perChat, stored.total)
      BY <2>1 DEF StatsInv, Unmet, SavesKnow, o
    <2>4. j <= o.total /\ o.total <= total /\ o.total <= SumOf(v)
      BY <1>1, <2>3, CommitCovers DEF j, v
    <2>5. SumOf(v) \in Nat
      BY <1>5, SumsAreNumbers
    <2>6. CountsCovered'
      <3>1. total <= SumOf(perChat)
        BY <2>1 DEF StatsInv, Unmet, CountsCovered
      <3>2. stored'.total <= SumOf(stored'.chats)
        BY <1>3, <1>4, <1>7, <2>4, <2>5
      <3>3. total' <= SumOf(perChat')
        BY <1>2, <3>1
      <3> QED BY <3>2, <3>3 DEF CountsCovered
    <2>7. Started'
      BY <1>2, <2>2 DEF Started
    <2>8. ResetAlone'
      BY <1>6, <2>2, EaseIsSaver DEF ResetAlone
    <2>9. SavesKnow'
      <3>1. ASSUME NEW p \in Saver, p # s
            PROVE  Knows(saving[p], total, perChat, j)
        <4>1. Knows(saving[p], total, perChat, stored.total)
          BY <2>1 DEF StatsInv, Unmet, SavesKnow
        <4>2. saving[p].at = "load" => j <= total
          BY <1>1, <1>3, <1>4, <2>4
        <4>3. saving[p].at \in {"row", "commit"} => Underway(saving[p], total, perChat, j)
          BY <2>2, <3>1, <4>1 DEF Knows, Underway, Changed
        <4>4. saving[p].at = "names" => Taken(saving[p], total, perChat, j)
          BY <2>2, <3>1, <4>1 DEF Knows, Taken, Changed
        <4> QED BY <4>2, <4>3, <4>4 DEF Knows
      <3>2. \A p \in Saver : Knows(saving'[p], total, perChat, j)
        BY <1>6, <3>1, EaseKnows
      <3> QED BY <1>2, <1>7, <3>2 DEF SavesKnow
    <2> QED BY <2>6, <2>7, <2>8, <2>9 DEF Unmet
  <1> QED BY <1>9, <1>10 DEF StatsInv

\* A walk that keeps the old dictionary when memory gets a new one.
KeepsOld(t) ==
    IF t.at \in {"row", "commit"} /\ t.live THEN [t EXCEPT !.live = FALSE, !.view = perChat] ELSE t

LEMMA OldIsKept ==
    ASSUME NEW t, IsSaver(t), Counter(perChat)
    PROVE  /\ IsSaver(KeepsOld(t))
           /\ t.at \notin {"row", "commit"} => KeepsOld(t) = t
  <1>1. CASE t.at \in {"row", "commit"} /\ t.live
    <2> DEFINE u == [t EXCEPT !.live = FALSE, !.view = perChat]
    <2>1. /\ DOMAIN u = Fields /\ u.at = t.at /\ u.seen = t.seen /\ u.total = t.total
          /\ u.wrote = t.wrote /\ u.keys = t.keys /\ u.left = t.left /\ u.item = t.item
          /\ u.live = FALSE /\ u.view = perChat
      BY DEF IsSaver, Fields
    <2>2. KeepsOld(t) = u
      BY <1>1 DEF KeepsOld
    <2> HIDE DEF u
    <2>3. InHand(u) = InHand(t)
      BY <2>1 DEF InHand
    <2>4. IsSaver(u)
      BY <1>1, <2>1, <2>3 DEF IsSaver
    <2> QED BY <1>1, <2>2, <2>4
  <1>2. CASE ~(t.at \in {"row", "commit"} /\ t.live)
    BY <1>2 DEF KeepsOld
  <1> QED BY <1>1, <1>2

\* A reset that has cleared memory.
Resetting(k) == [AtEase EXCEPT !.at = "reset", !.seen = k]

LEMMA ResettingIsSaver ==
    ASSUME NEW k \in Nat
    PROVE  IsSaver(Resetting(k)) /\ Resetting(k).at = "reset" /\ Resetting(k).seen = k
  BY SumOfNone DEF Resetting, AtEase, IsSaver, Fields

\* A reset clears memory; unless it was met, no save is under way.
LEMMA ResetMemoryInv ==
    ASSUME StatsInv, NEW s \in Saver, ResetMemory(s)
    PROVE  StatsInv'
  <1>1. /\ total' = 0 /\ perChat' = NoChats /\ UNCHANGED <<stored, starting>>
        /\ met' = (met \/ starting.at # "done" \/ \E p \in Saver \ {s} : saving[p].at # "idle")
    BY DEF ResetMemory
  <1>2. /\ DOMAIN saving' = Saver
        /\ saving'[s] = Resetting(stored.total)
        /\ \A p \in Saver \ {s} : saving'[p] = KeepsOld(saving[p])
    BY DEF ResetMemory, Resetting, KeepsOld
  <1>3. stored.total \in Nat /\ Counter(perChat) /\ \A p \in Saver : IsSaver(saving[p])
    BY DEF StatsInv, StatsKinds
  <1>4. StatsKinds'
    <2>1. \A p \in Saver : IsSaver(saving'[p])
      BY <1>2, <1>3, OldIsKept, ResettingIsSaver
    <2>2. met' \in BOOLEAN
      BY <1>1
    <2> QED BY <1>1, <1>2, <2>1, <2>2, SumOfNone DEF StatsInv, StatsKinds
  <1>5. ASSUME ~met'
        PROVE  Unmet'
    <2>1. ~met /\ starting.at = "done" /\ \A p \in Saver \ {s} : saving[p].at = "idle"
      BY <1>1, <1>5
    <2>2. \A p \in Saver \ {s} : saving'[p].at = "idle"
      BY <1>2, <1>3, <2>1, OldIsKept
    <2>3. CountsCovered'
      <3>1. stored.total <= SumOf(stored.chats)
        BY <2>1 DEF StatsInv, Unmet, CountsCovered
      <3>2. stored'.total <= SumOf(stored'.chats)
        BY <1>1, <3>1
      <3>3. total' <= SumOf(perChat')
        BY <1>1, SumOfNone
      <3> QED BY <3>2, <3>3 DEF CountsCovered
    <2>4. Started'
      BY <1>1, <2>1 DEF Started
    <2>5. ResetAlone'
      BY <1>1, <1>2, <1>3, <2>2, ResettingIsSaver DEF ResetAlone
    <2>6. \A p \in Saver : saving'[p].at \in {"idle", "reset"}
      BY <1>2, <1>3, <2>2, ResettingIsSaver
    <2>7. SavesKnow'
      BY <2>6 DEF SavesKnow, Knows
    <2> QED BY <2>3, <2>4, <2>5, <2>7 DEF Unmet
  <1> QED BY <1>4, <1>5 DEF StatsInv

\* A reset ends with nothing stored, and is over.
LEMMA ResetCommitInv ==
    ASSUME StatsInv, NEW s \in Saver, ResetCommit(s)
    PROVE  StatsInv'
  <1> DEFINE j == IF saving[s].seen # 0 THEN 0 ELSE stored.total
  <1>1. /\ stored' = [total |-> j, chats |-> NoChats]
        /\ saving' = [saving EXCEPT ![s] = AtEase] /\ saving[s].at = "reset"
        /\ UNCHANGED <<total, perChat, starting, met>>
    BY DEF ResetCommit, InMemory
  <1>2. DOMAIN saving' = Saver /\ \A p \in Saver : saving'[p] = IF p = s THEN AtEase ELSE saving[p]
    BY <1>1, OneSaver DEF StatsInv
  <1>3. /\ stored.total \in Nat /\ total \in Nat /\ Counter(perChat)
        /\ \A p \in Saver : IsSaver(saving[p])
    BY DEF StatsInv, StatsKinds
  <1>4. j \in Nat
    BY <1>3
  <1> HIDE DEF j
  <1>5. DOMAIN stored' = {"total", "chats"} /\ stored'.total = j /\ stored'.chats = NoChats
    BY <1>1
  <1>6. StatsKinds'
    <2>1. \A p \in Saver : IsSaver(saving'[p])
      BY <1>2, <1>3, EaseIsSaver
    <2> QED BY <1>1, <1>2, <1>4, <1>5, <2>1, SumOfNone DEF StatsInv, StatsKinds
  <1>7. ASSUME ~met
        PROVE  Unmet'
    <2>1. j = 0
      BY <1>1, <1>7 DEF StatsInv, Unmet, ResetAlone, j
    <2>2. CountsCovered'
      <3>1. total <= SumOf(perChat)
        BY <1>7 DEF StatsInv, Unmet, CountsCovered
      <3>2. total' <= SumOf(perChat')
        BY <1>1, <3>1
      <3>3. stored'.total <= SumOf(stored'.chats)
        BY <1>5, <2>1, SumOfNone
      <3> QED BY <3>2, <3>3 DEF CountsCovered
    <2>3. starting.at = "done" /\ \A p \in Saver \ {s} : saving[p].at # "reset"
      BY <1>1, <1>7 DEF StatsInv, Unmet, Started, ResetAlone
    <2>4. Started'
      BY <1>1, <2>3 DEF Started
    <2>5. ResetAlone'
      BY <1>2, <2>3, EaseIsSaver DEF ResetAlone
    <2>6. ASSUME NEW p \in Saver
          PROVE  Knows(saving'[p], total, perChat, 0)
      <3>1. CASE p = s
        BY <1>2, <3>1, EaseKnows
      <3>2. CASE p # s
        <4>1. Knows(saving[p], total, perChat, stored.total) /\ IsSaver(saving[p])
          BY <1>3, <1>7 DEF StatsInv, Unmet, SavesKnow
        <4>2. /\ \A c \in DOMAIN perChat : perChat[c] <= perChat[c]
              /\ total <= total /\ 0 <= stored.total /\ 0 \in Nat
          BY <1>3 DEF Counter
        <4>3. Knows(saving[p], total, perChat, 0)
          BY <1>3, <4>1, <4>2, KnowsMore
        <4> QED BY <1>2, <3>2, <4>3
      <3> QED BY <3>1, <3>2
    <2>7. SavesKnow'
      BY <1>1, <1>5, <2>1, <2>6 DEF SavesKnow
    <2> QED BY <2>2, <2>4, <2>5, <2>7 DEF Unmet
  <1> QED BY <1>1, <1>6, <1>7 DEF StatsInv

\* A message counts in the totals and in an entry.
LEMMA RecordMessageInv ==
    ASSUME StatsInv, NEW c \in StatChat, RecordMessage(c)
    PROVE  StatsInv'
  <1> DEFINE e == [x \in DOMAIN perChat \cup {c} |-> Count(perChat, x) + (IF x = c THEN 1 ELSE 0)]
  <1>1. total' = total + 1 /\ perChat' = e /\ UNCHANGED <<stored, saving, starting, met>>
    BY DEF RecordMessage
  <1>2. /\ stored.total \in Nat /\ total \in Nat /\ Counter(perChat)
        /\ \A p \in Saver : IsSaver(saving[p])
    BY DEF StatsInv, StatsKinds
  <1>3. /\ DOMAIN e = DOMAIN perChat \cup {c}
        /\ e[c] = IF c \in DOMAIN perChat THEN perChat[c] + 1 ELSE 1
        /\ \A x \in DOMAIN perChat : perChat[x] <= e[x]
        /\ \A x \in DOMAIN e : e[x] \in Nat
        /\ e = [x \in DOMAIN e |-> e[x]]
    BY <1>2 DEF Count, Counter
  <1> HIDE DEF e
  <1>4. IsFiniteSet(DOMAIN e)
    BY <1>2, <1>3, FS_AddElement DEF Counter
  <1>5. Counter(e)
    BY <1>3, <1>4 DEF Counter
  <1>6. StatsKinds'
    BY <1>1, <1>2, <1>5 DEF StatsInv, StatsKinds
  <1>7. ASSUME ~met
        PROVE  Unmet'
    <2>1. SumOf(perChat) + 1 <= SumOf(e)
      BY <1>2, <1>3, <1>5, SumsCount
    <2>2. SumOf(perChat) \in Nat /\ SumOf(e) \in Nat
      BY <1>2, <1>5, SumsAreNumbers
    <2>3. total <= SumOf(perChat) /\ stored.total <= SumOf(stored.chats)
      BY <1>7 DEF StatsInv, Unmet, CountsCovered
    <2>4. total + 1 <= SumOf(e)
      BY <1>2, <2>1, <2>2, <2>3
    <2>5. CountsCovered'
      BY <1>1, <2>3, <2>4 DEF CountsCovered
    <2>6. Started' /\ ResetAlone'
      BY <1>1, <1>7 DEF StatsInv, Unmet, Started, ResetAlone
    <2>7. ASSUME NEW p \in Saver
          PROVE  Knows(saving[p], total + 1, e, stored.total)
      <3>1. Knows(saving[p], total, perChat, stored.total) /\ IsSaver(saving[p])
        BY <1>2, <1>7 DEF StatsInv, Unmet, SavesKnow
      <3>2. /\ total <= total + 1 /\ total + 1 \in Nat /\ stored.total <= stored.total
            /\ DOMAIN perChat \subseteq DOMAIN e
        BY <1>2, <1>3
      <3> QED BY <1>2, <1>3, <1>5, <3>1, <3>2, KnowsMore
    <2>8. SavesKnow'
      BY <1>1, <2>7 DEF SavesKnow
    <2> QED BY <2>5, <2>6, <2>8 DEF Unmet
  <1> QED BY <1>1, <1>6, <1>7 DEF StatsInv

\* The switch of the counting.
LEMMA StatsStay ==
    ASSUME StatsInv, UNCHANGED <<total, perChat, stored, saving, starting, met>>
    PROVE  StatsInv'
  BY DEF StatsInv, StatsKinds, Unmet, CountsCovered, Started, ResetAlone, SavesKnow

\* The totals are read before anything is reset.
LEMMA StatsLoadTotalsInv ==
    ASSUME StatsInv, StatsLoadTotals
    PROVE  StatsInv'
  <1>1. /\ starting.at = "start" /\ starting'.at = "totals" /\ starting'.total = stored.total
        /\ UNCHANGED <<total, perChat, stored, saving, met>>
    BY DEF StatsLoadTotals
  <1>2. StatsKinds'
    BY <1>1 DEF StatsInv, StatsKinds
  <1>3. ASSUME ~met
        PROVE  Unmet'
    BY <1>1, <1>3 DEF StatsInv, Unmet, CountsCovered, Started, ResetAlone, SavesKnow
  <1> QED BY <1>1, <1>2, <1>3 DEF StatsInv

\* Memory becomes what is stored; unless it was met, no save is under way.
LEMMA StatsLoadInv ==
    ASSUME StatsInv, StatsLoad
    PROVE  StatsInv'
  <1>1. /\ starting.at = "totals" /\ total' = starting.total /\ perChat' = stored.chats
        /\ starting'.at = "done" /\ starting'.total = 0 /\ stored' = stored
        /\ met' = (met \/ \E p \in Saver : saving[p].at # "idle")
    BY DEF StatsLoad
  <1>2. DOMAIN saving' = Saver /\ \A p \in Saver : saving'[p] = KeepsOld(saving[p])
    BY DEF StatsLoad, KeepsOld
  <1>3. /\ Counter(perChat) /\ Counter(stored.chats) /\ starting.total \in Nat
        /\ \A p \in Saver : IsSaver(saving[p])
    BY DEF StatsInv, StatsKinds
  <1>4. StatsKinds'
    <2>1. \A p \in Saver : IsSaver(saving'[p])
      BY <1>2, <1>3, OldIsKept
    <2>2. met' \in BOOLEAN
      BY <1>1
    <2> QED BY <1>1, <1>2, <1>3, <2>1, <2>2 DEF StatsInv, StatsKinds
  <1>5. ASSUME ~met'
        PROVE  Unmet'
    <2>1. ~met /\ \A p \in Saver : saving[p].at = "idle"
      BY <1>1, <1>5
    <2>2. \A p \in Saver : saving'[p].at = "idle"
      BY <1>2, <1>3, <2>1, OldIsKept
    <2>3. starting.total = stored.total /\ stored.total <= SumOf(stored.chats)
      BY <1>1, <2>1 DEF StatsInv, Unmet, CountsCovered, Started
    <2>4. CountsCovered'
      BY <1>1, <2>3 DEF CountsCovered
    <2>5. Started' /\ ResetAlone' /\ SavesKnow'
      BY <1>1, <2>2 DEF Started, ResetAlone, SavesKnow, Knows
    <2> QED BY <2>4, <2>5 DEF Unmet
  <1> QED BY <1>4, <1>5 DEF StatsInv

\* Nothing but what is stored outlives the process.
LEMMA StatsCrashInv ==
    ASSUME StatsInv, StatsCrash
    PROVE  StatsInv'
  <1>1. /\ total' = 0 /\ perChat' = NoChats /\ DOMAIN saving' = Saver
        /\ \A s \in Saver : saving'[s] = AtEase
        /\ starting'.at = "start" /\ starting'.total = 0 /\ UNCHANGED <<stored, met>>
    BY DEF StatsCrash
  <1>2. StatsKinds'
    BY <1>1, EaseIsSaver, SumOfNone DEF StatsInv, StatsKinds
  <1>3. ASSUME ~met
        PROVE  Unmet'
    <2>1. stored.total <= SumOf(stored.chats)
      BY <1>3 DEF StatsInv, Unmet, CountsCovered
    <2>2. CountsCovered'
      BY <1>1, <2>1, SumOfNone DEF CountsCovered
    <2>3. Started' /\ ResetAlone' /\ SavesKnow'
      BY <1>1, EaseIsSaver DEF Started, ResetAlone, SavesKnow, Knows
    <2> QED BY <2>2, <2>3 DEF Unmet
  <1> QED BY <1>1, <1>2, <1>3 DEF StatsInv

\* What is stored at the first start is covered: nothing, or one message.
LEMMA FirstStats == EnvInit /\ StatsInit => StatsInv
  <1> SUFFICES ASSUME StatsInit
               PROVE  StatsInv
    OBVIOUS
  <1>1. /\ total = 0 /\ perChat = NoChats /\ DOMAIN saving = Saver
        /\ \A s \in Saver : saving[s] = AtEase
        /\ starting.at = "start" /\ starting.total = 0 /\ met = FALSE
    BY DEF StatsInit
  <1>2. /\ DOMAIN stored = {"total", "chats"} /\ stored.total \in {0, 1}
        /\ stored.chats \in {NoChats} \cup UNION {[{c} -> {1}] : c \in StatChat}
        /\ stored.total = Cardinality(DOMAIN stored.chats)
    BY DEF StatsInit
  <1>3. Counter(stored.chats) /\ stored.total <= SumOf(stored.chats)
    <2>1. CASE stored.chats = NoChats
      BY <1>2, <2>1, SumOfNone, FS_EmptySet
    <2>2. ASSUME NEW c \in StatChat, stored.chats \in [{c} -> {1}]
          PROVE  Counter(stored.chats) /\ stored.total <= SumOf(stored.chats)
      <3> DEFINE d == stored.chats
      <3>1. DOMAIN d = {c} /\ d[c] = 1 /\ d \in [{c} -> Nat]
        BY <2>2
      <3> HIDE DEF d
      <3>2. IsFiniteSet(DOMAIN d) /\ Cardinality(DOMAIN d) = 1
        BY <3>1, FS_Singleton
      <3>3. Messages(d) = {<<c, 1>>}
        BY <3>1 DEF Messages
      <3>4. SumOf(d) = 1
        BY <3>3, FS_Singleton DEF SumOf, Messages
      <3>5. Counter(d)
        BY <3>1, <3>2 DEF Counter
      <3> QED BY <1>2, <3>2, <3>4, <3>5 DEF d
    <2>3. stored.chats = NoChats \/ \E c \in StatChat : stored.chats \in [{c} -> {1}]
      BY <1>2
    <2> QED BY <2>1, <2>2, <2>3
  <1>4. StatsKinds
    <2>1. \A s \in Saver : IsSaver(saving[s])
      BY <1>1, EaseIsSaver
    <2>2. total \in Nat /\ Counter(perChat) /\ stored.total \in Nat
      BY <1>1, <1>2, SumOfNone
    <2>3. met \in BOOLEAN
      BY <1>1
    <2>4. starting.at \in {"start", "totals", "done"} /\ starting.total \in Nat
      BY <1>1
    <2> QED BY <1>1, <1>2, <1>3, <2>1, <2>2, <2>3, <2>4 DEF StatsKinds
  <1>5. CountsCovered
    BY <1>1, <1>3, SumOfNone DEF CountsCovered
  <1>6. Started /\ ResetAlone /\ SavesKnow
    BY <1>1, EaseIsSaver DEF Started, ResetAlone, SavesKnow, Knows
  <1> QED BY <1>4, <1>5, <1>6 DEF StatsInv, Unmet

\* Every step keeps the invariant.
LEMMA StatsStepInv ==
    ASSUME StatsInv, [StatsNext]_<<envVars, statsVars>>
    PROVE  StatsInv'
  <1>1. ASSUME NEW c \in StatChat, RecordMessage(c) PROVE StatsInv'
    BY <1>1, RecordMessageInv
  <1>2. ASSUME NEW b \in BOOLEAN, StatsSwitch(b) PROVE StatsInv'
    BY <1>2, StatsStay DEF StatsSwitch
  <1>3. ASSUME NEW s \in Saver, SaveBegin(s) PROVE StatsInv'
    BY <1>3, SaveBeginInv
  <1>4. ASSUME NEW s \in Saver, SaveTotals(s) PROVE StatsInv'
    BY <1>4, SaveTotalsInv
  <1>5. ASSUME NEW s \in Saver, SaveRow(s) PROVE StatsInv'
    BY <1>5, SaveRowInv
  <1>14. ASSUME NEW s \in Saver, SaveChats(s) PROVE StatsInv'
    BY <1>14, SaveChatsInv
  <1>6. ASSUME NEW s \in Saver, SaveCommit(s) PROVE StatsInv'
    BY <1>6, SaveCommitInv
  <1>7. ASSUME NEW s \in Saver, SaveRaises(s) PROVE StatsInv'
    BY <1>7, SaveRaisesInv
  <1>8. ASSUME NEW s \in Saver, ResetMemory(s) PROVE StatsInv'
    BY <1>8, ResetMemoryInv
  <1>9. ASSUME NEW s \in Saver, ResetCommit(s) PROVE StatsInv'
    BY <1>9, ResetCommitInv
  <1>10. CASE StatsLoadTotals
    BY <1>10, StatsLoadTotalsInv
  <1>11. CASE StatsLoad
    BY <1>11, StatsLoadInv
  <1>12. CASE StatsCrash
    BY <1>12, StatsCrashInv
  <1>13. CASE UNCHANGED <<envVars, statsVars>>
    BY <1>13, StatsStay DEF statsVars
  <1> QED
    BY <1>1, <1>2, <1>3, <1>4, <1>5, <1>6, <1>7, <1>8, <1>9, <1>10, <1>11, <1>12, <1>13, <1>14 DEF StatsNext

\* The totals that are saved, and those in memory, are never more than what the
\* entries beside them add up to, whatever the tasks that save, reset and load
\* do meanwhile, until a save meets a reset, the load, or a save that takes no lock
\* on the totals (stats_repo.py:46-79).
THEOREM CountsAlwaysCovered == StatsSpec => []CountsCovered
  <1>1. EnvInit /\ StatsInit => StatsInv
    BY FirstStats
  <1>2. StatsInv /\ [StatsNext]_<<envVars, statsVars>> => StatsInv'
    BY StatsStepInv
  <1>3. StatsInv => CountsCovered
    BY DEF StatsInv, Unmet, CountsCovered
  <1> QED BY <1>1, <1>2, <1>3, PTL DEF StatsSpec

-----------------------------------------------------------------------------
(* Names as sequences of tokens.                                           *)

Sign  == {"space", "|", "icon", "star", "<", ">", "[", "]", "d", "D", ":", "wide:", "-", "dot"}
Token == STRING \cup Sign
Text  == Seq(Token)

LEMMA FromIs ==
    ASSUME NEW q \in Text, NEW i \in 1..(Len(q) + 1)
    PROVE  /\ From(q, i) \in Text /\ Len(From(q, i)) = Len(q) - i + 1
           /\ \A j \in 1..(Len(q) - i + 1) : From(q, i)[j] = q[i + j - 1]
  <1>1. Len(q) \in Nat /\ \A j \in i..Len(q) : q[j] \in Token
    BY LenProperties DEF Text
  <1> QED BY <1>1, SubSeqProperties DEF From, Text

LEMMA TailIs ==
    ASSUME NEW q \in Text, Len(q) >= 1
    PROVE  Tail(q) = From(q, 2)
  <1>1. q # <<>>
    BY EmptySeq
  <1> QED BY <1>1, TailIsSubSeq DEF From, Text

LEMMA TailOf ==
    ASSUME NEW q \in Text, NEW n \in Nat, Len(q) = n + 1
    PROVE  /\ Tail(q) \in Text /\ Len(Tail(q)) = n
           /\ \A i \in 1..n : Tail(q)[i] = q[i + 1]
  <1>1. q # <<>>
    BY EmptySeq
  <1>2. /\ Tail(q) \in Seq(Token) /\ Len(Tail(q)) = Len(q) - 1
        /\ \A i \in 1..Len(Tail(q)) : Tail(q)[i] = q[i + 1]
    BY <1>1, HeadTailProperties DEF Text
  <1>3. Len(Tail(q)) = n
    BY <1>2
  <1> QED BY <1>2, <1>3 DEF Text

\* The second of two texts begins where the first one ends.
LEMMA CatIs ==
    ASSUME NEW a \in Text, NEW b \in Text
    PROVE  /\ Len(a) \in Nat /\ Len(b) \in Nat
           /\ a \o b \in Text /\ Len(a \o b) = Len(a) + Len(b)
           /\ \A i \in 1..Len(a) : (a \o b)[i] = a[i]
           /\ \A i \in (Len(a) + 1)..(Len(a) + Len(b)) : (a \o b)[i] = b[i - Len(a)]
  <1> DEFINE q == a \o b
  <1>1. /\ q \in Seq(Token) /\ Len(q) = Len(a) + Len(b)
        /\ \A i \in 1..(Len(a) + Len(b)) : q[i] = IF i <= Len(a) THEN a[i] ELSE b[i - Len(a)]
    BY ConcatProperties DEF Text
  <1>2. Len(a) \in Nat /\ Len(b) \in Nat
    BY LenProperties DEF Text
  <1> HIDE DEF q
  <1>3. \A i \in 1..Len(a) : i \in 1..(Len(a) + Len(b)) /\ i <= Len(a)
    BY <1>2
  <1>4. \A i \in (Len(a) + 1)..(Len(a) + Len(b)) : i \in 1..(Len(a) + Len(b)) /\ ~(i <= Len(a))
    BY <1>2
  <1>5. /\ q \in Text /\ Len(q) = Len(a) + Len(b)
        /\ \A i \in 1..Len(a) : q[i] = a[i]
        /\ \A i \in (Len(a) + 1)..(Len(a) + Len(b)) : q[i] = b[i - Len(a)]
    BY <1>1, <1>3, <1>4 DEF Text
  <1> QED BY <1>2, <1>5 DEF q

\* From the second token on.
LEMMA SecondOn ==
    ASSUME NEW q \in Text, NEW n \in Nat, Len(q) = n + 1
    PROVE  /\ From(q, 2) \in Text /\ Len(From(q, 2)) = n
           /\ \A i \in 1..n : From(q, 2)[i] = q[i + 1]
  <1>1. Len(q) >= 1
    OBVIOUS
  <1> QED BY <1>1, TailIs, TailOf

LEMMA FromFrom ==
    ASSUME NEW q \in Text, NEW i \in 1..Len(q), NEW j \in 1..(Len(q) - i + 1)
    PROVE  From(From(q, i), j) = From(q, i + j - 1)
  <1>1. Len(q) \in Nat /\ Len(q) \in 1..Len(q)
    BY LenProperties DEF Text
  <1>2. Len(From(q, i)) = Len(q) - i + 1
    BY <1>1, FromIs
  <1>3. Len(q) - i + 1 \in 1..(Len(q) - i + 1)
    BY <1>1
  <1>4. SubSeq(SubSeq(q, i, Len(q)), j, Len(q) - i + 1) = SubSeq(q, i + j - 1, i + (Len(q) - i + 1) - 1)
    BY <1>1, <1>3, SubSeqOfSubSeq DEF Text
  <1>5. i + (Len(q) - i + 1) - 1 = Len(q)
    BY <1>1
  <1> QED BY <1>2, <1>4, <1>5 DEF From

\* Places have a first and a last one.
LEMMA FirstPlace ==
    ASSUME NEW T \in SUBSET Nat, T # {}
    PROVE  \E i \in T : \A j \in T : i <= j
  <1>1. \A x, y \in Nat : y < x => <<y, x>> \in OpToRel(<, Nat)
    BY DEF OpToRel
  <1> QED BY <1>1, NatLessThanWellFounded, LeastInOrder

LEMMA LastPlace ==
    ASSUME NEW n \in Nat, NEW T \in SUBSET (1..n), T # {}
    PROVE  \E i \in T : \A j \in T : j <= i
  <1> DEFINE D == {n - i : i \in T}
  <1>1. D \in SUBSET Nat /\ D # {}
    <2>1. \A i \in T : n - i \in Nat
      OBVIOUS
    <2>2. PICK i \in T : TRUE
      OBVIOUS
    <2> QED BY <2>1, <2>2
  <1>2. PICK d \in D : \A e \in D : d <= e
    BY <1>1, FirstPlace
  <1>3. PICK i \in T : d = n - i
    BY <1>2
  <1>4. \A j \in T : n - i <= n - j
    BY <1>2, <1>3
  <1> QED BY <1>4

\* The places that are no space.
LEMMA LeftTrimIs ==
    ASSUME NEW q \in Text, NEW k \in 1..Len(q), q[k] # "space", \A j \in 1..Len(q) : j < k => q[j] = "space"
    PROVE  LeftTrim(q) = From(q, k)
  <1>1. Len(q) \in Nat
    BY LenProperties DEF Text
  <1>2. k \in Letters(q)
    BY DEF Letters
  <1>3. \A j \in Letters(q) : k <= j
    BY <1>1 DEF Letters
  <1>4. \A i \in Letters(q) : (\A j \in Letters(q) : i <= j) => i = k
    BY <1>1, <1>2, <1>3 DEF Letters
  <1>5. (CHOOSE i \in Letters(q) : \A j \in Letters(q) : i <= j) = k
    BY <1>2, <1>3, <1>4
  <1> QED BY <1>2, <1>5 DEF LeftTrim

LEMMA LeftTrimFinds ==
    ASSUME NEW q \in Text, NEW j \in 1..Len(q), q[j] # "space"
    PROVE  \E k \in 1..Len(q) : k <= j /\ q[k] # "space" /\ LeftTrim(q) = From(q, k)
  <1>1. Len(q) \in Nat
    BY LenProperties DEF Text
  <1>2. Letters(q) \in SUBSET Nat /\ Letters(q) # {}
    BY <1>1 DEF Letters
  <1>3. PICK k \in Letters(q) : \A i \in Letters(q) : k <= i
    BY <1>2, FirstPlace
  <1>4. k \in 1..Len(q) /\ q[k] # "space" /\ k <= j /\ \A i \in 1..Len(q) : i < k => q[i] = "space"
    BY <1>1, <1>3 DEF Letters
  <1>5. LeftTrim(q) = From(q, k)
    BY <1>4, LeftTrimIs
  <1> QED BY <1>4, <1>5

LEMMA RightTrimIs ==
    ASSUME NEW q \in Text, NEW k \in 1..Len(q), q[k] # "space", \A j \in 1..Len(q) : j > k => q[j] = "space"
    PROVE  RightTrim(q) = SubSeq(q, 1, k)
  <1>1. Len(q) \in Nat
    BY LenProperties DEF Text
  <1>2. k \in Letters(q)
    BY DEF Letters
  <1>3. \A j \in Letters(q) : j <= k
    BY <1>1 DEF Letters
  <1>4. \A i \in Letters(q) : (\A j \in Letters(q) : j <= i) => i = k
    BY <1>1, <1>2, <1>3 DEF Letters
  <1>5. (CHOOSE i \in Letters(q) : \A j \in Letters(q) : j <= i) = k
    BY <1>2, <1>3, <1>4
  <1> QED BY <1>2, <1>5 DEF RightTrim

LEMMA RightTrimFinds ==
    ASSUME NEW q \in Text
    PROVE  \/ RightTrim(q) = <<>> /\ \A j \in 1..Len(q) : q[j] = "space"
           \/ \E k \in 1..Len(q) : /\ RightTrim(q) = SubSeq(q, 1, k) /\ q[k] # "space"
                                   /\ \A j \in 1..Len(q) : j > k => q[j] = "space"
  <1>1. Len(q) \in Nat
    BY LenProperties DEF Text
  <1>2. CASE Letters(q) = {}
    BY <1>2 DEF Letters, RightTrim
  <1>3. CASE Letters(q) # {}
    <2>1. Letters(q) \in SUBSET (1..Len(q))
      BY DEF Letters
    <2>2. PICK k \in Letters(q) : \A i \in Letters(q) : i <= k
      BY <1>1, <1>3, <2>1, LastPlace
    <2>3. k \in 1..Len(q) /\ q[k] # "space" /\ \A j \in 1..Len(q) : j > k => q[j] = "space"
      BY <1>1, <2>2 DEF Letters
    <2>4. RightTrim(q) = SubSeq(q, 1, k)
      BY <2>3, RightTrimIs
    <2> QED BY <2>3, <2>4
  <1> QED BY <1>2, <1>3

LEMMA StartIs ==
    ASSUME NEW q \in Text, NEW k \in 0..Len(q)
    PROVE  /\ SubSeq(q, 1, k) \in Text /\ Len(SubSeq(q, 1, k)) = k
           /\ \A j \in 1..k : SubSeq(q, 1, k)[j] = q[j]
  <1>1. Len(q) \in Nat /\ \A j \in 1..k : q[j] \in Token
    BY LenProperties DEF Text
  <1>2. /\ SubSeq(q, 1, k) \in Seq(Token)
        /\ Len(SubSeq(q, 1, k)) = IF 1 <= k THEN k - 1 + 1 ELSE 0
        /\ \A i \in 1..(k - 1 + 1) : SubSeq(q, 1, k)[i] = q[1 + i - 1]
    BY <1>1, SubSeqProperties
  <1> QED BY <1>1, <1>2 DEF Text

LEMMA RightTrimEnds ==
    ASSUME NEW q \in Text
    PROVE  /\ RightTrim(q) \in Text /\ Len(RightTrim(q)) <= Len(q)
           /\ \A j \in 1..Len(RightTrim(q)) : RightTrim(q)[j] = q[j]
           /\ Len(RightTrim(q)) # 0 => RightTrim(q)[Len(RightTrim(q))] # "space"
           /\ \A j \in 1..Len(q) : j > Len(RightTrim(q)) => q[j] = "space"
           /\ RightTrim(q) = SubSeq(q, 1, Len(RightTrim(q)))
  <1>1. Len(q) \in Nat
    BY LenProperties DEF Text
  <1>2. CASE RightTrim(q) = <<>> /\ \A j \in 1..Len(q) : q[j] = "space"
    <2>1. Len(RightTrim(q)) = 0 /\ RightTrim(q) \in Text
      BY <1>2, EmptySeq DEF Text
    <2>2. SubSeq(q, 1, 0) = <<>>
      BY SubSeqEmpty
    <2> QED BY <1>1, <1>2, <2>1, <2>2
  <1>3. ASSUME NEW k \in 1..Len(q), RightTrim(q) = SubSeq(q, 1, k), q[k] # "space",
               \A j \in 1..Len(q) : j > k => q[j] = "space"
        PROVE  /\ RightTrim(q) \in Text /\ Len(RightTrim(q)) = k /\ k <= Len(q)
               /\ \A j \in 1..k : RightTrim(q)[j] = q[j]
               /\ RightTrim(q)[k] # "space"
    BY <1>1, <1>3, StartIs
  <1> QED BY <1>1, <1>2, <1>3, RightTrimFinds

-----------------------------------------------------------------------------
(* A bar is no part of a time.                                             *)

Has(q, x) == \E j \in 1..Len(q) : q[j] = x

LEMMA TimeHasNoBar ==
    ASSUME NEW q \in Text, Has(q, "|")
    PROVE  ~AnyTime(q) /\ \A sep \in {":", "-", "dot"} : ~Ascii(q, sep)
  <1>1. ASSUME NEW D, NEW S, "|" \notin D, "|" \notin S, IsTime(q, D, S)
        PROVE  FALSE
    <2>1. Len(q) = 5 /\ q[1] \in D /\ q[2] \in D /\ q[4] \in D /\ q[5] \in D /\ q[3] \in S
      BY <1>1 DEF IsTime
    <2>2. PICK j \in 1..5 : q[j] = "|"
      BY <2>1 DEF Has
    <2>3. j = 1 \/ j = 2 \/ j = 3 \/ j = 4 \/ j = 5
      OBVIOUS
    <2> QED BY <1>1, <2>1, <2>2, <2>3
  <1>2. "|" \notin {"d", "D"} /\ "|" \notin {":", "wide:"} /\ "|" \notin {"d"}
    OBVIOUS
  <1>3. \A sep \in {":", "-", "dot"} : "|" \notin {sep}
    OBVIOUS
  <1> QED BY <1>1, <1>2, <1>3 DEF AnyTime, Ascii

LEMMA LeftTrimHas ==
    ASSUME NEW q \in Text, Has(q, "|")
    PROVE  LeftTrim(q) \in Text /\ Has(LeftTrim(q), "|")
  <1>1. PICK j \in 1..Len(q) : q[j] = "|"
    BY DEF Has
  <1>2. PICK k \in 1..Len(q) : k <= j /\ LeftTrim(q) = From(q, k)
    BY <1>1, LeftTrimFinds
  <1>3. Len(q) \in Nat
    BY LenProperties DEF Text
  <1>4. /\ From(q, k) \in Text /\ Len(From(q, k)) = Len(q) - k + 1
        /\ \A i \in 1..(Len(q) - k + 1) : From(q, k)[i] = q[k + i - 1]
    BY <1>3, FromIs
  <1>5. j - k + 1 \in 1..(Len(q) - k + 1) /\ k + (j - k + 1) - 1 = j
    BY <1>2, <1>3
  <1> QED BY <1>1, <1>2, <1>4, <1>5 DEF Has

LEMMA RightTrimHas ==
    ASSUME NEW q \in Text, Has(q, "|")
    PROVE  RightTrim(q) \in Text /\ Has(RightTrim(q), "|")
  <1>1. PICK j \in 1..Len(q) : q[j] = "|"
    BY DEF Has
  <1>2. RightTrim(q) \in Text /\ Len(RightTrim(q)) \in Nat
    BY RightTrimEnds, LenProperties DEF Text
  <1>3. j <= Len(RightTrim(q))
    BY <1>1, <1>2, RightTrimEnds
  <1> QED BY <1>1, <1>2, <1>3, RightTrimEnds DEF Has

\* Past the first token, and inside of the first and the last.
LEMMA TailHas ==
    ASSUME NEW q \in Text, NEW j \in 2..Len(q), q[j] = "|"
    PROVE  Tail(q) \in Text /\ Has(Tail(q), "|")
  <1>1. Len(q) \in Nat
    BY LenProperties DEF Text
  <1>2. Tail(q) = From(q, 2)
    BY <1>1, TailIs
  <1>3. /\ From(q, 2) \in Text /\ Len(From(q, 2)) = Len(q) - 2 + 1
        /\ \A i \in 1..(Len(q) - 2 + 1) : From(q, 2)[i] = q[2 + i - 1]
    BY <1>1, FromIs
  <1>4. j - 1 \in 1..(Len(q) - 2 + 1) /\ 2 + (j - 1) - 1 = j
    BY <1>1
  <1> QED BY <1>2, <1>3, <1>4 DEF Has

LEMMA InsideIs ==
    ASSUME NEW q \in Text, NEW n \in Nat, Len(q) = n + 2
    PROVE  /\ Inside(q) \in Text /\ Len(Inside(q)) = n
           /\ \A i \in 1..n : Inside(q)[i] = q[i + 1]
  <1>1. \A i \in 2..(n + 1) : q[i] \in Token
    BY LenProperties DEF Text
  <1>2. 2 \in Int /\ n + 1 \in Int /\ Len(q) - 1 = n + 1
    OBVIOUS
  <1>3. /\ SubSeq(q, 2, n + 1) \in Seq(Token)
        /\ Len(SubSeq(q, 2, n + 1)) = IF 2 <= n + 1 THEN (n + 1) - 2 + 1 ELSE 0
        /\ \A i \in 1..((n + 1) - 2 + 1) : SubSeq(q, 2, n + 1)[i] = q[2 + i - 1]
    BY <1>1, <1>2, SubSeqProperties
  <1>4. /\ (n + 1) - 2 + 1 = n
        /\ (IF 2 <= n + 1 THEN (n + 1) - 2 + 1 ELSE 0) = n
        /\ \A i \in 1..n : 2 + i - 1 = i + 1
    OBVIOUS
  <1> QED BY <1>2, <1>3, <1>4 DEF Inside, Text

LEMMA InsideHas ==
    ASSUME NEW q \in Text, NEW j \in 2..Len(q), j # Len(q), q[j] = "|"
    PROVE  Inside(q) \in Text /\ Has(Inside(q), "|")
  <1>1. Len(q) \in Nat
    BY LenProperties DEF Text
  <1>2. /\ Len(q) - 2 \in Nat /\ Len(q) = (Len(q) - 2) + 2
        /\ j - 1 \in 1..(Len(q) - 2) /\ (j - 1) + 1 = j
    BY <1>1
  <1>3. Inside(q) \in Text /\ Len(Inside(q)) = Len(q) - 2 /\ Inside(q)[j - 1] = q[j]
    BY <1>2, InsideIs
  <1> QED BY <1>2, <1>3 DEF Has

LEMMA BarNoClock ==
    ASSUME NEW q \in Text, Has(q, "|")
    PROVE  ~IsClock(q)
  <1>1. ~AnyTime(q) /\ ~Ascii(q, "-")
    BY TimeHasNoBar
  <1>2. PICK j \in 1..Len(q) : q[j] = "|"
    BY DEF Has
  <1>3. Len(q) \in Nat
    BY LenProperties DEF Text
  <1>4. ~(q[1] = "icon" /\ (AnyTime(LeftTrim(Tail(q))) \/ Ascii(LeftTrim(Tail(q)), "dot")))
    <2> SUFFICES ASSUME q[1] = "icon"
                 PROVE  ~AnyTime(LeftTrim(Tail(q))) /\ ~Ascii(LeftTrim(Tail(q)), "dot")
      OBVIOUS
    <2>1. j \in 2..Len(q)
      BY <1>2, <1>3
    <2>2. Tail(q) \in Text /\ Has(Tail(q), "|")
      BY <1>2, <2>1, TailHas
    <2> QED BY <2>2, LeftTrimHas, TimeHasNoBar
  <1>5. q[1] # "|" /\ q[Len(q)] # "|" => Inside(q) \in Text /\ Has(Inside(q), "|")
    <2> SUFFICES ASSUME q[1] # "|", q[Len(q)] # "|"
                 PROVE  Inside(q) \in Text /\ Has(Inside(q), "|")
      OBVIOUS
    <2>1. j \in 2..Len(q) /\ j # Len(q)
      BY <1>2, <1>3
    <2> QED BY <1>2, <2>1, InsideHas
  <1>6. ~(q[1] = "<" /\ q[Len(q)] = ">" /\ Ascii(Inside(q), ":"))
    BY <1>5, TimeHasNoBar
  <1>7. ~(q[1] = "[" /\ q[Len(q)] = "]" /\ Ascii(Inside(q), ":"))
    BY <1>5, TimeHasNoBar
  <1>8. ~(q[1] = "star" /\ q[Len(q)] = "star" /\ Ascii(RightTrim(LeftTrim(Inside(q))), ":"))
    <2> SUFFICES ASSUME q[1] = "star", q[Len(q)] = "star"
                 PROVE  ~Ascii(RightTrim(LeftTrim(Inside(q))), ":")
      OBVIOUS
    <2>1. Inside(q) \in Text /\ Has(Inside(q), "|")
      BY <1>5
    <2>2. LeftTrim(Inside(q)) \in Text /\ Has(LeftTrim(Inside(q)), "|")
      BY <2>1, LeftTrimHas
    <2> QED BY <2>2, RightTrimHas, TimeHasNoBar
  <1> QED BY <1>1, <1>4, <1>6, <1>7, <1>8 DEF IsClock

-----------------------------------------------------------------------------
(* What the fifteen styles write is found again.                           *)

\* A text that reads as a time, and neither begins nor ends with a space.
Worn(q) ==
    /\ q \in Text /\ Len(q) >= 1 /\ q[1] # "space" /\ q[Len(q)] # "space"
    /\ IsClock(q)

LEMMA TimeIs ==
    ASSUME NEW d \in {"d", "D"}, NEW sep \in {":", "wide:", "-", "dot"}
    PROVE  LET t == Time(d, sep)
           IN  /\ t \in Text /\ Len(t) = 5
               /\ t[1] = d /\ t[2] = d /\ t[3] = sep /\ t[4] = d /\ t[5] = d
  <1>1. d \in Token /\ sep \in Token
    BY DEF Token, Sign
  <1> HIDE DEF Token
  <1> QED BY <1>1 DEF Time, Text

\* Five tokens: a time of any digits, or one of ours.
LEMMA FiveAreATime ==
    ASSUME NEW q \in Text, NEW d \in {"d", "D"}, NEW sep, Len(q) = 5,
           q[1] = d, q[2] = d, q[3] = sep, q[4] = d, q[5] = d
    PROVE  /\ sep \in {":", "wide:"} => AnyTime(q)
           /\ d = "d" => Ascii(q, sep)
  BY DEF AnyTime, Ascii, IsTime

LEMMA PlainTimes ==
    ASSUME NEW d \in {"d", "D"}, NEW sep \in {":", "wide:", "-"}, sep = "-" => d = "d"
    PROVE  Worn(Time(d, sep))
  <1> DEFINE t == Time(d, sep)
  <1>1. /\ t \in Text /\ Len(t) = 5
        /\ t[1] = d /\ t[2] = d /\ t[3] = sep /\ t[4] = d /\ t[5] = d
    BY TimeIs
  <1> HIDE DEF t
  <1>2. AnyTime(t) \/ Ascii(t, "-")
    BY <1>1, FiveAreATime
  <1>3. Worn(t)
    BY <1>1, <1>2 DEF Worn, IsClock
  <1> QED BY <1>3 DEF t

LEMMA IconTimes ==
    ASSUME NEW sep \in {":", "dot"}
    PROVE  Worn(<<"icon", "space">> \o Time("d", sep))
  <1> DEFINE p == <<"icon", "space">>
             t == Time("d", sep)
             q == p \o t
             u == From(Tail(q), 2)
  <1>1. /\ t \in Text /\ Len(t) = 5
        /\ t[1] = "d" /\ t[2] = "d" /\ t[3] = sep /\ t[4] = "d" /\ t[5] = "d"
    BY TimeIs
  <1>2. p \in Text /\ Len(p) = 2 /\ p[1] = "icon" /\ p[2] = "space"
    <2>1. "icon" \in Token /\ "space" \in Token
      BY DEF Token, Sign
    <2> HIDE DEF Token
    <2> QED BY <2>1 DEF Text
  <1> HIDE DEF p, t
  <1>3. /\ q \in Text /\ Len(q) = 2 + 5
        /\ \A i \in 1..2 : q[i] = p[i]
        /\ \A i \in (2 + 1)..(2 + 5) : q[i] = t[i - 2]
    <2>1. /\ q \in Text /\ Len(q) = Len(p) + Len(t)
          /\ \A i \in 1..Len(p) : q[i] = p[i]
          /\ \A i \in (Len(p) + 1)..(Len(p) + Len(t)) : q[i] = t[i - Len(p)]
      BY <1>1, <1>2, CatIs
    <2> HIDE DEF q
    <2> QED BY <1>1, <1>2, <2>1
  <1> HIDE DEF q
  <1>4. /\ q[1] = "icon" /\ q[2] = "space" /\ q[3] = "d" /\ q[4] = "d" /\ q[5] = sep
        /\ q[6] = "d" /\ q[7] = "d"
    BY <1>1, <1>2, <1>3
  <1>5. /\ Tail(q) \in Text /\ Len(Tail(q)) = 6
        /\ \A i \in 1..6 : Tail(q)[i] = q[i + 1]
    <2>1. 6 \in Nat /\ Len(q) = 6 + 1
      BY <1>3
    <2> QED BY <1>3, <2>1, TailOf
  <1>6. LeftTrim(Tail(q)) = u
    <2>1. /\ 2 \in 1..Len(Tail(q)) /\ Tail(q)[2] # "space"
          /\ \A j \in 1..Len(Tail(q)) : j < 2 => Tail(q)[j] = "space"
      BY <1>4, <1>5
    <2> QED BY <1>5, <2>1, LeftTrimIs
  <1>7. u \in Text /\ Len(u) = 5 /\ \A i \in 1..5 : u[i] = Tail(q)[i + 1]
    <2>1. 5 \in Nat /\ Len(Tail(q)) = 5 + 1
      BY <1>5
    <2> QED BY <1>5, <2>1, SecondOn
  <1> HIDE DEF u
  <1>8. AnyTime(u) \/ Ascii(u, "dot")
    BY <1>4, <1>5, <1>7, FiveAreATime
  <1>9. Worn(q)
    BY <1>3, <1>4, <1>6, <1>8 DEF Worn, IsClock
  <1> QED BY <1>9 DEF p, q, t

\* A time between what comes before it and what comes behind.
LEMMA Between ==
    ASSUME NEW a \in Text, NEW b \in Text
    PROVE  LET q == (a \o Time("d", ":")) \o b
           IN  /\ Len(a) \in Nat /\ Len(b) \in Nat
               /\ q \in Text /\ Len(q) = Len(a) + 5 + Len(b)
               /\ \A i \in 1..Len(a) : q[i] = a[i]
               /\ \A i \in (Len(a) + 1)..(Len(a) + 5) : q[i] = Time("d", ":")[i - Len(a)]
               /\ \A i \in (Len(a) + 5 + 1)..(Len(a) + 5 + Len(b)) : q[i] = b[i - (Len(a) + 5)]
  <1> DEFINE t == Time("d", ":")
             h == a \o t
             q == h \o b
  <1>1. t \in Text /\ Len(t) = 5
    BY TimeIs
  <1> HIDE DEF t
  <1>2. /\ h \in Text /\ Len(h) = Len(a) + 5
        /\ \A i \in 1..Len(a) : h[i] = a[i]
        /\ \A i \in (Len(a) + 1)..(Len(a) + 5) : h[i] = t[i - Len(a)]
    <2>1. /\ h \in Text /\ Len(h) = Len(a) + Len(t) /\ Len(a) \in Nat
          /\ \A i \in 1..Len(a) : h[i] = a[i]
          /\ \A i \in (Len(a) + 1)..(Len(a) + Len(t)) : h[i] = t[i - Len(a)]
      BY <1>1, CatIs
    <2> HIDE DEF h
    <2> QED BY <1>1, <2>1
  <1> HIDE DEF h
  <1>3. /\ q \in Text /\ Len(q) = Len(h) + Len(b)
        /\ \A i \in 1..Len(h) : q[i] = h[i]
        /\ \A i \in (Len(h) + 1)..(Len(h) + Len(b)) : q[i] = b[i - Len(h)]
    BY <1>2, CatIs
  <1>4. Len(a) \in Nat /\ Len(b) \in Nat
    BY LenProperties DEF Text
  <1>5. /\ \A i \in 1..Len(a) : i \in 1..(Len(a) + 5)
        /\ \A i \in (Len(a) + 1)..(Len(a) + 5) : i \in 1..(Len(a) + 5)
    BY <1>4
  <1> HIDE DEF q
  <1>6. /\ q \in Text /\ Len(q) = Len(a) + 5 + Len(b)
        /\ \A i \in 1..Len(a) : q[i] = a[i]
        /\ \A i \in (Len(a) + 1)..(Len(a) + 5) : q[i] = t[i - Len(a)]
        /\ \A i \in (Len(a) + 5 + 1)..(Len(a) + 5 + Len(b)) : q[i] = b[i - (Len(a) + 5)]
    BY <1>2, <1>3, <1>5
  <1> QED BY <1>4, <1>6 DEF q, h, t

LEMMA BracketTimes ==
    ASSUME NEW x, NEW y, (x = "<" /\ y = ">") \/ (x = "[" /\ y = "]")
    PROVE  Worn(<<x>> \o Time("d", ":") \o <<y>>)
  <1> DEFINE a == <<x>>
             b == <<y>>
             q == (a \o Time("d", ":")) \o b
  <1>1. a \in Text /\ Len(a) = 1 /\ a[1] = x /\ b \in Text /\ Len(b) = 1 /\ b[1] = y
    <2>1. x \in Token /\ y \in Token
      BY DEF Token, Sign
    <2> HIDE DEF Token
    <2> QED BY <2>1 DEF Text
  <1> HIDE DEF a, b
  <1>2. /\ q \in Text /\ Len(q) = 7 /\ q[1] = x /\ q[7] = y
        /\ q[2] = "d" /\ q[3] = "d" /\ q[4] = ":" /\ q[5] = "d" /\ q[6] = "d"
    <2>1. /\ q \in Text /\ Len(q) = Len(a) + 5 + Len(b)
          /\ \A i \in 1..Len(a) : q[i] = a[i]
          /\ \A i \in (Len(a) + 1)..(Len(a) + 5) : q[i] = Time("d", ":")[i - Len(a)]
          /\ \A i \in (Len(a) + 5 + 1)..(Len(a) + 5 + Len(b)) : q[i] = b[i - (Len(a) + 5)]
      BY <1>1, Between
    <2> HIDE DEF q
    <2> QED BY <1>1, <2>1, TimeIs
  <1> HIDE DEF q
  <1>3. Inside(q) \in Text /\ Len(Inside(q)) = 5 /\ \A i \in 1..5 : Inside(q)[i] = q[i + 1]
    <2>1. 5 \in Nat /\ Len(q) = 5 + 2
      BY <1>2
    <2> QED BY <1>2, <2>1, InsideIs
  <1>4. Ascii(Inside(q), ":")
    BY <1>2, <1>3, FiveAreATime
  <1>5. Worn(q)
    BY <1>2, <1>4 DEF Worn, IsClock
  <1> QED BY <1>5 DEF a, b, q

LEMMA StarTime == Worn(<<"star", "space">> \o Time("d", ":") \o <<"space", "star">>)
  <1> DEFINE a == <<"star", "space">>
             b == <<"space", "star">>
             q == (a \o Time("d", ":")) \o b
             t == Inside(q)
             u == From(t, 2)
             v == SubSeq(u, 1, 5)
  <1>1. /\ a \in Text /\ Len(a) = 2 /\ a[1] = "star" /\ a[2] = "space"
        /\ b \in Text /\ Len(b) = 2 /\ b[1] = "space" /\ b[2] = "star"
    <2>1. "star" \in Token /\ "space" \in Token
      BY DEF Token, Sign
    <2> HIDE DEF Token
    <2> QED BY <2>1 DEF Text
  <1> HIDE DEF a, b
  <1>2. /\ q \in Text /\ Len(q) = 9 /\ q[1] = "star" /\ q[2] = "space" /\ q[8] = "space" /\ q[9] = "star"
        /\ q[3] = "d" /\ q[4] = "d" /\ q[5] = ":" /\ q[6] = "d" /\ q[7] = "d"
    <2>1. /\ q \in Text /\ Len(q) = Len(a) + 5 + Len(b)
          /\ \A i \in 1..Len(a) : q[i] = a[i]
          /\ \A i \in (Len(a) + 1)..(Len(a) + 5) : q[i] = Time("d", ":")[i - Len(a)]
          /\ \A i \in (Len(a) + 5 + 1)..(Len(a) + 5 + Len(b)) : q[i] = b[i - (Len(a) + 5)]
      BY <1>1, Between
    <2> HIDE DEF q
    <2> QED BY <1>1, <2>1, TimeIs
  <1> HIDE DEF q
  <1>3. t \in Text /\ Len(t) = 7 /\ \A i \in 1..7 : t[i] = q[i + 1]
    <2>1. 7 \in Nat /\ Len(q) = 7 + 2
      BY <1>2
    <2> QED BY <1>2, <2>1, InsideIs
  <1> HIDE DEF t
  <1>4. LeftTrim(t) = u
    <2>1. 2 \in 1..Len(t) /\ t[2] # "space" /\ \A j \in 1..Len(t) : j < 2 => t[j] = "space"
      BY <1>2, <1>3
    <2> QED BY <1>3, <2>1, LeftTrimIs
  <1>5. u \in Text /\ Len(u) = 6 /\ \A i \in 1..6 : u[i] = t[i + 1]
    <2>1. 6 \in Nat /\ Len(t) = 6 + 1
      BY <1>3
    <2> QED BY <1>3, <2>1, SecondOn
  <1> HIDE DEF u
  <1>6. u[1] = "d" /\ u[2] = "d" /\ u[3] = ":" /\ u[4] = "d" /\ u[5] = "d" /\ u[6] = "space"
    BY <1>2, <1>3, <1>5
  <1>7. RightTrim(u) = v
    <2>1. 5 \in 1..Len(u) /\ u[5] # "space" /\ \A j \in 1..Len(u) : j > 5 => u[j] = "space"
      BY <1>5, <1>6
    <2> QED BY <1>5, <2>1, RightTrimIs
  <1>8. v \in Text /\ Len(v) = 5 /\ \A i \in 1..5 : v[i] = u[i]
    <2>1. 5 \in 0..Len(u)
      BY <1>5
    <2> QED BY <1>5, <2>1, StartIs
  <1> HIDE DEF v
  <1>9. Ascii(v, ":")
    BY <1>6, <1>8, FiveAreATime
  <1>10. Worn(q)
    BY <1>2, <1>4, <1>7, <1>9 DEF Worn, IsClock, t
  <1> QED BY <1>10 DEF a, b, q

LEMMA StylesAreWorn == \A s \in DOMAIN Rendered : Worn(Rendered[s])
  <1>1. Worn(Time("d", ":")) /\ Worn(Time("D", ":")) /\ Worn(Time("D", "wide:")) /\ Worn(Time("d", "-"))
    BY PlainTimes
  <1>2. Worn(<<"icon", "space">> \o Time("d", ":")) /\ Worn(<<"icon", "space">> \o Time("d", "dot"))
    BY IconTimes
  <1>3. Worn(<<"<">> \o Time("d", ":") \o <<">">>) /\ Worn(<<"[">> \o Time("d", ":") \o <<"]">>)
    BY BracketTimes
  <1>4. Worn(<<"star", "space">> \o Time("d", ":") \o <<"space", "star">>)
    BY StarTime
  <1>5. DOMAIN Rendered = {"default", "animated", "persian", "fullwidth", "monospace", "doublestruck",
           "circled", "brackets", "dotstyle", "minimal", "bold", "subscript", "square", "dash", "star"}
    BY DEF Rendered
  <1> HIDE DEF Worn, Time
  <1>6. Worn(Rendered["default"]) /\ Worn(Rendered["animated"]) /\ Worn(Rendered["dotstyle"])
    BY <1>2 DEF Rendered
  <1>7. /\ Worn(Rendered["persian"]) /\ Worn(Rendered["fullwidth"]) /\ Worn(Rendered["monospace"])
        /\ Worn(Rendered["doublestruck"]) /\ Worn(Rendered["circled"]) /\ Worn(Rendered["minimal"])
        /\ Worn(Rendered["bold"]) /\ Worn(Rendered["subscript"]) /\ Worn(Rendered["dash"])
    BY <1>1 DEF Rendered
  <1>8. Worn(Rendered["brackets"]) /\ Worn(Rendered["square"]) /\ Worn(Rendered["star"])
    BY <1>3, <1>4 DEF Rendered
  <1> QED BY <1>5, <1>6, <1>7, <1>8

-----------------------------------------------------------------------------
(* Taking the time off a name.                                             *)

LEMMA RightTrimOf ==
    ASSUME NEW q \in Text, NEW k \in 0..Len(q), k # 0 => q[k] # "space",
           \A j \in 1..Len(q) : j > k => q[j] = "space"
    PROVE  RightTrim(q) = SubSeq(q, 1, k)
  <1>1. Len(q) \in Nat
    BY LenProperties DEF Text
  <1>2. CASE k = 0
    <2>1. Letters(q) = {}
      BY <1>1, <1>2 DEF Letters
    <2>2. SubSeq(q, 1, k) = <<>>
      BY <1>2, SubSeqEmpty
    <2> QED BY <2>1, <2>2 DEF RightTrim
  <1>3. CASE k # 0
    BY <1>1, <1>3, RightTrimIs
  <1> QED BY <1>2, <1>3

LEMMA TrimmedStays ==
    ASSUME NEW q \in Text, NEW k \in 0..Len(q), RightTrim(q) = SubSeq(q, 1, k), k # 0 => q[k] # "space"
    PROVE  RightTrim(SubSeq(q, 1, k)) = SubSeq(q, 1, k)
  <1> DEFINE u == SubSeq(q, 1, k)
  <1>1. Len(q) \in Nat
    BY LenProperties DEF Text
  <1>2. u \in Text /\ Len(u) = k /\ \A j \in 1..k : u[j] = q[j]
    BY StartIs
  <1> HIDE DEF u
  <1>3. k \in 0..Len(u) /\ (k # 0 => u[k] # "space") /\ \A j \in 1..Len(u) : j > k => u[j] = "space"
    BY <1>1, <1>2
  <1>4. RightTrim(u) = SubSeq(u, 1, k)
    BY <1>2, <1>3, RightTrimOf
  <1>5. SubSeq(u, 1, Len(u)) = u
    BY <1>2, SubSeqFull DEF Text
  <1> QED BY <1>2, <1>4, <1>5 DEF u

LEMMA TrimTwice ==
    ASSUME NEW q \in Text
    PROVE  RightTrim(RightTrim(q)) = RightTrim(q)
  <1> DEFINE k == Len(RightTrim(q))
  <1>1. /\ RightTrim(q) \in Text /\ k <= Len(q) /\ (k # 0 => RightTrim(q)[k] # "space")
        /\ \A j \in 1..k : RightTrim(q)[j] = q[j]
        /\ RightTrim(q) = SubSeq(q, 1, k)
    BY RightTrimEnds
  <1>2. Len(q) \in Nat /\ k \in Nat
    BY <1>1, LenProperties DEF Text
  <1> HIDE DEF k
  <1>3. k \in 0..Len(q) /\ (k # 0 => q[k] # "space")
    BY <1>1, <1>2
  <1> QED BY <1>1, <1>3, TrimmedStays

\* One cut of a name that ends in no time, and of one that wears it.
LEMMA CutOfTimeless ==
    ASSUME NEW q, Timeless(q)
    PROVE  Cut(q) = RightTrim(q)
  <1> DEFINE n == RightTrim(q)
             ends == {i \in 1..Len(n) : EndsInClock(From(n, i))}
  <1>1. ends = {}
    BY DEF Timeless
  <1>2. Cut(q) = IF ends = {} THEN n
                 ELSE RightTrim(SubSeq(n, 1, (CHOOSE i \in ends : \A j \in ends : i <= j) - 1))
    BY DEF Cut
  <1> HIDE DEF ends
  <1> QED BY <1>1, <1>2

\* The name q, a bar, and the time r.
Wearing(N, q, r) ==
    /\ N \in Text /\ q \in Text /\ r \in Text
    /\ Len(q) \in Nat /\ Len(r) \in Nat /\ Len(N) = Len(q) + 3 + Len(r)
    /\ \A j \in 1..Len(q) : N[j] = q[j]
    /\ N[Len(q) + 1] = "space" /\ N[Len(q) + 2] = "|" /\ N[Len(q) + 3] = "space"
    /\ \A j \in (Len(q) + 4)..(Len(q) + 3 + Len(r)) : N[j] = r[j - Len(q) - 3]

LEMMA WearingIs ==
    ASSUME NEW q \in Text, NEW r \in Text
    PROVE  Wearing(q \o (<<"space", "|", "space">> \o r), q, r)
  <1> DEFINE b == <<"space", "|", "space">>
             c == b \o r
             N == q \o c
  <1>1. b \in Text /\ Len(b) = 3 /\ b[1] = "space" /\ b[2] = "|" /\ b[3] = "space"
    <2>1. "|" \in Token /\ "space" \in Token
      BY DEF Token, Sign
    <2> HIDE DEF Token
    <2> QED BY <2>1 DEF Text
  <1> HIDE DEF b
  <1>2. /\ c \in Text /\ Len(c) = 3 + Len(r) /\ Len(r) \in Nat
        /\ c[1] = "space" /\ c[2] = "|" /\ c[3] = "space"
        /\ \A j \in 4..(3 + Len(r)) : c[j] = r[j - 3]
    <2>1. /\ c \in Text /\ Len(c) = Len(b) + Len(r) /\ Len(r) \in Nat
          /\ \A i \in 1..Len(b) : c[i] = b[i]
          /\ \A i \in (Len(b) + 1)..(Len(b) + Len(r)) : c[i] = r[i - Len(b)]
      BY <1>1, CatIs
    <2> HIDE DEF c
    <2> QED BY <1>1, <2>1
  <1> HIDE DEF c
  <1>3. /\ N \in Text /\ Len(N) = Len(q) + Len(c) /\ Len(q) \in Nat
        /\ \A i \in 1..Len(q) : N[i] = q[i]
        /\ \A i \in (Len(q) + 1)..(Len(q) + Len(c)) : N[i] = c[i - Len(q)]
    BY <1>2, CatIs
  <1> HIDE DEF N
  <1>4. N[Len(q) + 1] = c[1] /\ N[Len(q) + 2] = c[2] /\ N[Len(q) + 3] = c[3]
    <2>1. /\ Len(q) + 1 \in (Len(q) + 1)..(Len(q) + Len(c)) /\ (Len(q) + 1) - Len(q) = 1
          /\ Len(q) + 2 \in (Len(q) + 1)..(Len(q) + Len(c)) /\ (Len(q) + 2) - Len(q) = 2
          /\ Len(q) + 3 \in (Len(q) + 1)..(Len(q) + Len(c)) /\ (Len(q) + 3) - Len(q) = 3
      BY <1>2, <1>3
    <2> QED BY <1>3, <2>1
  <1>5. ASSUME NEW j \in (Len(q) + 4)..(Len(q) + 3 + Len(r))
        PROVE  N[j] = r[j - Len(q) - 3]
    <2>1. j \in (Len(q) + 1)..(Len(q) + Len(c)) /\ j - Len(q) \in 4..(3 + Len(r))
      BY <1>2, <1>3
    <2>2. N[j] = c[j - Len(q)]
      BY <1>3, <2>1
    <2> QED BY <1>2, <2>1, <2>2
  <1>6. Wearing(N, q, r)
    BY <1>2, <1>3, <1>4, <1>5 DEF Wearing
  <1> QED BY <1>6 DEF N, c, b

\* The bar and the time are found behind the name ...
LEMMA WornIsFound ==
    ASSUME NEW N, NEW q, NEW r, Wearing(N, q, r), Worn(r),
           NEW k \in 0..Len(q), \A j \in 1..Len(q) : j > k => q[j] = "space"
    PROVE  EndsInClock(From(N, k + 1))
  <1> DEFINE n == Len(q)
             w == From(N, k + 1)
  <1>1. /\ N \in Text /\ q \in Text /\ r \in Text /\ n \in Nat /\ Len(r) \in Nat /\ Len(r) >= 1
        /\ Len(N) = n + 3 + Len(r)
        /\ \A j \in 1..n : N[j] = q[j]
        /\ N[n + 1] = "space" /\ N[n + 2] = "|" /\ N[n + 3] = "space"
        /\ \A j \in (n + 4)..(n + 3 + Len(r)) : N[j] = r[j - n - 3]
    BY DEF Wearing, Worn
  <1>2. k \in 0..n /\ \A j \in 1..n : j > k => q[j] = "space"
    OBVIOUS
  <1> HIDE DEF n
  <1>3. /\ w \in Text /\ Len(w) = Len(N) - (k + 1) + 1
        /\ \A j \in 1..(Len(N) - (k + 1) + 1) : w[j] = N[(k + 1) + j - 1]
    <2>1. N \in Text /\ k + 1 \in 1..(Len(N) + 1)
      BY <1>1, <1>2
    <2> QED BY <2>1, FromIs
  <1> HIDE DEF w
  <1> DEFINE p == n + 2 - k
  <1>4. p \in 1..Len(w) /\ (k + 1) + p - 1 = n + 2
    BY <1>1, <1>2, <1>3
  <1>5. LeftTrim(w) = From(w, p)
    <2>1. w[p] = "|"
      BY <1>1, <1>3, <1>4
    <2>2. ASSUME NEW j \in 1..Len(w), j < p
          PROVE  w[j] = "space"
      <3>1. w[j] = N[(k + 1) + j - 1] /\ (k + 1) + j - 1 \in 1..(n + 1) /\ (k + 1) + j - 1 > k
        BY <1>1, <1>2, <1>3, <2>2
      <3>2. CASE (k + 1) + j - 1 = n + 1
        BY <1>1, <3>1, <3>2
      <3>3. CASE (k + 1) + j - 1 # n + 1
        <4>1. (k + 1) + j - 1 \in 1..n
          BY <1>1, <1>2, <3>1, <3>3
        <4> QED BY <1>1, <1>2, <3>1, <4>1
      <3> QED BY <3>2, <3>3
    <2> HIDE DEF p
    <2> QED BY <1>3, <1>4, <2>1, <2>2, LeftTrimIs
  <1> DEFINE u == From(N, n + 2)
             v == From(N, n + 3)
  <1>6. From(w, p) = u
    <2>1. k + 1 \in 1..Len(N) /\ p \in 1..(Len(N) - (k + 1) + 1)
      BY <1>1, <1>2
    <2>2. From(From(N, k + 1), p) = From(N, (k + 1) + p - 1)
      BY <1>1, <2>1, FromFrom
    <2> QED BY <1>4, <2>2 DEF w
  <1>7. /\ u \in Text /\ Len(u) = Len(N) - (n + 2) + 1 /\ u[1] = "|"
    <2>1. /\ u \in Text /\ Len(u) = Len(N) - (n + 2) + 1
          /\ \A j \in 1..(Len(N) - (n + 2) + 1) : u[j] = N[(n + 2) + j - 1]
      <3>1. N \in Text /\ n + 2 \in 1..(Len(N) + 1)
        BY <1>1
      <3> QED BY <3>1, FromIs
    <2>2. 1 \in 1..(Len(N) - (n + 2) + 1) /\ (n + 2) + 1 - 1 = n + 2
      BY <1>1
    <2> QED BY <1>1, <2>1, <2>2
  <1>8. Tail(u) = v
    <2>1. Tail(u) = From(u, 2)
      BY <1>1, <1>7, TailIs
    <2>2. n + 2 \in 1..Len(N) /\ 2 \in 1..(Len(N) - (n + 2) + 1) /\ (n + 2) + 2 - 1 = n + 3
      BY <1>1
    <2>3. From(From(N, n + 2), 2) = From(N, (n + 2) + 2 - 1)
      BY <1>1, <2>2, FromFrom
    <2> QED BY <2>1, <2>2, <2>3
  <1>9. LeftTrim(v) = From(N, n + 4)
    <2>1. /\ v \in Text /\ Len(v) = Len(N) - (n + 3) + 1
          /\ \A j \in 1..(Len(N) - (n + 3) + 1) : v[j] = N[(n + 3) + j - 1]
      <3>1. N \in Text /\ n + 3 \in 1..(Len(N) + 1)
        BY <1>1
      <3> QED BY <3>1, FromIs
    <2>2. v[1] = "space" /\ v[2] = r[1]
      <3>1. /\ 1 \in 1..(Len(N) - (n + 3) + 1) /\ (n + 3) + 1 - 1 = n + 3
            /\ 2 \in 1..(Len(N) - (n + 3) + 1) /\ (n + 3) + 2 - 1 = n + 4
            /\ n + 4 \in (n + 4)..(n + 3 + Len(r)) /\ (n + 4) - n - 3 = 1
        BY <1>1
      <3> QED BY <1>1, <2>1, <3>1
    <2>3. LeftTrim(v) = From(v, 2)
      <3>1. 2 \in 1..Len(v) /\ v[2] # "space" /\ \A j \in 1..Len(v) : j < 2 => v[j] = "space"
        BY <1>1, <2>1, <2>2 DEF Worn
      <3> HIDE DEF v
      <3> QED BY <2>1, <3>1, LeftTrimIs
    <2>4. n + 3 \in 1..Len(N) /\ 2 \in 1..(Len(N) - (n + 3) + 1) /\ (n + 3) + 2 - 1 = n + 4
      BY <1>1
    <2>5. From(From(N, n + 3), 2) = From(N, (n + 3) + 2 - 1)
      BY <1>1, <2>4, FromFrom
    <2> QED BY <2>3, <2>4, <2>5
  <1>10. From(N, n + 4) = r
    <2> DEFINE x == From(N, n + 4)
    <2>1. /\ x \in Text /\ Len(x) = Len(N) - (n + 4) + 1
          /\ \A j \in 1..(Len(N) - (n + 4) + 1) : x[j] = N[(n + 4) + j - 1]
      <3>1. N \in Text /\ n + 4 \in 1..(Len(N) + 1)
        BY <1>1
      <3> QED BY <3>1, FromIs
    <2> HIDE DEF x
    <2>2. Len(x) = Len(r)
      BY <1>1, <2>1
    <2>3. ASSUME NEW j \in 1..Len(x)
          PROVE  x[j] = r[j]
      <3>1. x[j] = N[(n + 4) + j - 1]
        BY <1>1, <2>1, <2>2
      <3>2. (n + 4) + j - 1 \in (n + 4)..(n + 3 + Len(r)) /\ ((n + 4) + j - 1) - n - 3 = j
        BY <1>1, <2>2
      <3> QED BY <1>1, <3>1, <3>2
    <2>4. x = r
      BY <1>1, <2>1, <2>2, <2>3, SeqEqual DEF Text
    <2> QED BY <2>4 DEF x
  <1>11. u # <<>> /\ IsClock(LeftTrim(Tail(u)))
    <2>1. u # <<>>
      BY <1>1, <1>7, EmptySeq
    <2> QED BY <1>8, <1>9, <1>10, <2>1 DEF Worn
  <1>12. EndsInClock(w)
    BY <1>5, <1>6, <1>7, <1>11 DEF EndsInClock
  <1> QED BY <1>12 DEF w

\* ... and nothing is found before them.
LEMMA NoneBefore ==
    ASSUME NEW N, NEW q, NEW r, Wearing(N, q, r), Len(r) >= 1,
           NEW k \in 1..Len(q), q[k] # "space", NEW i \in 1..k
    PROVE  ~EndsInClock(From(N, i))
  <1> DEFINE n == Len(q)
             w == From(N, i)
  <1>1. /\ N \in Text /\ n \in Nat /\ Len(r) \in Nat /\ Len(N) = n + 3 + Len(r)
        /\ \A j \in 1..n : N[j] = q[j]
        /\ N[n + 2] = "|"
    BY DEF Wearing
  <1>2. k \in 1..n
    OBVIOUS
  <1> HIDE DEF n
  <1>3. \A a \in 1..(n + 2) : From(N, a) \in Text /\ Has(From(N, a), "|")
    <2> TAKE a \in 1..(n + 2)
    <2>1. /\ From(N, a) \in Text /\ Len(From(N, a)) = Len(N) - a + 1
          /\ \A j \in 1..(Len(N) - a + 1) : From(N, a)[j] = N[a + j - 1]
      <3>1. N \in Text /\ a \in 1..(Len(N) + 1)
        BY <1>1
      <3> QED BY <3>1, FromIs
    <2>2. n + 3 - a \in 1..(Len(N) - a + 1) /\ a + (n + 3 - a) - 1 = n + 2
      BY <1>1
    <2>3. From(N, a)[n + 3 - a] = "|"
      BY <1>1, <2>1, <2>2
    <2> QED BY <2>1, <2>2, <2>3 DEF Has
  <1>4. /\ w \in Text /\ Len(w) = Len(N) - i + 1
        /\ \A j \in 1..(Len(N) - i + 1) : w[j] = N[i + j - 1]
    <2>1. N \in Text /\ i \in 1..(Len(N) + 1)
      BY <1>1, <1>2
    <2> QED BY <2>1, FromIs
  <1>5. k - i + 1 \in 1..Len(w) /\ i + (k - i + 1) - 1 = k
    BY <1>1, <1>2, <1>4
  <1>6. w[k - i + 1] # "space"
    BY <1>1, <1>2, <1>4, <1>5
  <1>7. PICK h \in 1..Len(w) : h <= k - i + 1 /\ LeftTrim(w) = From(w, h)
    <2> HIDE DEF w
    <2> QED BY <1>4, <1>5, <1>6, LeftTrimFinds
  <1> DEFINE a == i + h - 1
             u == From(N, a)
  <1>8. a \in 1..n /\ LeftTrim(w) = u
    <2>1. i \in 1..Len(N) /\ h \in 1..(Len(N) - i + 1) /\ i + h - 1 \in 1..n
      BY <1>1, <1>2, <1>4, <1>7
    <2>2. From(From(N, i), h) = From(N, i + h - 1)
      BY <1>1, <2>1, FromFrom
    <2> QED BY <1>7, <2>1, <2>2
  <1>9. Tail(u) = From(N, a + 1)
    <2>1. a \in 1..Len(N) /\ 2 \in 1..(Len(N) - a + 1) /\ a + 2 - 1 = a + 1
      BY <1>1, <1>8
    <2>2. u \in Text /\ Len(u) >= 1
      BY <1>1, <1>8, <2>1, FromIs
    <2>3. Tail(u) = From(u, 2)
      BY <2>2, TailIs
    <2>4. From(From(N, a), 2) = From(N, a + 2 - 1)
      BY <1>1, <2>1, FromFrom
    <2> QED BY <2>1, <2>3, <2>4
  <1>10. From(N, a + 1) \in Text /\ Has(From(N, a + 1), "|")
    <2>1. a + 1 \in 1..(n + 2)
      BY <1>1, <1>8
    <2> QED BY <1>3, <2>1
  <1>11. ~IsClock(LeftTrim(Tail(u)))
    BY <1>9, <1>10, LeftTrimHas, BarNoClock
  <1>12. ~IsClock(w)
    <2>1. i \in 1..(n + 2)
      BY <1>1, <1>2
    <2> QED BY <1>3, <2>1, BarNoClock
  <1>13. ~EndsInClock(w)
    BY <1>8, <1>11, <1>12 DEF EndsInClock
  <1> QED BY <1>13

\* The name is found whole, but for the spaces at its end.
LEMMA CutOfWearing ==
    ASSUME NEW N, NEW q, NEW r, Wearing(N, q, r), Worn(r), Len(r) >= 1, r[Len(r)] # "space"
    PROVE  Cut(N) = RightTrim(q)
  <1> DEFINE n == Len(q)
             k == Len(RightTrim(q))
             m == RightTrim(N)
             ends == {i \in 1..Len(m) : EndsInClock(From(m, i))}
             first == CHOOSE i \in ends : \A j \in ends : i <= j
  <1>1. /\ N \in Text /\ q \in Text /\ r \in Text /\ n \in Nat /\ Len(r) \in Nat
        /\ Len(N) = n + 3 + Len(r)
        /\ \A j \in 1..n : N[j] = q[j]
        /\ N[n + 3 + Len(r)] = r[Len(r)]
    <2>1. /\ N \in Text /\ q \in Text /\ r \in Text /\ n \in Nat /\ Len(r) \in Nat
          /\ Len(N) = n + 3 + Len(r)
          /\ \A j \in 1..n : N[j] = q[j]
          /\ \A j \in (n + 4)..(n + 3 + Len(r)) : N[j] = r[j - n - 3]
      BY DEF Wearing
    <2> HIDE DEF n
    <2>2. n + 3 + Len(r) \in (n + 4)..(n + 3 + Len(r)) /\ (n + 3 + Len(r)) - n - 3 = Len(r)
      BY <2>1
    <2> QED BY <2>1, <2>2
  <1>2. /\ RightTrim(q) \in Text /\ k <= n /\ RightTrim(q) = SubSeq(q, 1, k)
        /\ \A j \in 1..k : RightTrim(q)[j] = q[j]
        /\ k # 0 => RightTrim(q)[k] # "space"
        /\ \A j \in 1..n : j > k => q[j] = "space"
    BY <1>1, RightTrimEnds
  <1>3. k \in 0..n
    <2>1. k \in Nat
      BY <1>2, LenProperties DEF Text
    <2> HIDE DEF n, k
    <2> QED BY <1>1, <1>2, <2>1
  <1>4. m = N
    <2>1. Len(N) \in 1..Len(N) /\ N[Len(N)] # "space" /\ \A j \in 1..Len(N) : j > Len(N) => N[j] = "space"
      <3> HIDE DEF n
      <3> QED BY <1>1
    <2>2. RightTrim(N) = SubSeq(N, 1, Len(N))
      BY <1>1, <2>1, RightTrimIs
    <2> QED BY <1>1, <2>2, SubSeqFull DEF Text
  <1>5. k + 1 \in ends
    <2>1. EndsInClock(From(N, k + 1))
      <3> HIDE DEF k
      <3> QED BY <1>2, <1>3, WornIsFound
    <2>2. k + 1 \in 1..Len(N)
      <3> HIDE DEF k, n
      <3> QED BY <1>1, <1>3
    <2> HIDE DEF k
    <2> QED BY <1>4, <2>1, <2>2
  <1>6. \A j \in ends : k + 1 <= j
    <2> SUFFICES ASSUME NEW j \in ends, ~(k + 1 <= j) PROVE FALSE
      OBVIOUS
    <2>1. j \in 1..Len(N) /\ EndsInClock(From(N, j))
      BY <1>4
    <2> HIDE DEF ends
    <2>2. k \in 1..n /\ j \in 1..k /\ k # 0
      <3> HIDE DEF k, n
      <3> QED BY <1>1, <1>3, <2>1
    <2>3. q[k] # "space"
      <3>1. RightTrim(q)[k] = q[k] /\ RightTrim(q)[k] # "space"
        <4> DEFINE t == RightTrim(q)
        <4> HIDE DEF k, n, t
        <4> QED BY <1>2, <2>2 DEF t
      <3> QED BY <3>1
    <2>4. ~EndsInClock(From(N, j))
      <3> HIDE DEF k
      <3> QED BY <2>2, <2>3, NoneBefore
    <2> QED BY <2>1, <2>4
  <1>7. first = k + 1
    <2>1. \E i \in ends : \A j \in ends : i <= j
      <3> HIDE DEF ends, k
      <3> QED BY <1>5, <1>6
    <2>2. first \in ends /\ \A j \in ends : first <= j
      <3> HIDE DEF ends
      <3> QED BY <2>1
    <2>3. first \in Nat
      <3>1. ends \subseteq 1..Len(m)
        OBVIOUS
      <3>2. Len(m) \in Nat
        <4> HIDE DEF n, m
        <4> QED BY <1>1, <1>4
      <3> HIDE DEF first, ends, m
      <3> QED BY <2>2, <3>1, <3>2
    <2> HIDE DEF first, ends, k, n
    <2> QED BY <1>1, <1>3, <1>5, <1>6, <2>2, <2>3
  <1>8. Cut(N) = RightTrim(SubSeq(m, 1, first - 1))
    <2>1. Cut(N) = IF ends = {} THEN m ELSE RightTrim(SubSeq(m, 1, first - 1))
      BY DEF Cut
    <2> HIDE DEF ends, first, k
    <2> QED BY <1>5, <2>1
  <1>9. SubSeq(N, 1, k) = RightTrim(q)
    <2> DEFINE a == SubSeq(N, 1, k)
               t == RightTrim(q)
    <2>1. k \in 0..Len(N)
      <3> HIDE DEF k, n
      <3> QED BY <1>1, <1>3
    <2>2. a \in Text /\ Len(a) = k /\ \A j \in 1..k : a[j] = N[j]
      <3> HIDE DEF k
      <3> QED BY <1>1, <2>1, StartIs
    <2> HIDE DEF a, n
    <2>3. \A j \in 1..k : a[j] = t[j]
      <3> HIDE DEF k, t
      <3>1. \A j \in 1..k : j \in 1..n
        BY <1>1, <1>3
      <3> QED BY <1>1, <1>2, <2>2, <3>1 DEF t
    <2>4. t \in Text /\ Len(t) = k
      BY <1>2
    <2> HIDE DEF k, t
    <2>5. a = t
      BY <2>2, <2>3, <2>4, SeqEqual DEF Text
    <2> QED BY <2>5 DEF a, t
  <1>10. first - 1 = k
    <2> HIDE DEF first, k, n
    <2> QED BY <1>1, <1>3, <1>7
  <1> HIDE DEF first, k, m
  <1> QED BY <1>1, <1>4, <1>8, <1>9, <1>10, TrimTwice

\* Cutting until nothing changes takes two cuts at most.
LEMMA StripOfFix ==
    ASSUME NEW q, Len(q) \in Nat, NEW F, Cut(q) = F, Cut(F) = F, Len(q) = 0 => q = F
    PROVE  Stripped(q) = F
  <1> DEFINE n == Len(q)
             cut == CHOOSE f : f = [k \in 0..n |-> IF k = 0 THEN q ELSE Cut(f[k - 1])]
             g == [k \in 0..n |-> IF k = 0 THEN q ELSE F]
  <1>1. Stripped(q) = cut[n]
    BY DEF Stripped
  <1>2. \A k \in 0..n : g[k] = (IF k = 0 THEN q ELSE F)
    OBVIOUS
  <1>3. g = [k \in 0..n |-> IF k = 0 THEN q ELSE Cut(g[k - 1])]
    <2>1. ASSUME NEW k \in 0..n
          PROVE  (IF k = 0 THEN q ELSE F) = (IF k = 0 THEN q ELSE Cut(g[k - 1]))
      <3>1. CASE k = 0
        BY <3>1
      <3>2. CASE k # 0
        <4>1. k - 1 \in 0..n
          BY <3>2
        <4>2. g[k - 1] = q \/ g[k - 1] = F
          BY <1>2, <4>1
        <4> HIDE DEF g
        <4> QED BY <3>2, <4>2
      <3> QED BY <3>1, <3>2
    <2> QED BY <2>1, Zenon
  <1>4. cut = [k \in 0..n |-> IF k = 0 THEN q ELSE Cut(cut[k - 1])]
    <2> HIDE DEF g, n
    <2> QED BY <1>3
  <1>5. \A k \in 0..n : cut[k] = (IF k = 0 THEN q ELSE Cut(cut[k - 1]))
    <2> HIDE DEF cut
    <2>1. ASSUME NEW f, f = [k \in 0..n |-> IF k = 0 THEN q ELSE Cut(f[k - 1])]
          PROVE  \A k \in 0..n : f[k] = (IF k = 0 THEN q ELSE Cut(f[k - 1]))
      BY <2>1
    <2> QED BY <1>4, <2>1
  <1> HIDE DEF cut
  <1>6. \A k \in 1..n : cut[k] = F
    <2> DEFINE bad == {k \in 1..n : cut[k] # F}
    <2> SUFFICES ASSUME bad # {} PROVE FALSE
      OBVIOUS
    <2>1. PICK k \in bad : \A j \in bad : k <= j
      <3>1. bad \in SUBSET Nat
        OBVIOUS
      <3> HIDE DEF bad
      <3> QED BY <3>1, FirstPlace
    <2>2. k \in 1..n /\ cut[k] # F
      OBVIOUS
    <2>3. cut[k] = Cut(cut[k - 1])
      BY <1>5, <2>2
    <2>4. CASE k = 1
      <3>1. 0 \in 0..n /\ k - 1 = 0
        BY <2>4
      <3>2. cut[0] = q
        BY <1>5, <3>1
      <3> QED BY <2>2, <2>3, <3>1, <3>2
    <2>5. CASE k # 1
      <3>1. k - 1 \in 1..n /\ ~(k <= k - 1)
        BY <2>2, <2>5
      <3>2. cut[k - 1] = F
        BY <2>1, <3>1
      <3> QED BY <2>2, <2>3, <3>2
    <2> QED BY <2>4, <2>5
  <1>7. CASE n = 0
    BY <1>1, <1>5, <1>7
  <1>8. CASE n # 0
    <2>1. n \in 1..n
      BY <1>8
    <2> QED BY <1>1, <1>6, <2>1
  <1> QED BY <1>7, <1>8

\* A name nothing is taken off loses the spaces at its end, no more.
LEMMA TimelessTrim ==
    ASSUME NEW q \in Text, Timeless(q)
    PROVE  Timeless(RightTrim(q))
  <1>1. RightTrim(RightTrim(q)) = RightTrim(q)
    BY TrimTwice
  <1> QED BY <1>1 DEF Timeless

LEMMA StripOfTimeless ==
    ASSUME NEW q \in Text, Timeless(q)
    PROVE  Stripped(q) = RightTrim(q)
  <1> DEFINE F == RightTrim(q)
  <1>1. Cut(q) = F
    BY CutOfTimeless
  <1>2. Timeless(F) /\ RightTrim(F) = F
    BY TimelessTrim, TrimTwice
  <1>3. Cut(F) = F
    <2> HIDE DEF F
    <2> QED BY <1>2, CutOfTimeless
  <1>4. Len(q) \in Nat
    BY LenProperties DEF Text
  <1>5. Len(q) = 0 => q = F
    <2> SUFFICES ASSUME Len(q) = 0 PROVE q = F
      OBVIOUS
    <2>1. q = <<>>
      BY EmptySeq DEF Text
    <2>2. Letters(q) = {}
      BY <1>4 DEF Letters
    <2> QED BY <2>1, <2>2 DEF RightTrim
  <1> HIDE DEF F
  <1>6. Stripped(q) = F
    BY <1>1, <1>3, <1>4, <1>5, StripOfFix
  <1> QED BY <1>6 DEF F

LEMMA StripOfWearing ==
    ASSUME NEW N, NEW q, NEW r, Wearing(N, q, r), Worn(r), Timeless(q)
    PROVE  Stripped(N) = RightTrim(q)
  <1> DEFINE F == RightTrim(q)
  <1>1. Len(r) >= 1 /\ r[Len(r)] # "space" /\ q \in Text /\ Len(q) \in Nat /\ Len(r) \in Nat /\ Len(N) = Len(q) + 3 + Len(r)
    BY DEF Worn, Wearing
  <1>2. Cut(N) = F
    BY <1>1, CutOfWearing
  <1>3. Timeless(F) /\ RightTrim(F) = F
    BY <1>1, TimelessTrim, TrimTwice
  <1>4. Cut(F) = F
    <2> HIDE DEF F
    <2> QED BY <1>3, CutOfTimeless
  <1>5. Len(N) \in Nat /\ Len(N) # 0
    BY <1>1
  <1> HIDE DEF F
  <1>6. Stripped(N) = F
    BY <1>2, <1>4, <1>5, StripOfFix
  <1> QED BY <1>6 DEF F

-----------------------------------------------------------------------------
(* The 40 first characters.                                                *)

LEMMA First40Is ==
    ASSUME ClockAssumption, NEW x \in Text
    PROVE  \E k \in 0..Len(x) : /\ First40(x) = SubSeq(x, 1, k) /\ k <= Longest40
                                /\ k = Len(x) \/ k = Longest40
                                /\ First40(x) \in Text /\ Len(First40(x)) = k
                                /\ \A j \in 1..k : First40(x)[j] = x[j]
  <1> DEFINE k == IF Len(x) < Longest40 THEN Len(x) ELSE Longest40
  <1>1. Len(x) \in Nat /\ Longest40 \in Nat
    BY LenProperties DEF Text, ClockAssumption
  <1>2. k \in 0..Len(x) /\ k <= Longest40 /\ (k = Len(x) \/ k = Longest40)
    BY <1>1
  <1>3. First40(x) = SubSeq(x, 1, k)
    BY DEF First40
  <1> HIDE DEF k
  <1>4. First40(x) \in Text /\ Len(First40(x)) = k /\ \A j \in 1..k : First40(x)[j] = x[j]
    BY <1>2, <1>3, StartIs
  <1> QED BY <1>2, <1>3, <1>4

\* What one is cut to depends on its letters only.
LEMMA KeptOfTrimmed ==
    ASSUME ClockAssumption, NEW x \in Text
    PROVE  Kept(RightTrim(x)) = Kept(x)
  <1> DEFINE t == RightTrim(x)
             e == Len(t)
             a == First40(x)
             b == First40(t)
  <1>1. /\ t \in Text /\ e <= Len(x) /\ e \in Nat /\ Len(x) \in Nat
        /\ \A j \in 1..e : t[j] = x[j]
        /\ e # 0 => t[e] # "space"
        /\ \A j \in 1..Len(x) : j > e => x[j] = "space"
    <2>1. /\ t \in Text /\ e <= Len(x)
          /\ \A j \in 1..e : t[j] = x[j]
          /\ e # 0 => t[e] # "space"
          /\ \A j \in 1..Len(x) : j > e => x[j] = "space"
      BY RightTrimEnds
    <2> QED BY <2>1, LenProperties DEF Text
  <1> HIDE DEF t
  <1>2. PICK h \in 0..Len(x) : /\ h <= Longest40 /\ (h = Len(x) \/ h = Longest40)
                               /\ a \in Text /\ Len(a) = h /\ \A j \in 1..h : a[j] = x[j]
    BY First40Is
  <1>3. PICK g \in 0..e : /\ g <= Longest40 /\ (g = e \/ g = Longest40)
                          /\ b \in Text /\ Len(b) = g /\ \A j \in 1..g : b[j] = t[j]
    BY <1>1, First40Is
  <1>4. Longest40 \in Nat
    BY DEF ClockAssumption
  <1> HIDE DEF a, b, e
  <1>5. CASE h <= e
    <2>1. g = h
      BY <1>1, <1>2, <1>3, <1>4, <1>5
    <2>2. \A j \in 1..h : j \in 1..e
      BY <1>1, <1>5
    <2>3. a = b
      BY <1>1, <1>2, <1>3, <2>1, <2>2, SeqEqual DEF Text
    <2> QED BY <2>3 DEF Kept, a, b, t
  <1>6. CASE ~(h <= e)
    <2>1. g = e /\ e \in 0..h
      BY <1>1, <1>2, <1>3, <1>4, <1>6
    <2>2. \A j \in 1..e : j \in 1..h
      BY <1>1, <1>6
    <2>3. e # 0 => a[e] # "space"
      <3>1. CASE e = 0
        BY <3>1
      <3>2. CASE e # 0
        <4>1. e \in 1..e
          BY <1>1, <3>2
        <4> QED BY <1>1, <1>2, <2>2, <4>1
      <3> QED BY <3>1, <3>2
    <2>4. \A j \in 1..Len(a) : j > e => a[j] = "space"
      <3>1. \A j \in 1..h : j \in 1..Len(x)
        BY <1>1, <1>2
      <3> QED BY <1>1, <1>2, <3>1
    <2>5. RightTrim(a) = SubSeq(a, 1, e)
      BY <1>2, <2>1, <2>3, <2>4, RightTrimOf
    <2>6. SubSeq(a, 1, e) \in Text /\ Len(SubSeq(a, 1, e)) = e /\ \A j \in 1..e : SubSeq(a, 1, e)[j] = a[j]
      BY <1>2, <2>1, StartIs
    <2> DEFINE c == SubSeq(a, 1, e)
    <2> HIDE DEF c
    <2>7. c \in Text /\ Len(c) = e /\ \A j \in 1..e : c[j] = a[j]
      BY <2>6 DEF c
    <2>8. c = b
      BY <1>1, <1>2, <1>3, <2>1, <2>2, <2>7, SeqEqual DEF Text
    <2>9. RightTrim(b) = b
      <3>1. RightTrim(c) = c
        BY <1>2, <2>1, <2>3, <2>5, TrimmedStays DEF c
      <3> QED BY <2>8, <3>1
    <2>10. RightTrim(a) = RightTrim(b)
      BY <2>5, <2>8, <2>9 DEF c
    <2> QED BY <2>10 DEF Kept, a, b, t
  <1> QED BY <1>5, <1>6

LEMMA KeptTwice ==
    ASSUME ClockAssumption, NEW x \in Text
    PROVE  Kept(x) \in Text /\ Kept(Kept(x)) = Kept(x)
  <1> DEFINE a == First40(x)
             t == RightTrim(a)
  <1>1. a \in Text /\ Len(a) <= Longest40 /\ Len(a) \in Nat /\ Longest40 \in Nat
    <2>1. PICK h \in 0..Len(x) : h <= Longest40 /\ a \in Text /\ Len(a) = h
      BY First40Is
    <2>2. Longest40 \in Nat
      BY DEF ClockAssumption
    <2> HIDE DEF a
    <2>3. Len(a) \in Nat
      BY <2>1, LenProperties DEF Text
    <2> QED BY <2>1, <2>2, <2>3
  <1> HIDE DEF a
  <1>2. t \in Text /\ Len(t) <= Len(a) /\ RightTrim(t) = t
    BY <1>1, RightTrimEnds, TrimTwice
  <1>3. Len(t) \in Nat
    BY <1>2, LenProperties DEF Text
  <1> HIDE DEF t
  <1>4. First40(t) = t
    <2>1. PICK h \in 0..Len(t) : /\ (h = Len(t) \/ h = Longest40)
                                 /\ First40(t) = SubSeq(t, 1, h)
      BY <1>2, First40Is
    <2>2. h = Len(t)
      BY <1>1, <1>2, <1>3, <2>1
    <2> QED BY <1>2, <2>1, <2>2, SubSeqFull DEF Text
  <1>5. Kept(x) = t
    BY DEF Kept, a, t
  <1> QED BY <1>2, <1>4, <1>5 DEF Kept

\* Whether a name ends in a time depends on its letters only.
LEMMA TimelessAlike ==
    ASSUME NEW x, NEW y, RightTrim(x) = RightTrim(y), Timeless(x)
    PROVE  Timeless(y)
  BY DEF Timeless

LEMMA ShownStripped ==
    ASSUME ClockAssumption, NEW x \in Text, NEW s \in DOMAIN Rendered, Timeless(First40(x))
    PROVE  Stripped(Shown(x, s)) = Kept(x)
  <1> DEFINE r == Rendered[s]
             q == First40(x)
  <1>1. q \in Text
    BY First40Is
  <1>2. Worn(r) /\ r \in Text
    BY StylesAreWorn DEF Worn
  <1> HIDE DEF r, q
  <1>3. Wearing(q \o (<<"space", "|", "space">> \o r), q, r)
    BY <1>1, <1>2, WearingIs
  <1>4. Shown(x, s) = q \o (<<"space", "|", "space">> \o r)
    BY DEF Shown, q, r
  <1>5. Timeless(q)
    BY DEF q
  <1>6. Stripped(Shown(x, s)) = RightTrim(q)
    BY <1>2, <1>3, <1>4, <1>5, StripOfWearing
  <1> QED BY <1>6 DEF Kept, q

-----------------------------------------------------------------------------
(* The clock with any style, and any number of commands under way.         *)

ClockNext ==
    \/ ClockLook \/ ClockAnswer \/ ClockLands \/ ClockFails \/ ClockCrash \/ ClockTick
    \/ \E b \in BOOLEAN : ClockSwitch(b)
    \/ \E n \in NewName : AppRename(n) \/ \E t \in ClockTask : SetName(t, n)
    \/ \E t \in ClockTask :
         \/ \E s \in DOMAIN Rendered : ClockStyle(t, s)
         \/ ClockStyleNext(t) \/ ApplyStyle(t) \/ TaskAsks(t)
         \/ TaskAnswer(t) \/ TaskLands(t) \/ TaskFails(t)

ClockSpec == EnvInit /\ ClockInit /\ [][ClockNext]_<<envVars, clockVars>>

\* A base name for the name w: it is cut to what w is cut to.
BaseOf(y, w) == y \in Text /\ Timeless(y) /\ Kept(y) = Kept(w)

\* A name that tells w, bare or in some style.
Tells(x, w) == \E y \in Text : BaseOf(y, w) /\ (x = y \/ \E s \in DOMAIN Rendered : x = Shown(y, s))

IsChanging(k) == k.at \in {"ask", "asked", "update"}

\* One change of the name at a time, and all that is read, held and on its way
\* tells the last wish.
InTurn ==
    /\ \A t, u \in ClockTask : IsChanging(task[t]) /\ IsChanging(task[u]) => t = u
    /\ updater.at # "idle" => \A t \in ClockTask : ~IsChanging(task[t])
AllTell ==
    /\ (\A t \in ClockTask : task[t].at # "update") => Tells(profile, wish)
    /\ ~unread => \A x \in base : BaseOf(x, wish)
    /\ updater.at \in {"asked", "update"} => Tells(updater.name, wish)
    /\ \A t \in ClockTask : task[t].at \in {"asked", "update"} => Tells(task[t].name, wish)

ClockKinds ==
    /\ wish \in NewName /\ style \in DOMAIN Rendered
    /\ crossed \in BOOLEAN /\ unread \in BOOLEAN /\ ticking \in BOOLEAN
    /\ DOMAIN task = ClockTask /\ \A t \in ClockTask : DOMAIN task[t] = {"at", "name"}

ClockInv == ClockKinds /\ (~crossed => InTurn /\ AllTell)

LEMMA NamesAreTexts ==
    ASSUME ClockAssumption, NEW n \in NewName
    PROVE  n \in Text /\ Timeless(n) /\ Timeless(First40(n)) /\ BaseOf(n, n) /\ Tells(n, n)
  <1>1. n \in Seq(STRING) /\ Timeless(n) /\ Timeless(First40(n))
    BY DEF ClockAssumption
  <1>2. n \in Text
    <2>1. STRING \subseteq Token
      BY DEF Token
    <2>2. Len(n) \in Nat /\ n \in [1..Len(n) -> STRING]
      BY <1>1, LenProperties
    <2>3. n \in [1..Len(n) -> Token]
      BY <2>1, <2>2
    <2>4. n \in Seq(Token)
      <3>1. \E m \in Nat : n \in [1..m -> Token]
        BY <2>2, <2>3
      <3> HIDE DEF Token
      <3> QED BY <2>2, <2>3, SeqDef
    <2> QED BY <2>4 DEF Text
  <1>3. BaseOf(n, n)
    BY <1>1, <1>2 DEF BaseOf
  <1> QED BY <1>1, <1>2, <1>3 DEF Tells

LEMMA BaseIsCutWell ==
    ASSUME ClockAssumption, NEW w \in NewName, NEW y, BaseOf(y, w)
    PROVE  Timeless(First40(y))
  <1>1. RightTrim(First40(y)) = RightTrim(First40(w))
    BY DEF BaseOf, Kept
  <1> QED BY <1>1, NamesAreTexts, TimelessAlike

\* What the clock reads off a name that tells w is a base name for w.
LEMMA WhatIsRead ==
    ASSUME ClockAssumption, NEW w \in NewName, NEW x, Tells(x, w)
    PROVE  BaseOf(Stripped(x), w)
  <1>1. PICK y \in Text : BaseOf(y, w) /\ (x = y \/ \E s \in DOMAIN Rendered : x = Shown(y, s))
    BY DEF Tells
  <1>2. Timeless(y) /\ Kept(y) = Kept(w)
    BY <1>1 DEF BaseOf
  <1>3. CASE x = y
    <2>1. Stripped(x) = RightTrim(y)
      BY <1>2, <1>3, StripOfTimeless
    <2>2. RightTrim(y) \in Text /\ Timeless(RightTrim(y)) /\ Kept(RightTrim(y)) = Kept(y)
      BY <1>2, RightTrimEnds, TimelessTrim, KeptOfTrimmed
    <2> QED BY <1>2, <2>1, <2>2 DEF BaseOf
  <1>4. ASSUME NEW s \in DOMAIN Rendered, x = Shown(y, s)
        PROVE  BaseOf(Stripped(x), w)
    <2>1. Timeless(First40(y))
      BY <1>1, BaseIsCutWell
    <2>2. Stripped(x) = Kept(y)
      BY <1>4, <2>1, ShownStripped
    <2>3. First40(y) \in Text
      BY First40Is
    <2>4. Timeless(RightTrim(First40(y)))
      BY <2>1, <2>3, TimelessTrim
    <2>5. Kept(y) \in Text /\ Kept(Kept(y)) = Kept(y)
      BY KeptTwice
    <2> QED BY <1>2, <2>2, <2>4, <2>5 DEF BaseOf, Kept
  <1> QED BY <1>1, <1>3, <1>4

LEMMA ShownTells ==
    ASSUME NEW y, NEW w, BaseOf(y, w), NEW s \in DOMAIN Rendered
    PROVE  Tells(Shown(y, s), w)
  BY DEF Tells, BaseOf

LEMMA RecordOf ==
    ASSUME NEW t, NEW k, DOMAIN k = {"at", "name"}, DOMAIN task = ClockTask,
           \A u \in ClockTask : DOMAIN task[u] = {"at", "name"}
    PROVE  LET q == [task EXCEPT ![t] = k]
           IN  /\ DOMAIN q = ClockTask /\ \A u \in ClockTask : DOMAIN q[u] = {"at", "name"}
               /\ \A u \in ClockTask : q[u] = IF u = t THEN k ELSE task[u]
  OBVIOUS

\* Steps of the updater.
LEMMA UpdaterKeeps ==
    ASSUME ClockAssumption, ClockInv, ClockLook \/ ClockAnswer \/ ClockLands \/ ClockFails
    PROVE  ClockInv'
  <1> USE DEF ClockInv, ClockKinds, SameMode, SameWish
  <1>1. CASE ClockLook
    <2>1. ClockKinds' /\ (~crossed' => ~crossed /\ \A t \in ClockTask : task[t].at = "idle")
      BY <1>1 DEF ClockLook
    <2>2. updater'.at = "asked" /\ updater'.name = profile /\ UNCHANGED <<profile, base, task, wish, unread>>
      BY <1>1 DEF ClockLook
    <2>3. ASSUME ~crossed'
          PROVE  InTurn' /\ AllTell'
      <3>1. \A t \in ClockTask : task'[t].at = "idle" /\ ~IsChanging(task'[t])
        BY <2>1, <2>2, <2>3 DEF IsChanging
      <3>2. Tells(profile, wish)
        BY <2>1, <2>3 DEF AllTell
      <3> QED BY <2>1, <2>2, <2>3, <3>1, <3>2 DEF InTurn, AllTell
    <2> QED BY <2>1, <2>3
  <1>2. CASE ClockAnswer
    <2> DEFINE n == Stripped(updater.name)
               key == SentKey(n)
    <2>1. /\ updater.at = "asked" /\ base' = {n} /\ unread' = FALSE
          /\ updater' = (IF lastSet = {key} THEN Resting
                         ELSE [at |-> "update", name |-> Shown(n, style), key |-> key])
          /\ UNCHANGED <<profile, task, wish, crossed, style, ticking>>
      BY <1>2 DEF ClockAnswer
    <2> HIDE DEF key
    <2>2. \/ updater'.at = "idle"
          \/ updater'.at = "update" /\ updater'.name = Shown(n, style)
      <3> HIDE DEF n
      <3> QED BY <2>1 DEF Resting
    <2>3. ASSUME ~crossed'
          PROVE  InTurn' /\ AllTell'
      <3>1. InTurn /\ AllTell
        BY <2>1, <2>3
      <3>2. BaseOf(n, wish)
        BY <2>1, <3>1, WhatIsRead DEF AllTell
      <3>3. Tells(Shown(n, style), wish)
        BY <3>2, ShownTells
      <3>4. \A t \in ClockTask : ~IsChanging(task[t])
        BY <2>1, <3>1 DEF InTurn
      <3> HIDE DEF n
      <3>5. InTurn'
        BY <2>1, <3>1, <3>4 DEF InTurn
      <3>6. AllTell'
        BY <2>1, <2>2, <3>1, <3>2, <3>3 DEF AllTell
      <3> QED BY <3>5, <3>6
    <2> HIDE DEF n
    <2>4. ClockKinds'
      BY <2>1
    <2> QED BY <2>3, <2>4
  <1>3. CASE ClockLands
    <2>1. /\ updater.at = "update" /\ profile' = updater.name /\ updater' = Resting
          /\ UNCHANGED <<base, task, wish, unread, crossed, style, ticking>>
      BY <1>3 DEF ClockLands
    <2>2. updater'.at = "idle"
      BY <2>1 DEF Resting
    <2> QED BY <2>1, <2>2 DEF InTurn, AllTell
  <1>4. CASE ClockFails
    <2>1. updater'.at = "idle" /\ UNCHANGED <<profile, base, task, wish, unread, crossed, style, ticking>>
      BY <1>4 DEF ClockFails, Resting
    <2> QED BY <2>1 DEF InTurn, AllTell
  <1> QED BY <1>1, <1>2, <1>3, <1>4

\* Steps of a command that is under way.
LEMMA AppliedTells ==
    ASSUME NEW b, NEW w, \A x \in b : BaseOf(x, w), style' \in DOMAIN Rendered
    PROVE  /\ DOMAIN Applied(b) = {"at", "name"} /\ Applied(b).at \in {"ask", "update"}
           /\ Applied(b).at = "update" => Tells(Applied(b).name, w)
  <1>1. CASE b = {}
    BY <1>1 DEF Applied
  <1>2. CASE b # {}
    <2> DEFINE x == CHOOSE y \in b : TRUE
    <2>1. x \in b
      BY <1>2
    <2>2. Applied(b) = [at |-> "update", name |-> Shown(x, style')]
      BY <1>2 DEF Applied
    <2> HIDE DEF x
    <2>3. Tells(Shown(x, style'), w)
      BY <2>1, ShownTells
    <2> QED BY <2>2, <2>3
  <1> QED BY <1>1, <1>2

LEMMA AppliedIs ==
    ASSUME NEW b
    PROVE  DOMAIN Applied(b) = {"at", "name"} /\ Applied(b).at \in {"ask", "update"}
  BY DEF Applied

\* One command takes its turn: nothing else is changing, and what it holds tells
\* the wish; or it rests.
LEMMA OneTurns ==
    ASSUME ClockKinds, NEW t \in ClockTask, NEW k, DOMAIN k = {"at", "name"},
           k.at \in {"idle", "style", "ask", "asked", "update"},
           task' = [task EXCEPT ![t] = k],
           UNCHANGED updater,
           IsChanging(k) => updater.at = "idle" /\ \A u \in ClockTask : u # t => ~IsChanging(task[u]),
           ~IsChanging(k) => InTurn
    PROVE  InTurn' /\ DOMAIN task' = ClockTask /\ (\A u \in ClockTask : DOMAIN task'[u] = {"at", "name"})
           /\ \A u \in ClockTask : task'[u] = IF u = t THEN k ELSE task[u]
  <1>1. /\ DOMAIN task' = ClockTask /\ \A u \in ClockTask : DOMAIN task'[u] = {"at", "name"}
        /\ \A u \in ClockTask : task'[u] = IF u = t THEN k ELSE task[u]
    BY RecordOf DEF ClockKinds
  <1>2. CASE IsChanging(k)
    BY <1>1, <1>2 DEF InTurn
  <1>3. CASE ~IsChanging(k)
    BY <1>1, <1>3 DEF InTurn
  <1> QED BY <1>1, <1>2, <1>3

LEMMA NameIsSet ==
    ASSUME ClockAssumption, ClockInv, NEW t \in ClockTask, NEW n \in NewName, SetName(t, n)
    PROVE  ClockInv'
  <1> DEFINE k == IF ticking THEN Applied({n}) ELSE [at |-> "update", name |-> n]
  <1>1. /\ base' = {n} /\ UNCHANGED <<style, ticking, profile, updater>>
        /\ task' = [task EXCEPT ![t] = k] /\ wish' = n /\ unread' = FALSE /\ crossed' = Changing
    BY DEF SetName, Wishes
  <1>2. ClockKinds
    BY DEF ClockInv
  <1>3. BaseOf(n, n) /\ Tells(n, n)
    BY NamesAreTexts
  <1>4. style' \in DOMAIN Rendered
    BY <1>1, <1>2 DEF ClockKinds
  <1>5. DOMAIN k = {"at", "name"} /\ k.at = "update" /\ Tells(k.name, n)
    <2>1. CASE ticking
      <3>1. Applied({n}) = [at |-> "update", name |-> Shown(n, style')]
        BY DEF Applied
      <3> QED BY <1>3, <1>4, <2>1, <3>1, ShownTells
    <2>2. CASE ~ticking
      BY <1>3, <2>2
    <2> QED BY <2>1, <2>2
  <1> HIDE DEF k
  <1>6. /\ DOMAIN task' = ClockTask /\ \A u \in ClockTask : DOMAIN task'[u] = {"at", "name"}
        /\ \A u \in ClockTask : task'[u] = IF u = t THEN k ELSE task[u]
    BY <1>1, <1>2, <1>5, RecordOf DEF ClockKinds
  <1>7. ClockKinds'
    BY <1>1, <1>2, <1>6 DEF ClockKinds, Changing
  <1>8. ASSUME ~crossed'
        PROVE  InTurn' /\ AllTell'
    <2>1. updater.at = "idle" /\ \A u \in ClockTask : ~IsChanging(task[u])
      BY <1>1, <1>8 DEF Changing, IsChanging
    <2>2. InTurn'
      BY <1>1, <1>6, <2>1 DEF InTurn
    <2>3. \A u \in ClockTask : task[u].at \notin {"asked", "update"}
      BY <2>1 DEF IsChanging
    <2>4. ~(\A u \in ClockTask : task'[u].at # "update")
      BY <1>5, <1>6
    <2>5. \A u \in ClockTask : task'[u].at \in {"asked", "update"} => Tells(task'[u].name, wish')
      BY <1>1, <1>5, <1>6, <2>3
    <2> QED BY <1>1, <1>3, <2>1, <2>2, <2>4, <2>5 DEF AllTell
  <1> QED BY <1>7, <1>8 DEF ClockInv

LEMMA StyleIsChosen ==
    ASSUME ClockAssumption, ClockInv, NEW t \in ClockTask, NEW s \in DOMAIN Rendered, ClockStyle(t, s)
    PROVE  ClockInv'
  <1> DEFINE k == [at |-> "style", name |-> task[t].name]
  <1>1. /\ task[t].at = "idle" /\ style' = s
        /\ task' = [task EXCEPT ![t].at = "style"]
        /\ UNCHANGED <<profile, base, ticking, updater, wish, unread, crossed>>
    BY DEF ClockStyle, SameWish
  <1>2. ClockKinds
    BY DEF ClockInv
  <1>3. /\ DOMAIN task' = ClockTask /\ \A u \in ClockTask : DOMAIN task'[u] = {"at", "name"}
        /\ task'[t].at = "style" /\ \A u \in ClockTask : u # t => task'[u] = task[u]
    BY <1>1, <1>2 DEF ClockKinds
  <1>4. ClockKinds'
    BY <1>1, <1>2, <1>3 DEF ClockKinds
  <1>5. ASSUME ~crossed'
        PROVE  InTurn' /\ AllTell'
    <2>1. InTurn /\ AllTell
      BY <1>1, <1>5 DEF ClockInv
    <2>2. InTurn'
      BY <1>1, <1>3, <2>1 DEF InTurn, IsChanging
    <2>3. (\A u \in ClockTask : task'[u].at # "update") => \A u \in ClockTask : task[u].at # "update"
      BY <1>1, <1>3
    <2>4. \A u \in ClockTask : task'[u].at \in {"asked", "update"} => task'[u] = task[u]
      BY <1>3
    <2> QED BY <1>1, <2>1, <2>2, <2>3, <2>4 DEF AllTell
  <1> QED BY <1>4, <1>5 DEF ClockInv

LEMMA StyleIsApplied ==
    ASSUME ClockAssumption, ClockInv, NEW t \in ClockTask, ApplyStyle(t)
    PROVE  ClockInv'
  <1> DEFINE k == IF ticking THEN Applied(base) ELSE AtRest
  <1>1. /\ task[t].at = "style" /\ task' = [task EXCEPT ![t] = k]
        /\ crossed' = (crossed \/ unread \/ (ticking /\ Changing))
        /\ UNCHANGED <<profile, base, style, ticking, updater, wish, unread>>
    BY DEF ApplyStyle, SameWish, SameMode
  <1>2. ClockKinds
    BY DEF ClockInv
  <1>3. style' \in DOMAIN Rendered
    BY <1>1, <1>2 DEF ClockKinds
  <1>4. /\ DOMAIN k = {"at", "name"} /\ k.at \in {"idle", "ask", "update"}
        /\ ~ticking => k.at = "idle"
    BY AppliedIs DEF AtRest
  <1>5. /\ DOMAIN task' = ClockTask /\ \A u \in ClockTask : DOMAIN task'[u] = {"at", "name"}
        /\ \A u \in ClockTask : task'[u] = IF u = t THEN k ELSE task[u]
    <2> HIDE DEF k
    <2> QED BY <1>1, <1>2, <1>4, RecordOf DEF ClockKinds
  <1>6. ClockKinds'
    <2> HIDE DEF k
    <2> QED BY <1>1, <1>2, <1>5 DEF ClockKinds
  <1>7. ASSUME ~crossed'
        PROVE  InTurn' /\ AllTell'
    <2>1. ~crossed /\ ~unread /\ (ticking => ~Changing) /\ InTurn /\ AllTell
      BY <1>1, <1>7 DEF ClockInv
    <2>2. k.at = "update" => Tells(k.name, wish)
      <3>1. \A x \in base : BaseOf(x, wish)
        BY <2>1 DEF AllTell
      <3> QED BY <1>3, <3>1, AppliedTells DEF AtRest
    <2> HIDE DEF k
    <2>3. k.at # "idle" => updater.at = "idle" /\ \A u \in ClockTask : ~IsChanging(task[u])
      BY <1>4, <2>1 DEF Changing, IsChanging
    <2>4. InTurn'
      BY <1>1, <1>5, <2>1, <2>3 DEF InTurn, IsChanging
    <2>5. (\A u \in ClockTask : task'[u].at # "update") => \A u \in ClockTask : task[u].at # "update"
      BY <1>1, <1>5
    <2>6. \A u \in ClockTask : task'[u].at \in {"asked", "update"} => Tells(task'[u].name, wish)
      BY <1>4, <1>5, <2>1, <2>2 DEF AllTell
    <2> QED BY <1>1, <2>1, <2>4, <2>5, <2>6 DEF AllTell
  <1> QED BY <1>6, <1>7 DEF ClockInv

\* The command reads the name, gets the answer, and its change lands or fails.
LEMMA TaskGoesOn ==
    ASSUME ClockAssumption, ClockInv, NEW t \in ClockTask,
           TaskAsks(t) \/ TaskAnswer(t) \/ TaskLands(t) \/ TaskFails(t)
    PROVE  ClockInv'
  <1>1. ClockKinds
    BY DEF ClockInv
  <1>2. CASE TaskAsks(t)
    <2> DEFINE k == [at |-> "asked", name |-> profile]
    <2>1. /\ task[t].at = "ask" /\ task' = [task EXCEPT ![t] = k]
          /\ UNCHANGED <<profile, base, style, ticking, updater, wish, unread, crossed>>
      BY <1>2 DEF TaskAsks, SameMode, SameWish
    <2>2. DOMAIN k = {"at", "name"} /\ k.at = "asked" /\ k.name = profile
      OBVIOUS
    <2> HIDE DEF k
    <2>3. /\ DOMAIN task' = ClockTask /\ \A u \in ClockTask : DOMAIN task'[u] = {"at", "name"}
          /\ \A u \in ClockTask : task'[u] = IF u = t THEN k ELSE task[u]
      BY <1>1, <2>1, <2>2, RecordOf DEF ClockKinds
    <2>4. ClockKinds'
      BY <1>1, <2>1, <2>3 DEF ClockKinds
    <2>5. ASSUME ~crossed'
          PROVE  InTurn' /\ AllTell'
      <3>1. InTurn /\ AllTell
        BY <2>1, <2>5 DEF ClockInv
      <3>2. updater.at = "idle" /\ \A u \in ClockTask : u # t => ~IsChanging(task[u])
        BY <2>1, <3>1 DEF InTurn, IsChanging
      <3>3. \A u \in ClockTask : task[u].at # "update"
        BY <2>1, <3>2 DEF IsChanging
      <3>4. Tells(profile, wish)
        BY <3>1, <3>3 DEF AllTell
      <3>5. InTurn'
        BY <2>1, <2>3, <3>1, <3>2 DEF InTurn
      <3>6. \A u \in ClockTask : task'[u].at \in {"asked", "update"} => Tells(task'[u].name, wish)
        BY <2>2, <2>3, <3>1, <3>4 DEF AllTell
      <3> QED BY <2>1, <3>1, <3>4, <3>5, <3>6 DEF AllTell
    <2> QED BY <2>4, <2>5 DEF ClockInv
  <1>3. CASE TaskAnswer(t)
    <2> DEFINE n == Stripped(task[t].name)
               k == Applied(base')
    <2>1. /\ task[t].at = "asked" /\ base' = {n} /\ task' = [task EXCEPT ![t] = k]
          /\ UNCHANGED <<profile, style, ticking, updater, wish, unread, crossed>>
      BY <1>3 DEF TaskAnswer, SameMode, SameWish
    <2> HIDE DEF n
    <2>2. style' \in DOMAIN Rendered
      BY <1>1, <2>1 DEF ClockKinds
    <2>3. k = [at |-> "update", name |-> Shown(n, style')]
      BY <2>1 DEF Applied
    <2>4. DOMAIN k = {"at", "name"} /\ k.at = "update" /\ k.name = Shown(n, style')
      <3> HIDE DEF k
      <3> QED BY <2>3
    <2> HIDE DEF k
    <2>5. /\ DOMAIN task' = ClockTask /\ \A u \in ClockTask : DOMAIN task'[u] = {"at", "name"}
          /\ \A u \in ClockTask : task'[u] = IF u = t THEN k ELSE task[u]
      BY <1>1, <2>1, <2>4, RecordOf DEF ClockKinds
    <2>6. ClockKinds'
      BY <1>1, <2>1, <2>5 DEF ClockKinds
    <2>7. ASSUME ~crossed'
          PROVE  InTurn' /\ AllTell'
      <3>1. InTurn /\ AllTell
        BY <2>1, <2>7 DEF ClockInv
      <3>2. updater.at = "idle" /\ \A u \in ClockTask : u # t => ~IsChanging(task[u])
        BY <2>1, <3>1 DEF InTurn, IsChanging
      <3>3. BaseOf(n, wish)
        <4>1. wish \in NewName /\ Tells(task[t].name, wish)
          BY <1>1, <2>1, <3>1 DEF AllTell, ClockKinds
        <4> QED BY <4>1, WhatIsRead DEF n
      <3>4. Tells(k.name, wish)
        BY <2>2, <2>4, <3>3, ShownTells
      <3>5. InTurn'
        BY <2>1, <2>5, <3>1, <3>2 DEF InTurn
      <3>6. \A u \in ClockTask : task'[u].at \in {"asked", "update"} => Tells(task'[u].name, wish)
        BY <2>5, <3>1, <3>4 DEF AllTell
      <3>7. ~(\A u \in ClockTask : task'[u].at # "update")
        BY <2>4, <2>5
      <3> QED BY <2>1, <3>1, <3>2, <3>3, <3>5, <3>6, <3>7 DEF AllTell
    <2> QED BY <2>6, <2>7 DEF ClockInv
  <1>4. CASE TaskLands(t) \/ TaskFails(t)
    <2>1. /\ task' = [task EXCEPT ![t] = AtRest]
          /\ \/ task[t].at = "update" /\ profile' = task[t].name /\ crossed' = crossed
             \/ crossed' = TRUE
          /\ UNCHANGED <<base, style, ticking, updater, wish, unread>>
      BY <1>4 DEF TaskLands, TaskFails, SameMode, SameWish
    <2>2. DOMAIN AtRest = {"at", "name"} /\ AtRest.at = "idle"
      BY DEF AtRest
    <2>3. /\ DOMAIN task' = ClockTask /\ \A u \in ClockTask : DOMAIN task'[u] = {"at", "name"}
          /\ \A u \in ClockTask : task'[u] = IF u = t THEN AtRest ELSE task[u]
      BY <1>1, <2>1, <2>2, RecordOf DEF ClockKinds
    <2>4. ClockKinds'
      BY <1>1, <2>1, <2>3 DEF ClockKinds
    <2>5. ASSUME ~crossed'
          PROVE  InTurn' /\ AllTell'
      <3>1. InTurn /\ AllTell /\ task[t].at = "update" /\ profile' = task[t].name
        BY <2>1, <2>5 DEF ClockInv
      <3>2. InTurn'
        BY <2>1, <2>2, <2>3, <3>1 DEF InTurn, IsChanging
      <3>3. Tells(profile', wish')
        BY <2>1, <3>1 DEF AllTell
      <3>4. \A u \in ClockTask : task'[u].at \in {"asked", "update"} => task'[u] = task[u]
        BY <2>2, <2>3
      <3> QED BY <2>1, <3>1, <3>2, <3>3, <3>4 DEF AllTell
    <2> QED BY <2>4, <2>5 DEF ClockInv
  <1> QED BY <1>2, <1>3, <1>4

LEMMA WorldKeeps ==
    ASSUME ClockAssumption, ClockInv,
           \/ \E n \in NewName : AppRename(n)
           \/ \E b \in BOOLEAN : ClockSwitch(b)
           \/ ClockCrash \/ ClockTick \/ UNCHANGED <<envVars, clockVars>>
    PROVE  ClockInv'
  <1>1. ClockKinds
    BY DEF ClockInv
  <1>2. ASSUME NEW n \in NewName, AppRename(n)
        PROVE  ClockInv'
    <2>1. /\ profile' = n /\ wish' = n /\ unread' = TRUE /\ crossed' = Changing
          /\ UNCHANGED <<base, style, ticking, updater, task>>
      BY <1>2 DEF AppRename, Wishes, SameMode
    <2>2. ClockKinds'
      BY <1>1, <2>1 DEF ClockKinds, Changing
    <2>3. ASSUME ~crossed'
          PROVE  InTurn' /\ AllTell'
      <3>1. updater.at = "idle" /\ \A u \in ClockTask : ~IsChanging(task[u])
        BY <2>1, <2>3 DEF Changing, IsChanging
      <3>2. \A u \in ClockTask : task[u].at \notin {"asked", "update"}
        BY <3>1 DEF IsChanging
      <3>3. Tells(n, n)
        BY NamesAreTexts
      <3> QED BY <2>1, <3>1, <3>2, <3>3 DEF InTurn, AllTell
    <2> QED BY <2>2, <2>3 DEF ClockInv
  <1>3. ASSUME NEW b \in BOOLEAN, ClockSwitch(b)
        PROVE  ClockInv'
    <2>1. ticking' \in BOOLEAN /\ UNCHANGED <<profile, base, style, updater, task, wish, unread, crossed>>
      BY <1>3 DEF ClockSwitch, SameWish
    <2> QED BY <2>1 DEF ClockInv, ClockKinds, InTurn, AllTell
  <1>4. CASE ClockCrash
    <2>1. /\ base' = {} /\ updater' = Resting
          /\ crossed' = (crossed \/ \E t \in ClockTask : task[t].at # "idle")
          /\ task' = [t \in ClockTask |-> AtRest]
          /\ UNCHANGED <<profile, style, ticking, wish, unread>>
      BY <1>4 DEF ClockCrash, SameMode, SameWish
    <2>2. /\ DOMAIN task' = ClockTask /\ \A t \in ClockTask : task'[t] = AtRest
          /\ DOMAIN AtRest = {"at", "name"} /\ AtRest.at = "idle" /\ updater'.at = "idle"
      BY <2>1 DEF AtRest, Resting
    <2>3. ClockKinds'
      BY <1>1, <2>1, <2>2 DEF ClockKinds
    <2>4. ASSUME ~crossed'
          PROVE  InTurn' /\ AllTell'
      <3>1. AllTell /\ \A t \in ClockTask : task[t].at = "idle"
        BY <2>1, <2>4 DEF ClockInv
      <3>2. Tells(profile, wish)
        BY <3>1 DEF AllTell
      <3> QED BY <2>1, <2>2, <3>2 DEF InTurn, AllTell, IsChanging
    <2> QED BY <2>3, <2>4 DEF ClockInv
  <1>5. CASE UNCHANGED clockVars
    BY <1>5 DEF clockVars, ClockInv, ClockKinds, InTurn, AllTell
  <1> QED BY <1>2, <1>3, <1>4, <1>5 DEF ClockTick

LEMMA ClockStep ==
    ASSUME ClockAssumption, ClockInv, [ClockNext]_<<envVars, clockVars>>
    PROVE  ClockInv'
  <1>1. CASE ClockLook \/ ClockAnswer \/ ClockLands \/ ClockFails
    BY <1>1, UpdaterKeeps
  <1>2. CASE \E n \in NewName, t \in ClockTask : SetName(t, n)
    BY <1>2, NameIsSet
  <1>3. CASE \E t \in ClockTask, s \in DOMAIN Rendered : ClockStyle(t, s)
    BY <1>3, StyleIsChosen
  <1>4. ASSUME NEW t \in ClockTask, ClockStyleNext(t)
        PROVE  ClockInv'
    <2>1. PICK i \in 1..Len(Style) : ClockStyle(t, Style[(i % Len(Style)) + 1])
      BY <1>4 DEF ClockStyleNext
    <2>2. Style[(i % Len(Style)) + 1] \in DOMAIN Rendered
      <3>1. Len(Style) = 15
        BY DEF Style
      <3>2. (i % Len(Style)) + 1 \in 1..15
        <4>1. i \in Nat
          BY <3>1
        <4>2. i % 15 \in 0..14
          BY <4>1
        <4> QED BY <3>1, <4>2
      <3>3. \A j \in 1..15 : Style[j] \in DOMAIN Rendered
        BY DEF Style, Rendered
      <3> QED BY <3>2, <3>3
    <2> QED BY <2>1, <2>2, StyleIsChosen
  <1>5. CASE \E t \in ClockTask : ApplyStyle(t)
    BY <1>5, StyleIsApplied
  <1>6. CASE \E t \in ClockTask : TaskAsks(t) \/ TaskAnswer(t) \/ TaskLands(t) \/ TaskFails(t)
    BY <1>6, TaskGoesOn
  <1>7. CASE \/ \E n \in NewName : AppRename(n)
             \/ \E b \in BOOLEAN : ClockSwitch(b)
             \/ ClockCrash \/ ClockTick \/ UNCHANGED <<envVars, clockVars>>
    BY <1>7, WorldKeeps
  <1> QED BY <1>1, <1>2, <1>3, <1>4, <1>5, <1>6, <1>7 DEF ClockNext

\* The first process.
LEMMA ClockInitInv ==
    ASSUME ClockAssumption, ClockInit
    PROVE  ClockInv
  <1>1. /\ wish \in NewName /\ style \in FirstStyle /\ ticking \in BOOLEAN
        /\ profile = (IF ticking THEN Shown(wish, style) ELSE wish)
        /\ base = {} /\ updater = Resting /\ task = [t \in ClockTask |-> AtRest]
        /\ unread = FALSE /\ crossed = FALSE
    BY DEF ClockInit
  <1>2. /\ DOMAIN task = ClockTask /\ \A t \in ClockTask : task[t] = AtRest
        /\ DOMAIN AtRest = {"at", "name"} /\ AtRest.at = "idle" /\ updater.at = "idle"
    BY <1>1 DEF AtRest, Resting
  <1>3. style \in DOMAIN Rendered
    BY <1>1 DEF ClockAssumption
  <1>4. ClockKinds
    BY <1>1, <1>2, <1>3 DEF ClockKinds
  <1>5. BaseOf(wish, wish) /\ Tells(wish, wish)
    BY <1>1, NamesAreTexts
  <1>6. Tells(Shown(wish, style), wish)
    BY <1>3, <1>5, ShownTells
  <1> QED BY <1>1, <1>2, <1>4, <1>5, <1>6 DEF ClockInv, InTurn, AllTell, IsChanging

LEMMA ClockTellsWish ==
    ASSUME ClockAssumption, ClockInv
    PROVE  NameKept
  <1> SUFFICES ASSUME ~crossed, \A t \in ClockTask : task[t].at # "update"
               PROVE  Kept(Stripped(profile)) = Kept(wish)
    BY DEF NameKept
  <1>1. wish \in NewName /\ Tells(profile, wish)
    BY DEF ClockInv, ClockKinds, AllTell
  <1> QED BY <1>1, WhatIsRead DEF BaseOf

\* Whatever the names, for any limit, style and number of commands, and whatever
\* fails: the name on Telegram, without the time, is the one the owner gave last,
\* cut to the limit and without the spaces at its end; unless that change met
\* another one or failed, or was made elsewhere and not read (clock.py:210-261).
THEOREM NameAlwaysKept ==
    ASSUME ClockAssumption
    PROVE  ClockSpec => []NameKept
  <1>1. EnvInit /\ ClockInit => ClockInv
    BY ClockInitInv
  <1>2. ClockInv /\ [ClockNext]_<<envVars, clockVars>> => ClockInv'
    BY ClockStep
  <1>3. ClockInv => NameKept
    BY ClockTellsWish
  <1> QED BY <1>1, <1>2, <1>3, PTL DEF ClockSpec

-----------------------------------------------------------------------------
(* Types of the settings.                                                  *)

\* Some cells, on or off.
Switches(f) == DOMAIN f \subseteq Cell /\ \A c \in DOMAIN f : f[c] \in BOOLEAN

\* What is to be written is of the cells, and what was read is of those to be
\* written.
CellsTInv ==
    /\ EnvTypeOK
    /\ mem \in [Cell -> BOOLEAN] /\ table \in [Cell -> BOOLEAN]
    /\ \A o \in Save : Switches(saver[o].tx) /\ DOMAIN saver[o].seen \subseteq DOMAIN saver[o].tx
    /\ Switches(load.seen)
    /\ disturbed \subseteq Store

LEMMA NoSwitches ==
    /\ Switches(NoCells) /\ DOMAIN NoCells = {}
    /\ Switches(Idling.tx) /\ DOMAIN Idling.seen \subseteq DOMAIN Idling.tx
  BY DEF Switches, NoCells, Idling

LEMMA SwitchesIn ==
    ASSUME NEW f \in [Cell -> BOOLEAN], NEW D \in SUBSET Cell
    PROVE  Switches([c \in D |-> f[c]])
  BY DEF Switches

LEMMA ChangeSwitches ==
    ASSUME NEW c \in Usable
    PROVE  Switches(c.set) /\ c.saves \subseteq Cell /\ c.store \in Store
  <1>1. c.set \in Values /\ c.saves \subseteq Cell /\ c.store \in Store
    BY DEF Usable, Changes
  <1>2. PICK D \in SUBSET Cell : c.set \in [D -> BOOLEAN]
    BY <1>1 DEF Values
  <1> QED BY <1>1, <1>2 DEF Switches

LEMMA DefaultType == Default \in [Cell -> BOOLEAN]
  BY DEF Default

LEMMA WithType ==
    ASSUME NEW f, Switches(f), mem \in [Cell -> BOOLEAN]
    PROVE  With(f) \in [Cell -> BOOLEAN]
  BY DEF With, Switches

LEMMA CellsInit ==
    ASSUME EnvironmentAssumption, EnvInit, SettingsInit
    PROVE  CellsTInv
  <1>1. EnvTypeOK
    BY EnvAtFirst
  <1>2. mem = Default /\ table = Default /\ load.seen = NoCells /\ disturbed = {}
        /\ \A o \in Save : saver[o] = Idling
    BY DEF SettingsInit, LoadsOf
  <1> QED BY <1>1, <1>2, DefaultType, NoSwitches DEF CellsTInv

LEMMA BeginCells ==
    ASSUME SInv, CellsTInv, NEW o \in Save, NEW c \in Usable, NEW rest, Begin(o, c, rest)
    PROVE  /\ mem' \in [Cell -> BOOLEAN] /\ UNCHANGED <<table, load>>
           /\ disturbed' \subseteq Store
           /\ \A p \in Save : Switches(saver'[p].tx) /\ DOMAIN saver'[p].seen \subseteq DOMAIN saver'[p].tx
  <1>1. Switches(c.set) /\ c.saves \subseteq Cell /\ c.store \in Store
    BY ChangeSwitches
  <1>2. mem' \in [Cell -> BOOLEAN]
    BY <1>1, WithType DEF Begin, CellsTInv
  <1>3. UNCHANGED <<table, load>> /\ disturbed' \subseteq Store
    BY <1>1 DEF Begin, CellsTInv
  <1>4. PICK n : /\ n = [at |-> "begun", store |-> c.store, todo |-> rest,
                          tx |-> [x \in c.saves |-> mem'[x]], seen |-> NoCells]
                 /\ saver' = [saver EXCEPT ![o] = n]
    BY DEF Begin
  <1>5. Switches(n.tx) /\ DOMAIN n.seen \subseteq DOMAIN n.tx
    BY <1>1, <1>2, <1>4, SwitchesIn, NoSwitches
  <1>6. saver'[o] = n /\ \A p \in Save \ {o} : saver'[p] = saver[p]
    BY <1>4, OneTask DEF SInv, CellKinds
  <1> QED BY <1>2, <1>3, <1>5, <1>6 DEF CellsTInv

\* A task other than one begun.
LEMMA TaskCells ==
    ASSUME SInv, CellsTInv, NEW o \in Save, ReadRow(o) \/ CommitSave(o) \/ SaveFails(o)
    PROVE  /\ mem' \in [Cell -> BOOLEAN] /\ table' \in [Cell -> BOOLEAN] /\ UNCHANGED load
           /\ disturbed' \subseteq Store
           /\ \A p \in Save : Switches(saver'[p].tx) /\ DOMAIN saver'[p].seen \subseteq DOMAIN saver'[p].tx
  <1>1. PICK n : saver' = [saver EXCEPT ![o] = n]
                 /\ Switches(n.tx) /\ DOMAIN n.seen \subseteq DOMAIN n.tx
    <2>1. CASE ReadRow(o)
      <3>1. PICK n : n = [saver[o] EXCEPT !.at = "read",
                            !.seen = [c \in DOMAIN saver[o].tx |-> table[c]]]
                     /\ saver' = [saver EXCEPT ![o] = n]
        BY <2>1 DEF ReadRow
      <3>2. DOMAIN saver[o] = {"at", "store", "todo", "tx", "seen"}
        BY DEF SInv, CellKinds, IsTask
      <3>3. n.tx = saver[o].tx /\ DOMAIN n.seen = DOMAIN saver[o].tx
        BY <3>1, <3>2
      <3> QED BY <3>1, <3>3 DEF CellsTInv
    <2>2. CASE CommitSave(o)
      <3>1. PICK n : /\ n = IF saver[o].todo = <<>> THEN Idling
                             ELSE [saver[o] EXCEPT !.at = "next", !.tx = NoCells, !.seen = NoCells]
                     /\ saver' = [saver EXCEPT ![o] = n]
        BY <2>2 DEF CommitSave
      <3>2. DOMAIN saver[o] = {"at", "store", "todo", "tx", "seen"}
        BY DEF SInv, CellKinds, IsTask
      <3>3. n = Idling \/ n = [saver[o] EXCEPT !.at = "next", !.tx = NoCells, !.seen = NoCells]
        BY <3>1
      <3>4. n = Idling \/ (n.tx = NoCells /\ n.seen = NoCells)
        BY <3>2, <3>3
      <3> QED BY <3>1, <3>4, NoSwitches
    <2>3. CASE SaveFails(o)
      BY <2>3, NoSwitches DEF SaveFails
    <2> QED BY <2>1, <2>2, <2>3
  <1>2. saver'[o] = n /\ \A p \in Save \ {o} : saver'[p] = saver[p]
    BY <1>1, OneTask DEF SInv, CellKinds
  <1>3. mem' \in [Cell -> BOOLEAN] /\ UNCHANGED load
    BY DEF ReadRow, CommitSave, SaveFails, CellsTInv
  <1>4. table' \in [Cell -> BOOLEAN]
    <2>1. CASE UNCHANGED table
      BY <2>1 DEF CellsTInv
    <2>2. CASE table' = Written(saver[o].tx, saver[o].seen)
      BY <2>2 DEF Written, CellsTInv, Switches
    <2> QED BY <2>1, <2>2 DEF ReadRow, CommitSave, SaveFails
  <1>5. disturbed' \subseteq Store
    <2>1. SaveFails(o) => saver[o].store \in Store
      BY DEF SaveFails, SInv, CellKinds, IsTask
    <2> QED BY <2>1 DEF ReadRow, CommitSave, SaveFails, CellsTInv
  <1> QED BY <1>1, <1>2, <1>3, <1>4, <1>5 DEF CellsTInv

LEMMA LoadCells ==
    ASSUME SInv, CellsTInv, LoadRows \/ LoadItems \/ LoadAssign
    PROVE  /\ mem' \in [Cell -> BOOLEAN] /\ UNCHANGED <<table, saver>>
           /\ disturbed' \subseteq Store /\ Switches(load'.seen)
  <1>1. DOMAIN load = {"left", "seen"} /\ table \in [Cell -> BOOLEAN]
    BY DEF SInv, CellKinds, IsLoad, CellsTInv
  <1>2. UNCHANGED <<table, saver>> /\ disturbed' \subseteq Store
    BY DEF LoadRows, LoadItems, LoadAssign, CellsTInv
  <1>3. CASE LoadRows
    <2>1. PICK s \in Store :
            load' = [load EXCEPT !.seen = [c \in IF Row[s] = {} THEN Items(s) ELSE Rows(s) |-> table[c]]]
      BY <1>3 DEF LoadRows
    <2>2. PICK D : D = IF Row[s] = {} THEN Items(s) ELSE Rows(s)
      OBVIOUS
    <2>3. D \subseteq Cell
      BY <2>2, CellsAreCells DEF Cells
    <2>4. load'.seen = [c \in D |-> table[c]]
      BY <1>1, <2>1, <2>2
    <2> QED BY <1>1, <1>2, <1>3, <2>3, <2>4, SwitchesIn DEF LoadRows, CellsTInv
  <1>4. CASE LoadItems
    <2>1. PICK s \in Store :
            /\ DOMAIN load.seen = Rows(s)
            /\ load' = [load EXCEPT !.seen = [c \in Cells(s) |-> IF c \in Rows(s) THEN @[c] ELSE table[c]]]
      BY <1>4 DEF LoadItems
    <2>2. Cells(s) \subseteq Cell
      BY CellsAreCells
    <2>3. load'.seen = [c \in Cells(s) |-> IF c \in Rows(s) THEN load.seen[c] ELSE table[c]]
      BY <1>1, <2>1
    <2>4. Switches(load'.seen)
      BY <1>1, <2>1, <2>2, <2>3 DEF CellsTInv, Switches
    <2> QED BY <1>2, <1>4, <2>4 DEF LoadItems, CellsTInv
  <1>5. CASE LoadAssign
    <2>1. load'.seen = NoCells /\ mem' = With([c \in DOMAIN load.seen \ {Base} |-> load.seen[c]])
      BY <1>5 DEF LoadAssign
    <2>2. Switches([c \in DOMAIN load.seen \ {Base} |-> load.seen[c]])
      BY DEF CellsTInv, Switches
    <2> QED BY <1>2, <2>1, <2>2, WithType, NoSwitches DEF CellsTInv
  <1> QED BY <1>3, <1>4, <1>5

LEMMA CellsStep ==
    ASSUME SettingsAssumption, EnvironmentAssumption, SInv, CellsTInv, [SettingsNext]_settingVars
    PROVE  CellsTInv'
  <1>1. ASSUME NEW o \in Save, NEW c \in Usable, NEW rest, Begin(o, c, rest)
        PROVE  CellsTInv'
    <2>1. EnvTypeOK'
      BY <1>1, EnvKept DEF Begin, CellsTInv
    <2> QED BY <1>1, <2>1, BeginCells DEF CellsTInv, Switches, Cell
  <1>2. ASSUME NEW o \in Save, Command(o)
        PROVE  CellsTInv'
    <2>1. PICK c \in Usable : Order(o, c)
      BY <1>2, CommandIsOrder
    <2> QED BY <1>1, <2>1 DEF Order
  <1>3. ASSUME NEW o \in Save, NEW snap, IsFile(snap), Restore(o, snap)
        PROVE  CellsTInv'
    <2>1. RestoreSteps(snap) \in Seq(Usable) /\ RestoreSteps(snap) # <<>>
      BY <1>3, RestoreUsable DEF Restore
    <2>2. Head(RestoreSteps(snap)) \in Usable
      BY <2>1, HeadTailProperties
    <2> QED BY <1>1, <1>3, <2>2 DEF Restore
  <1>4. ASSUME NEW o \in Save, RestoreNext(o)
        PROVE  CellsTInv'
    <2>1. saver[o].todo \in Seq(Usable) /\ saver[o].todo # <<>>
      BY <1>4 DEF RestoreNext, SInv, CellKinds, IsTask
    <2>2. Head(saver[o].todo) \in Usable
      BY <2>1, HeadTailProperties
    <2> QED BY <1>1, <1>4, <2>2 DEF RestoreNext
  <1>5. ASSUME NEW o \in Save, ReadRow(o) \/ CommitSave(o) \/ SaveFails(o)
        PROVE  CellsTInv'
    <2>1. EnvTypeOK'
      BY <1>5, EnvKept DEF ReadRow, CommitSave, SaveFails, CellsTInv
    <2> QED BY <1>5, <2>1, TaskCells DEF CellsTInv
  <1>6. CASE LoadRows \/ LoadItems \/ LoadAssign
    <2>1. EnvTypeOK'
      BY <1>6, EnvKept DEF LoadRows, LoadItems, LoadAssign, CellsTInv
    <2> QED BY <1>6, <2>1, LoadCells DEF CellsTInv
  <1>7. CASE SettingsCrash
    <2>1. EnvTypeOK'
      BY <1>7, EnvKept DEF SettingsCrash, CellsTInv
    <2>2. mem' = Default /\ load'.seen = NoCells /\ disturbed' = {} /\ UNCHANGED table
          /\ \A o \in Save : saver'[o] = Idling
      BY <1>7 DEF SettingsCrash, LoadsOf
    <2> QED BY <2>1, <2>2, DefaultType, NoSwitches DEF CellsTInv
  <1>8. CASE UNCHANGED settingVars
    BY <1>8 DEF settingVars, settingsVars, CellsTInv, EnvTypeOK, envVars
  <1>9. ASSUME NEW o \in Save, ClockSave(o)
        PROVE  CellsTInv'
    <2>1. Change("clock", NoCells, Rows("clock")) \in Usable
      BY <1>9, SavingUsable DEF ClockSave
    <2> QED BY <1>1, <1>9, <2>1 DEF ClockSave
  <1>10. ASSUME NEW v \in BOOLEAN, ClockBase(v)
         PROVE  CellsTInv'
    <2>1. EnvTypeOK'
      BY <1>10, EnvKept DEF ClockBase, CellsTInv
    <2>2. Switches([c \in {Base} |-> v])
      <3>1. Base \in Cell
        BY BaseApart DEF Cell, Store
      <3> QED BY <3>1 DEF Switches
    <2>3. mem' \in [Cell -> BOOLEAN]
      BY <1>10, <2>2, WithType DEF ClockBase, CellsTInv
    <2> QED BY <1>10, <2>1, <2>3 DEF ClockBase, CellsTInv
  <1> QED BY <1>2, <1>3, <1>4, <1>5, <1>6, <1>7, <1>8, <1>9, <1>10 DEF SettingsNext

LEMMA CellsHold == ASSUME SInv, CellsTInv PROVE EnvTypeOK /\ SettingsTypes
  BY DEF SInv, CellKinds, IsTask, CellsTInv, Switches, SettingsTypes

\* Whatever is set, saved, loaded and restored, and whatever fails, memory and
\* tables hold every cell, a save writes cells only, and reads no other than it
\* writes (settings_toggles.py:16-33).
THEOREM SettingsKeepTypes ==
    ASSUME SettingsAssumption, EnvironmentAssumption
    PROVE  SettingsSpec => [](EnvTypeOK /\ SettingsTypes)
  <1>1. EnvInit /\ SettingsInit => SInv /\ CellsTInv
    BY SettingsInitInv, CellsInit
  <1>2. SInv /\ CellsTInv /\ [SettingsNext]_settingVars => (SInv /\ CellsTInv)'
    BY SettingsStepInv, CellsStep
  <1>3. SInv /\ CellsTInv => EnvTypeOK /\ SettingsTypes
    BY CellsHold
  <1> QED BY <1>1, <1>2, <1>3, PTL DEF SettingsSpec

-----------------------------------------------------------------------------
(* Types of the statistics.                                                *)

\* A task writes, has in hand and has left entries of chats.
IsWalk(t) ==
    /\ t.left \subseteq StatChat /\ DOMAIN t.wrote \subseteq StatChat
    /\ (t.at = "row") = (t.item # {})
    /\ \A e \in t.item : e[1] \in StatChat

ChatsTInv ==
    /\ EnvTypeOK
    /\ DOMAIN perChat \subseteq StatChat /\ DOMAIN stored.chats \subseteq StatChat
    /\ \A s \in Saver : IsWalk(saving[s])

LEMMA EaseIsWalk == IsWalk(AtEase) /\ IsWalk([AtEase EXCEPT !.at = "reset", !.seen = stored.total])
  BY SumOfNone DEF IsWalk, AtEase

LEMMA WalkChats ==
    ASSUME NEW t, DOMAIN t = Fields, DOMAIN t.wrote \subseteq StatChat,
           NEW left \in SUBSET StatChat, NEW u, u \in WalksOn(t, left)
    PROVE  IsWalk(u)
  <1>1. CASE left = {}
    <2>1. u = [t EXCEPT !.at = "commit", !.left = {}, !.item = {}]
      BY <1>1 DEF WalksOn
    <2>2. u.at = "commit" /\ u.left = {} /\ u.item = {} /\ u.wrote = t.wrote
      BY <2>1 DEF Fields
    <2> QED BY <2>2 DEF IsWalk
  <1>2. CASE left # {}
    <2>1. PICK c \in left :
            u = [t EXCEPT !.at = "row", !.left = left \ {c}, !.item = {<<c, View(t)[c]>>}]
      BY <1>2 DEF WalksOn
    <2>2. u.at = "row" /\ u.left = left \ {c} /\ u.item = {<<c, View(t)[c]>>} /\ u.wrote = t.wrote
      BY <2>1 DEF Fields
    <2> QED BY <2>2 DEF IsWalk
  <1> QED BY <1>1, <1>2

\* The walk of the chats begins over chats.
LEMMA ChatsWalked ==
    ASSUME NEW t, DOMAIN t = Fields, DOMAIN t.wrote \subseteq StatChat,
           DOMAIN perChat \subseteq StatChat, NEW u \in ChatsBegin(t)
    PROVE  IsWalk(u)
  <1>1. PICK v : v = [t EXCEPT !.keys = DOMAIN perChat]
    OBVIOUS
  <1>2. DOMAIN v = Fields /\ v.wrote = t.wrote
    BY <1>1 DEF Fields
  <1>3. u \in WalksOn(v, DOMAIN perChat)
    BY <1>1 DEF ChatsBegin
  <1> QED BY <1>2, <1>3, WalkChats

\* A walk that is given a copy of the dictionary.
LEMMA WalkKept ==
    ASSUME NEW t, DOMAIN t = Fields, IsWalk(t), NEW v, NEW u,
           u = [t EXCEPT !.live = FALSE, !.view = v]
    PROVE  IsWalk(u)
  <1>1. u.at = t.at /\ u.left = t.left /\ u.item = t.item /\ u.wrote = t.wrote
    BY DEF Fields
  <1> QED BY <1>1 DEF IsWalk

LEMMA UpsertedChats ==
    ASSUME NEW f, NEW g, DOMAIN f \subseteq StatChat, DOMAIN g \subseteq StatChat
    PROVE  DOMAIN Upserted(f, g) \subseteq StatChat
  BY DEF Upserted

LEMMA ChatsInit == ASSUME EnvironmentAssumption, EnvInit, StatsInit PROVE ChatsTInv
  <1>1. EnvTypeOK
    BY EnvAtFirst
  <1>2. DOMAIN perChat = {} /\ \A s \in Saver : saving[s] = AtEase
    BY SumOfNone DEF StatsInit
  <1>3. DOMAIN stored.chats \subseteq StatChat
    <2>1. stored.chats \in {NoChats} \cup UNION {[{c} -> {1}] : c \in StatChat}
      BY DEF StatsInit
    <2>2. ASSUME NEW c \in StatChat, stored.chats \in [{c} -> {1}]
          PROVE  DOMAIN stored.chats \subseteq StatChat
      BY <2>2
    <2>3. stored.chats = NoChats \/ \E c \in StatChat : stored.chats \in [{c} -> {1}]
      BY <2>1
    <2> QED BY <2>2, <2>3, SumOfNone
  <1> QED BY <1>1, <1>2, <1>3, EaseIsWalk DEF ChatsTInv

LEMMA SaverStep ==
    ASSUME EnvironmentAssumption, StatsInv, ChatsTInv, NEW s \in Saver,
           SaveBegin(s) \/ SaveTotals(s) \/ SaveChats(s) \/ SaveRow(s)
             \/ SaveCommit(s) \/ SaveRaises(s)
    PROVE  ChatsTInv'
  <1>1. EnvTypeOK'
    BY EnvKept DEF SaveBegin, SaveTotals, SaveChats, SaveRow, SaveCommit, SaveRaises, ChatsTInv
  <1>2. StatsKinds /\ IsSaver(saving[s]) /\ IsWalk(saving[s]) /\ DOMAIN saving[s] = Fields
    BY DEF StatsInv, StatsKinds, IsSaver, ChatsTInv
  <1>3. UNCHANGED perChat
    BY DEF SaveBegin, SaveTotals, SaveChats, SaveRow, SaveCommit, SaveRaises, InMemory
  <1>4. \E t : saving' = [saving EXCEPT ![s] = t] /\ IsWalk(t)
    <2>1. CASE SaveBegin(s)
      <3>1. PICK t : /\ t = [saving[s] EXCEPT !.at = "load", !.seen = stored.total]
                     /\ saving' = [saving EXCEPT ![s] = t]
        BY <2>1 DEF SaveBegin
      <3>2. t.at = "load" /\ t.left = saving[s].left /\ t.item = saving[s].item /\ t.wrote = saving[s].wrote
        BY <1>2, <3>1 DEF Fields
      <3>3. saving[s].at = "idle"
        BY <2>1 DEF SaveBegin
      <3> QED BY <1>2, <3>1, <3>2, <3>3 DEF IsWalk
    <2>2. CASE SaveTotals(s)
      <3>1. PICK t : /\ t = [saving[s] EXCEPT !.total = total]
                     /\ \E u \in {[t EXCEPT !.at = "names"]} \cup ChatsBegin(t) :
                          saving' = [saving EXCEPT ![s] = u]
        BY <2>2 DEF SaveTotals
      <3>2. /\ DOMAIN t = Fields /\ t.wrote = saving[s].wrote /\ t.item = saving[s].item
            /\ t.left = saving[s].left /\ saving[s].at = "load"
        BY <1>2, <2>2, <3>1 DEF Fields, SaveTotals
      <3>3. IsWalk([t EXCEPT !.at = "names"])
        <4>1. PICK v : v = [t EXCEPT !.at = "names"]
          OBVIOUS
        <4>2. v.at = "names" /\ v.left = t.left /\ v.item = t.item /\ v.wrote = t.wrote
          BY <3>2, <4>1 DEF Fields
        <4> QED BY <1>2, <3>2, <4>1, <4>2 DEF IsWalk
      <3>4. PICK u \in {[t EXCEPT !.at = "names"]} \cup ChatsBegin(t) :
              saving' = [saving EXCEPT ![s] = u]
        BY <3>1
      <3>5. IsWalk(u)
        BY <1>2, <3>2, <3>3, <3>4, ChatsWalked DEF IsWalk, ChatsTInv
      <3> QED BY <3>4, <3>5
    <2>5. CASE SaveChats(s)
      <3>1. PICK t : /\ t = [saving[s] EXCEPT !.flushed = TRUE]
                     /\ \E u \in ChatsBegin(t) \cup {AtEase} : saving' = [saving EXCEPT ![s] = u]
        BY <2>5 DEF SaveChats
      <3>2. DOMAIN t = Fields /\ t.wrote = saving[s].wrote
        BY <1>2, <3>1 DEF Fields
      <3>3. PICK u \in ChatsBegin(t) \cup {AtEase} : saving' = [saving EXCEPT ![s] = u]
        BY <3>1
      <3>4. IsWalk(u)
        BY <1>2, <3>2, <3>3, ChatsWalked, EaseIsWalk DEF IsWalk, ChatsTInv
      <3> QED BY <3>3, <3>4
    <2>3. CASE SaveRow(s)
      <3>0. PICK e \in saving[s].item : \E t :
              /\ t = [saving[s] EXCEPT !.flushed = TRUE, !.wrote = Upserted(OneRow(e[1], e[2]), @)]
              /\ \E u \in IF DOMAIN View(t) = t.keys THEN WalksOn(t, t.left) ELSE {AtEase} :
                    saving' = [saving EXCEPT ![s] = u]
        BY <2>3 DEF SaveRow
      <3>1. PICK t :
              /\ t = [saving[s] EXCEPT !.flushed = TRUE, !.wrote = Upserted(OneRow(e[1], e[2]), @)]
              /\ \E u \in IF DOMAIN View(t) = t.keys THEN WalksOn(t, t.left) ELSE {AtEase} :
                    saving' = [saving EXCEPT ![s] = u]
        BY <3>0
      <3>2. DOMAIN t = Fields /\ t.left = saving[s].left
            /\ t.wrote = Upserted(OneRow(e[1], e[2]), saving[s].wrote)
        BY <1>2, <3>1 DEF Fields
      <3>3. DOMAIN OneRow(e[1], e[2]) \subseteq StatChat
        BY <1>2 DEF OneRow, IsWalk
      <3>4. DOMAIN t.wrote \subseteq StatChat /\ t.left \subseteq StatChat
        BY <1>2, <3>2, <3>3, UpsertedChats DEF IsWalk
      <3>5. PICK u : u \in WalksOn(t, t.left) \cup {AtEase} /\ saving' = [saving EXCEPT ![s] = u]
        BY <3>1
      <3>6. IsWalk(u)
        BY <3>2, <3>4, <3>5, WalkChats, EaseIsWalk
      <3> QED BY <3>5, <3>6
    <2>4. CASE SaveCommit(s) \/ SaveRaises(s)
      BY <2>4, EaseIsWalk DEF SaveCommit, SaveRaises
    <2> QED BY <2>1, <2>2, <2>3, <2>4, <2>5
  <1>5. \A p \in Saver : IsWalk(saving'[p])
    BY <1>2, <1>4, OneSaver DEF ChatsTInv
  <1>6. DOMAIN stored'.chats \subseteq StatChat
    <2>1. CASE UNCHANGED stored
      BY <2>1 DEF ChatsTInv
    <2>2. CASE stored'.chats = Upserted(saving[s].wrote, stored.chats)
      BY <1>2, <2>2, UpsertedChats DEF IsWalk, ChatsTInv
    <2>3. UNCHANGED stored \/ SaveCommit(s)
      BY DEF SaveBegin, SaveTotals, SaveChats, SaveRow, SaveRaises
    <2> QED BY <2>1, <2>2, <2>3 DEF SaveCommit
  <1> QED BY <1>1, <1>3, <1>5, <1>6 DEF ChatsTInv, IsWalk

LEMMA ChatsStep ==
    ASSUME EnvironmentAssumption, StatsInv, ChatsTInv, [StatsNext]_<<envVars, statsVars>>
    PROVE  ChatsTInv'
  <1>1. StatsKinds /\ DOMAIN saving = Saver
        /\ \A p \in Saver : IsWalk(saving[p]) /\ DOMAIN saving[p] = Fields
    BY DEF StatsInv, StatsKinds, IsSaver, ChatsTInv
  <1>2. ASSUME NEW c \in StatChat, RecordMessage(c)
        PROVE  ChatsTInv'
    <2>1. EnvTypeOK'
      BY <1>2, EnvKept DEF RecordMessage, ChatsTInv
    <2>2. DOMAIN perChat' = DOMAIN perChat \cup {c} /\ UNCHANGED <<stored, saving>>
      BY <1>2 DEF RecordMessage
    <2> QED BY <2>1, <2>2 DEF ChatsTInv, IsWalk
  <1>3. ASSUME NEW b \in BOOLEAN, StatsSwitch(b)
        PROVE  ChatsTInv'
    <2>1. EnvTypeOK'
      BY <1>3, EnvKept DEF StatsSwitch, ChatsTInv
    <2> QED BY <1>3, <2>1 DEF StatsSwitch, ChatsTInv, IsWalk
  <1>4. ASSUME NEW s \in Saver, ResetMemory(s)
        PROVE  ChatsTInv'
    <2>1. EnvTypeOK'
      BY <1>4, EnvKept DEF ResetMemory, ChatsTInv
    <2>2. DOMAIN perChat' = {} /\ UNCHANGED stored
      BY <1>4, SumOfNone DEF ResetMemory
    <2>3. \A p \in Saver : \/ saving'[p] = [AtEase EXCEPT !.at = "reset", !.seen = stored.total]
                           \/ saving'[p] = [saving[p] EXCEPT !.live = FALSE, !.view = perChat]
                           \/ saving'[p] = saving[p]
      BY <1>4 DEF ResetMemory
    <2>4. ASSUME NEW p \in Saver PROVE IsWalk(saving'[p])
      <3>1. IsWalk(saving[p]) /\ DOMAIN saving[p] = Fields
        BY <1>1
      <3> QED BY <2>3, <3>1, EaseIsWalk, WalkKept
    <2> QED BY <2>1, <2>2, <2>4 DEF ChatsTInv, IsWalk
  <1>5. ASSUME NEW s \in Saver, ResetCommit(s)
        PROVE  ChatsTInv'
    <2>1. EnvTypeOK'
      BY <1>5, EnvKept DEF ResetCommit, ChatsTInv
    <2>2. stored'.chats = NoChats /\ UNCHANGED perChat /\ saving' = [saving EXCEPT ![s] = AtEase]
      BY <1>5 DEF ResetCommit, InMemory
    <2>3. \A p \in Saver : IsWalk(saving'[p])
      BY <1>1, <2>2, EaseIsWalk, OneSaver
    <2> QED BY <2>1, <2>2, <2>3, SumOfNone DEF ChatsTInv, IsWalk
  <1>6. CASE StatsLoadTotals \/ UNCHANGED <<envVars, statsVars>>
    <2>1. EnvTypeOK'
      BY <1>6, EnvKept DEF StatsLoadTotals, ChatsTInv, Calm
    <2> QED BY <1>6, <2>1 DEF StatsLoadTotals, ChatsTInv, IsWalk, statsVars
  <1>7. CASE StatsLoad
    <2>1. EnvTypeOK'
      BY <1>7, EnvKept DEF StatsLoad, ChatsTInv
    <2>2. perChat' = stored.chats /\ UNCHANGED stored
      BY <1>7 DEF StatsLoad
    <2>3. \A p \in Saver : \/ saving'[p] = [saving[p] EXCEPT !.live = FALSE, !.view = perChat]
                           \/ saving'[p] = saving[p]
      BY <1>7 DEF StatsLoad
    <2>4. ASSUME NEW p \in Saver PROVE IsWalk(saving'[p])
      <3>1. IsWalk(saving[p]) /\ DOMAIN saving[p] = Fields
        BY <1>1
      <3> QED BY <2>3, <3>1, WalkKept
    <2> QED BY <2>1, <2>2, <2>4 DEF ChatsTInv, IsWalk
  <1>8. CASE StatsCrash
    <2>1. EnvTypeOK'
      BY <1>8, EnvKept DEF StatsCrash, ChatsTInv
    <2>2. DOMAIN perChat' = {} /\ UNCHANGED stored /\ \A p \in Saver : saving'[p] = AtEase
      BY <1>8, SumOfNone DEF StatsCrash
    <2> QED BY <2>1, <2>2, EaseIsWalk DEF ChatsTInv, IsWalk
  <1> QED BY <1>2, <1>3, <1>4, <1>5, <1>6, <1>7, <1>8, SaverStep DEF StatsNext

LEMMA ChatsHold == ASSUME StatsInv, ChatsTInv PROVE EnvTypeOK /\ StatsTypes
  BY DEF StatsInv, StatsKinds, IsSaver, ChatsTInv, IsWalk, StatsTypes

\* Whatever is counted, saved, reset and loaded at once, totals are numbers,
\* entries are of chats, and a save has an entry in hand exactly while it walks
\* (stats_repo.py:46-79).
THEOREM StatsKeepTypes ==
    ASSUME EnvironmentAssumption PROVE StatsSpec => [](EnvTypeOK /\ StatsTypes)
  <1>1. EnvInit /\ StatsInit => StatsInv /\ ChatsTInv
    BY FirstStats, ChatsInit
  <1>2. StatsInv /\ ChatsTInv /\ [StatsNext]_<<envVars, statsVars>> => (StatsInv /\ ChatsTInv)'
    BY StatsStepInv, ChatsStep
  <1>3. StatsInv /\ ChatsTInv => EnvTypeOK /\ StatsTypes
    BY ChatsHold
  <1> QED BY <1>1, <1>2, <1>3, PTL DEF StatsSpec

-----------------------------------------------------------------------------
(* Types of the clock.                                                     *)

OneAtMost(S) == S = {} \/ \E x : S = {x}
Places == {"idle", "style", "ask", "asked", "update"}

NamesTInv ==
    /\ EnvTypeOK
    /\ OneAtMost(base) /\ OneAtMost(lastSet)
    /\ updater.at \in {"idle", "asked", "update"}
    /\ \A t \in ClockTask : task[t].at \in Places

LEMMA NamesInit == ASSUME EnvironmentAssumption, EnvInit, ClockInit PROVE NamesTInv
  <1>1. EnvTypeOK
    BY EnvAtFirst
  <1> QED BY <1>1 DEF NamesTInv, ClockInit, OneAtMost, Resting, AtRest, Places

\* What the bot does in the worker.
LEMMA WorkerNames ==
    ASSUME EnvironmentAssumption, ClockInv, NamesTInv,
           ClockLook \/ ClockAnswer \/ ClockLands \/ ClockFails
    PROVE  NamesTInv'
  <1>1. EnvTypeOK'
    BY EnvKept DEF ClockLook, ClockAnswer, ClockLands, ClockFails, NamesTInv
  <1>2. OneAtMost(base') /\ OneAtMost(lastSet')
    BY DEF ClockLook, ClockAnswer, ClockLands, ClockFails, NamesTInv, OneAtMost
  <1>3. UNCHANGED task
    BY DEF ClockLook, ClockAnswer, ClockLands, ClockFails
  <1>4. updater'.at \in {"idle", "asked", "update"}
    <2>1. ClockLook => updater'.at = "asked"
      BY DEF ClockLook
    <2>2. ClockAnswer => updater'.at \in {"idle", "update"}
      BY DEF ClockAnswer, Resting
    <2>3. ClockLands \/ ClockFails => updater'.at = "idle"
      BY DEF ClockLands, ClockFails, Resting
    <2> QED BY <2>1, <2>2, <2>3
  <1> QED BY <1>1, <1>2, <1>3, <1>4 DEF NamesTInv, OneAtMost

\* A task moves.
LEMMA TaskNames ==
    ASSUME EnvironmentAssumption, ClockInv, NamesTInv, NEW t \in ClockTask,
           NEW n, task' = [task EXCEPT ![t] = n], n.at \in Places,
           Calm \/ Fault \/ Ordered, UNCHANGED <<updater, lastSet>>, OneAtMost(base')
    PROVE  NamesTInv'
  <1>1. EnvTypeOK'
    BY EnvKept DEF NamesTInv
  <1>2. \A u \in ClockTask : task'[u] = IF u = t THEN n ELSE task[u]
    BY DEF ClockInv, ClockKinds
  <1> QED BY <1>1, <1>2 DEF NamesTInv, OneAtMost

LEMMA AppliedPlaces == \A b : Applied(b).at \in Places
  BY DEF Applied, Places

LEMMA CommandNames ==
    ASSUME EnvironmentAssumption, ClockInv, NamesTInv, NEW t \in ClockTask,
           \/ \E n \in NewName : SetName(t, n)
           \/ \E s \in DOMAIN Rendered : ClockStyle(t, s)
           \/ ClockStyleNext(t) \/ ApplyStyle(t)
           \/ TaskAsks(t) \/ TaskAnswer(t) \/ TaskLands(t) \/ TaskFails(t)
    PROVE  NamesTInv'
  <1>1. ASSUME NEW n \in NewName, SetName(t, n)
        PROVE  NamesTInv'
    <2>1. PICK k : /\ k = IF ticking THEN Applied({n}) ELSE [at |-> "update", name |-> n]
                   /\ task' = [task EXCEPT ![t] = k]
      BY <1>1 DEF SetName
    <2>2. k.at \in Places
      <3>1. CASE ticking
        BY <2>1, <3>1, AppliedPlaces
      <3>2. CASE ~ticking
        BY <2>1, <3>2 DEF Places
      <3> QED BY <3>1, <3>2
    <2>3. Ordered /\ UNCHANGED <<updater, lastSet>> /\ OneAtMost(base')
      BY <1>1 DEF SetName, OneAtMost
    <2> QED BY <2>1, <2>2, <2>3, TaskNames
  <1>2. ASSUME NEW s, ClockStyle(t, s)
        PROVE  NamesTInv'
    <2>1. PICK k : k = [task[t] EXCEPT !.at = "style"] /\ task' = [task EXCEPT ![t] = k]
      BY <1>2 DEF ClockStyle
    <2>2. k.at \in Places
      BY <2>1 DEF ClockInv, ClockKinds, Places
    <2>3. Ordered /\ UNCHANGED <<updater, lastSet>> /\ OneAtMost(base')
      BY <1>2 DEF ClockStyle, OneAtMost, NamesTInv
    <2> QED BY <2>1, <2>2, <2>3, TaskNames
  <1>3. CASE ApplyStyle(t)
    <2>1. PICK k : /\ k = IF ticking THEN Applied(base) ELSE AtRest
                   /\ task' = [task EXCEPT ![t] = k]
      BY <1>3 DEF ApplyStyle
    <2>2. k.at \in Places
      <3>1. CASE ticking
        BY <2>1, <3>1, AppliedPlaces
      <3>2. CASE ~ticking
        BY <2>1, <3>2 DEF AtRest, Places
      <3> QED BY <3>1, <3>2
    <2>3. Calm /\ UNCHANGED <<updater, lastSet>> /\ OneAtMost(base')
      BY <1>3 DEF ApplyStyle, OneAtMost, NamesTInv
    <2> QED BY <2>1, <2>2, <2>3, TaskNames
  <1>4. CASE TaskAnswer(t)
    <2>1. PICK k : k = Applied(base') /\ task' = [task EXCEPT ![t] = k]
      BY <1>4 DEF TaskAnswer
    <2>2. k.at \in Places
      BY <2>1 DEF Applied, Places
    <2>3. Calm /\ UNCHANGED <<updater, lastSet>> /\ OneAtMost(base')
      BY <1>4 DEF TaskAnswer, OneAtMost
    <2> QED BY <2>1, <2>2, <2>3, TaskNames
  <1>5. CASE TaskAsks(t) \/ TaskLands(t) \/ TaskFails(t)
    <2>1. PICK k : task' = [task EXCEPT ![t] = k] /\ k.at \in Places
      BY <1>5 DEF TaskAsks, TaskLands, TaskFails, AtRest, Places
    <2>2. (Calm \/ Fault) /\ UNCHANGED <<updater, lastSet>> /\ OneAtMost(base')
      BY <1>5 DEF TaskAsks, TaskLands, TaskFails, OneAtMost, NamesTInv
    <2> QED BY <2>1, <2>2, TaskNames
  <1> QED BY <1>1, <1>2, <1>3, <1>4, <1>5 DEF ClockStyleNext

LEMMA NamesStep ==
    ASSUME EnvironmentAssumption, ClockInv, NamesTInv, [ClockNext]_<<envVars, clockVars>>
    PROVE  NamesTInv'
  <1>1. CASE \/ \E n \in NewName : AppRename(n)
             \/ \E b \in BOOLEAN : ClockSwitch(b)
             \/ ClockTick \/ UNCHANGED <<envVars, clockVars>>
    <2>1. EnvTypeOK'
      BY <1>1, EnvKept DEF AppRename, ClockSwitch, ClockTick, Calm, NamesTInv
    <2>2. UNCHANGED <<base, lastSet, updater, task>>
      BY <1>1 DEF AppRename, ClockSwitch, ClockTick, clockVars
    <2> QED BY <2>1, <2>2 DEF NamesTInv, OneAtMost
  <1>2. CASE ClockCrash
    <2>1. EnvTypeOK'
      BY <1>2, EnvKept DEF ClockCrash, NamesTInv
    <2> QED BY <1>2, <2>1 DEF ClockCrash, NamesTInv, OneAtMost, Resting, AtRest, Places
  <1> QED BY <1>1, <1>2, WorkerNames, CommandNames DEF ClockNext

LEMMA NamesHold == ASSUME ClockInv, NamesTInv PROVE EnvTypeOK /\ ClockTypes
  <1>1. ASSUME NEW S, OneAtMost(S) PROVE Cardinality(S) <= 1
    <2>1. CASE S = {}
      BY <2>1, FS_EmptySet
    <2>2. CASE \E x : S = {x}
      <3>1. PICK x : S = {x}
        BY <2>2
      <3>2. Cardinality({x}) = 1
        BY FS_Singleton
      <3> QED BY <3>1, <3>2
    <2> QED BY <1>1, <2>1, <2>2 DEF OneAtMost
  <1>2. Cardinality(base) <= 1 /\ Cardinality(lastSet) <= 1
    BY <1>1 DEF NamesTInv
  <1> QED BY <1>2 DEF ClockInv, ClockKinds, NamesTInv, Places, ClockTypes

\* Through every command, failure and restart there is one base name at most, the
\* style is one of the fifteen, and worker and commands are where their awaits
\* leave them (clock.py:195-250).
THEOREM ClockKeepsTypes ==
    ASSUME ClockAssumption, EnvironmentAssumption
    PROVE  ClockSpec => [](EnvTypeOK /\ ClockTypes)
  <1>1. EnvInit /\ ClockInit => ClockInv /\ NamesTInv
    BY ClockInitInv, NamesInit
  <1>2. ClockInv /\ NamesTInv /\ [ClockNext]_<<envVars, clockVars>> => (ClockInv /\ NamesTInv)'
    BY ClockStep, NamesStep
  <1>3. ClockInv /\ NamesTInv => EnvTypeOK /\ ClockTypes
    BY NamesHold
  <1> QED BY <1>1, <1>2, <1>3, PTL DEF ClockSpec

-----------------------------------------------------------------------------
(* The services together.                                                  *)

\* Each service keeps its invariant while it is the one that runs.
ServicesInv ==
    /\ EnvTypeOK
    /\ part = "posts" => OInv /\ PostTInv
    /\ part = "settings" => SInv /\ CellsTInv
    /\ part = "digest" => DInv /\ DiaryTInv
    /\ part = "clock" => ClockInv /\ NamesTInv
    /\ part = "stats" => StatsInv /\ ChatsTInv

\* A step of the composition is one of the service that runs.
LEMMA TurnsAreSteps ==
    ASSUME ServicesAssumption
    PROVE  /\ PostsTurn => part = "posts" /\ part' = part /\ OutgoingNext
           /\ SettingsTurn => part = "settings" /\ part' = part /\ SettingsNext
           /\ DigestTurn => part = "digest" /\ part' = part /\ DigestNext
           /\ ClockTurn => part = "clock" /\ part' = part /\ ClockNext
           /\ StatsTurn => part = "stats" /\ part' = part /\ StatsNext
  <1>1. PostsTurn => part = "posts" /\ part' = part /\ OutgoingNext
    BY DEF PostsTurn, InPosts, Only, OutgoingNext, OwnerNext, SaverNext, WorkerNext
  <1>2. SettingsTurn => part = "settings" /\ part' = part /\ SettingsNext
    <2>1. \A b \in Backups : b \in [on : SUBSET (Cell \cup scope), named : SUBSET Greeted] /\ IsFile(b)
      BY DEF Backups, Named, IsFile
    <2> SUFFICES ASSUME SettingsTurn PROVE part = "settings" /\ part' = part /\ SettingsNext
      OBVIOUS
    <2>2. ASSUME NEW o \in Save, NEW v \in BOOLEAN,
                 \/ \E n \in PostRow : InSettings(PostSet(o, n, v))
                 \/ \E n \in DigestRow : InSettings(DigestSet(o, n, v))
                 \/ \E n \in FontRow : InSettings(FontSet(o, n, v))
                 \/ \E n \in ClockRow \ {"base"} : InSettings(ClockSet(o, n, v))
                 \/ \E n \in Listed \cup Greeted : InSettings(GuardSet(o, n, v))
                 \/ InSettings(SetToggle(o, v))
                 \/ \E s \in {"post", "digest", "font"} : InSettings(CentreSet(o, s, v))
          PROVE  part = "settings" /\ part' = part /\ SettingsNext
      BY <2>2 DEF InSettings, Only, SettingsNext, Command
    <2>3. ASSUME NEW o \in Save, NEW s \in {"post", "digest"},
                 \/ \E n \in Listed : InSettings(AddChat(o, s, n)) \/ InSettings(RemoveChat(o, s, n))
                 \/ InSettings(ClearChats(o, s))
          PROVE  part = "settings" /\ part' = part /\ SettingsNext
      BY <2>3 DEF InSettings, Only, SettingsNext, Command
    <2>4. ASSUME NEW o \in Save,
                 \/ \E b \in Backups : InSettings(Restore(o, b))
                 \/ InSettings(RestoreNext(o)) \/ InSettings(ReadRow(o)) \/ InSettings(CommitSave(o))
                 \/ InSettings(SaveFails(o)) \/ InSettings(ClockSave(o))
          PROVE  part = "settings" /\ part' = part /\ SettingsNext
      BY <2>1, <2>4 DEF InSettings, Only, SettingsNext
    <2>5. CASE \/ \E v \in BOOLEAN : InSettings(ClockBase(v))
               \/ InSettings(LoadRows) \/ InSettings(LoadItems) \/ InSettings(LoadAssign)
               \/ InSettings(SettingsCrash)
      BY <2>5 DEF InSettings, Only, SettingsNext
    <2> QED BY <2>2, <2>3, <2>4, <2>5 DEF SettingsTurn
  <1>3. DigestTurn => part = "digest" /\ part' = part /\ DigestNext
    BY DEF DigestTurn, InDigest, Only, DigestNext
  <1>4. ClockTurn => part = "clock" /\ part' = part /\ ClockNext
    <2>1. "star" \in DOMAIN Rendered
      BY DEF Rendered
    <2> QED BY <2>1 DEF ClockTurn, InClock, Only, ClockNext
  <1>5. StatsTurn => part = "stats" /\ part' = part /\ StatsNext
    BY DEF StatsTurn, InStats, Only, StatsNext
  <1> QED BY <1>1, <1>2, <1>3, <1>4, <1>5

\* Whatever service runs, and whatever it does and meets, every variable of it
\* keeps its kind of value.
THEOREM ServicesKeepTypes == ServicesSpec => []ServicesTypes
  <1> USE ServicesAssumption
  <1>0. /\ OutgoingAssumption /\ SettingsAssumption /\ DigestAssumption /\ ClockAssumption
        /\ EnvironmentAssumption
    BY DEF ServicesAssumption, OutgoingAssumption
  <1>1. ServicesInit => ServicesInv
    <2> SUFFICES ASSUME ServicesInit PROVE ServicesInv
      OBVIOUS
    <2>1. EnvInit /\ EnvTypeOK
      BY <1>0, EnvAtFirst DEF ServicesInit
    <2>2. part = "posts" => OInv /\ PostTInv
      BY <1>0, <2>1, OutgoingInitInv, PostTypesInit DEF ServicesInit, PostsStart
    <2>3. part = "settings" => SInv /\ CellsTInv
      BY <1>0, <2>1, SettingsInitInv, CellsInit DEF ServicesInit, SettingsStart
    <2>4. part = "digest" => DInv /\ DiaryTInv
      BY <1>0, <2>1, DigestInitInv, DiaryTypesInit DEF ServicesInit, DigestStart
    <2>5. part = "clock" => ClockInv /\ NamesTInv
      BY <1>0, <2>1, ClockInitInv, NamesInit DEF ServicesInit, ClockStart
    <2>6. part = "stats" => StatsInv /\ ChatsTInv
      BY <1>0, <2>1, FirstStats, ChatsInit DEF ServicesInit, StatsStart
    <2> QED BY <2>1, <2>2, <2>3, <2>4, <2>5, <2>6 DEF ServicesInv
  <1> DEFINE serviceVars == <<part, envVars, postVars, settingsVars, digestVars, clockVars, statsVars>>
  <1>2. ServicesInv /\ [ServicesNext]_serviceVars => ServicesInv'
    <2> SUFFICES ASSUME ServicesInv, [ServicesNext]_serviceVars PROVE ServicesInv'
      OBVIOUS
    <2>1. CASE PostsTurn
      <3>1. part = "posts" /\ part' = part /\ OutgoingNext
        BY <2>1, TurnsAreSteps
      <3>2. (OInv /\ PostTInv)'
        BY <1>0, <3>1, OutgoingStepInv, PostTypesStep DEF ServicesInv
      <3> QED BY <3>1, <3>2 DEF ServicesInv, PostTInv
    <2>2. CASE SettingsTurn
      <3>1. part = "settings" /\ part' = part /\ SettingsNext
        BY <2>2, TurnsAreSteps
      <3>2. (SInv /\ CellsTInv)'
        BY <1>0, <3>1, SettingsStepInv, CellsStep DEF ServicesInv
      <3> QED BY <3>1, <3>2 DEF ServicesInv, CellsTInv
    <2>3. CASE DigestTurn
      <3>1. part = "digest" /\ part' = part /\ DigestNext
        BY <2>3, TurnsAreSteps
      <3>2. (DInv /\ DiaryTInv)'
        BY <1>0, <3>1, DigestStepInv, DiaryTypesStep DEF ServicesInv
      <3> QED BY <3>1, <3>2 DEF ServicesInv, DiaryTInv
    <2>4. CASE ClockTurn
      <3>1. part = "clock" /\ part' = part /\ ClockNext
        BY <2>4, TurnsAreSteps
      <3>2. (ClockInv /\ NamesTInv)'
        BY <1>0, <3>1, ClockStep, NamesStep DEF ServicesInv
      <3> QED BY <3>1, <3>2 DEF ServicesInv, NamesTInv
    <2>5. CASE StatsTurn
      <3>1. part = "stats" /\ part' = part /\ StatsNext
        BY <2>5, TurnsAreSteps
      <3>2. (StatsInv /\ ChatsTInv)'
        BY <1>0, <3>1, StatsStepInv, ChatsStep DEF ServicesInv
      <3> QED BY <3>1, <3>2 DEF ServicesInv, ChatsTInv
    <2>6. CASE UNCHANGED serviceVars
      <3>1. /\ part' = part /\ UNCHANGED envVars /\ UNCHANGED postingVars /\ UNCHANGED settingVars
            /\ UNCHANGED diaryVars /\ UNCHANGED clockVars /\ UNCHANGED statsVars
        BY <2>6 DEF postingVars, settingVars, diaryVars
      <3>2. EnvTypeOK'
        BY <3>1 DEF ServicesInv, EnvTypeOK, envVars
      <3>3. part = "posts" => (OInv /\ PostTInv)'
        BY <1>0, <3>1, OutgoingStepInv, PostTypesStep DEF ServicesInv
      <3>4. part = "settings" => (SInv /\ CellsTInv)'
        BY <1>0, <3>1, SettingsStepInv, CellsStep DEF ServicesInv
      <3>5. part = "digest" => (DInv /\ DiaryTInv)'
        BY <1>0, <3>1, DigestStepInv, DiaryTypesStep DEF ServicesInv
      <3>6. part = "clock" => (ClockInv /\ NamesTInv)'
        BY <1>0, <3>1, ClockStep, NamesStep DEF ServicesInv
      <3>7. part = "stats" => (StatsInv /\ ChatsTInv)'
        BY <1>0, <3>1, StatsStepInv, ChatsStep DEF ServicesInv
      <3> QED BY <3>1, <3>2, <3>3, <3>4, <3>5, <3>6, <3>7 DEF ServicesInv
    <2> QED BY <2>1, <2>2, <2>3, <2>4, <2>5, <2>6 DEF ServicesNext
  <1>3. ServicesInv => ServicesTypes
    BY PostTypesHold, CellsHold, DiaryTypesHold, NamesHold, ChatsHold DEF ServicesInv, ServicesTypes
  <1> QED BY <1>1, <1>2, <1>3, PTL DEF ServicesSpec

===============================================================================
