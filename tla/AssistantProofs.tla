--------------------------- MODULE AssistantProofs ---------------------------
(***************************************************************************)
(* What Assistant.tla shows for every set of chats, people, messages and   *)
(* windows and every bound: type correctness, the exact counter of replies *)
(* being sent, one fixed-text claim per person and session, the manual     *)
(* lock, that stored rules change only on request, and that a quiet        *)
(* database holds what the memory holds.                                   *)
(***************************************************************************)
EXTENDS Assistant, FiniteSetTheorems, TLAPS

USE AssistantAssumption DEF Rule

\* The part of TypeOK the first results need.  The range of the reply counter
\* rests on the counting argument of FlightInv; TypeOK in full comes last.
Types ==
    /\ state \in State
    /\ phase \in {"connected", "rules", "windows", "loaded", "running"}
    /\ staged \in [values : Settings, rules : [Chat -> Rule]]
    /\ save \in [Slot -> SaveCall]
    /\ saved \in Settings
    /\ table \in [Chat -> Rule]
    /\ silent \in 0..Threshold
    /\ commands \in 0..MaxCommands
    /\ claim \in [Msg -> {"none", "fixed", "ai", "old"}]

-----------------------------------------------------------------------------
(* The operators on assistant_state.                                       *)

\* A recomputation keeps everything but `enabled`, and empties `replied`
\* exactly when it turns the assistant on.
LEMMA RecomputeKeeps ==
    ASSUME NEW s \in State, NEW quiet \in Nat
    PROVE  LET t == Recompute(s, quiet) IN
           /\ t \in State
           /\ t.auto = s.auto
           /\ t.ai = s.ai /\ t.layer = s.layer /\ t.mode = s.mode
           /\ t.rule = s.rule
           /\ t.replied = IF t.enabled /\ ~s.enabled THEN {} ELSE s.replied
  BY DEF Recompute, State

\* The callers' test leaves a locked state alone.
LEMMA RefreshedKeeps ==
    ASSUME NEW s \in State, NEW quiet \in Nat
    PROVE  LET t == Refreshed(s, quiet) IN
           /\ t \in State
           /\ t.auto = s.auto
           /\ t.ai = s.ai /\ t.layer = s.layer /\ t.mode = s.mode
           /\ t.rule = s.rule
           /\ t.replied = IF t.enabled /\ ~s.enabled THEN {} ELSE s.replied
           /\ ~s.auto => t = s
  BY RecomputeKeeps DEF Refreshed, State

\* What is loaded is a state whose rules are the ones read.
LEMMA BuildStateType ==
    ASSUME NEW v \in Settings, NEW rules \in [Chat -> Rule], NEW ws \in SUBSET Window
    PROVE  /\ BuildState(v, rules, ws) \in State
           /\ BuildState(v, rules, ws).rule = rules
           /\ BuildState(v, rules, ws).replied = {}
  BY DEF BuildState, State, Settings

\* What is saved are settings.
LEMMA ValuesType ==
    ASSUME NEW s \in State
    PROVE  Values(s) \in Settings
  BY DEF Values, State, Settings

\* The constants of the start and of a fresh save have their types.
LEMMA ConstantTypes ==
    /\ DefaultSettings \in Settings
    /\ NoRules \in [Chat -> Rule]
    /\ NothingRead \in [values : Settings, rules : [Chat -> Rule]]
    /\ Idle \in SaveCall
    /\ Done \in SaveCall
  BY DEF DefaultSettings, Settings, NoRules, NothingRead, Idle, Done, SaveCall

\* A save moves on to its next stage, with the rows it has built.
LEMMA StageType ==
    ASSUME NEW r \in SaveCall, NEW rows \in [Chat -> Rule]
    PROVE  /\ [r EXCEPT !.stage = "rows"] \in SaveCall
           /\ [r EXCEPT !.stage = "insert", !.rows = rows] \in SaveCall
  BY DEF SaveCall

-----------------------------------------------------------------------------
(* Types.                                                                  *)

\* The initial state is well typed.
LEMMA InitTypes == Init => Types
  BY ConstantTypes, BuildStateType DEF Init, Types

\* A session starting or going on keeps the claims well typed.
LEMMA SessionType ==
    ASSUME Types, NEW fresh \in BOOLEAN, Session(fresh)
    PROVE  claim' \in [Msg -> {"none", "fixed", "ai", "old"}]
  BY DEF Types, Session, sessVars

\* A command that makes a typed state and saves it keeps the types.
LEMMA CommandType ==
    ASSUME Types, NEW s \in State, NEW fresh \in BOOLEAN, Command(s, fresh), Begin
    PROVE  Types'
  <1>1. state' \in State /\ commands' \in 0..MaxCommands /\ commands + 1 \in Slot
    BY DEF Types, Command, Slot
  <1>2. save' \in [Slot -> SaveCall]
    BY <1>1, ValuesType, ConstantTypes DEF Types, Begin, SaveCall
  <1>3. claim' \in [Msg -> {"none", "fixed", "ai", "old"}]
    BY SessionType DEF Command
  <1> QED BY <1>1, <1>2, <1>3 DEF Types, Command, bootVars, dbVars, taskVars, timeVars

\* So does becoming a typed state through a recomputation.
LEMMA BecomeType ==
    ASSUME Types, NEW s \in State, Become(s)
    PROVE  /\ state' \in State
           /\ claim' \in [Msg -> {"none", "fixed", "ai", "old"}]
  <1>1. (s.enabled /\ ~state.enabled) \in BOOLEAN
    OBVIOUS
  <1> QED BY <1>1, SessionType DEF Become

\* And the activity watcher, in a chat where it looks and where it does not.
LEMMA SelfActivityType ==
    ASSUME Types, NEW c \in Chat, SelfActivity(c), SignalFrame
    PROVE  Types'
  <1>1. CASE inFlight[c] > 0
    BY <1>1 DEF SelfActivity, SignalFrame, Types, dbVars, bootVars, sessVars
  <1>2. CASE ~(inFlight[c] > 0)
    <2>1. Refreshed(state, 0) \in State
      BY RefreshedKeeps DEF Types
    <2>2. silent' = 0 /\ Become(Refreshed(state, 0))
      BY <1>2 DEF SelfActivity
    <2> QED BY <2>1, <2>2, BecomeType DEF SignalFrame, Types, dbVars, bootVars
  <1> QED BY <1>1, <1>2

\* Every step keeps the types.
LEMMA StepTypes == Types /\ [Next]_vars => Types'
  <1> SUFFICES ASSUME Types, [Next]_vars
               PROVE  Types'
    OBVIOUS
  <1> USE DEF dbVars, bootVars, taskVars, timeVars
  <1>1. CASE Boot
    <2>1. CASE LoadSettings
      BY <2>1 DEF LoadSettings, Types, sessVars
    <2>2. CASE LoadRules
      BY <2>2 DEF LoadRules, Types, sessVars
    <2>3. CASE LoadWindows
      <3>1. PICK ws \in SUBSET Window : state' = BuildState(staged.values, staged.rules, ws)
        BY <2>3 DEF LoadWindows
      <3>2. state' \in State
        BY <3>1, BuildStateType DEF Types
      <3>3. claim' \in [Msg -> {"none", "fixed", "ai", "old"}]
        BY <2>3, SessionType DEF LoadWindows
      <3> QED BY <2>3, <3>2, <3>3, ConstantTypes DEF LoadWindows, Types
    <2>4. CASE StartWatcher
      BY <2>4 DEF StartWatcher, Types, sessVars
    <2> QED BY <1>1, <2>1, <2>2, <2>3, <2>4 DEF Boot
  <1>2. CASE Owner
    <2>1. CASE On
      <3>1. [state EXCEPT !.enabled = TRUE, !.auto = FALSE, !.replied = {}] \in State
        BY DEF Types, State
      <3> QED BY <2>1, <3>1, CommandType DEF On, Plain
    <2>2. CASE Off
      <3>1. [state EXCEPT !.enabled = FALSE, !.auto = FALSE] \in State
        BY DEF Types, State
      <3> QED BY <2>2, <3>1, CommandType DEF Off, Plain
    <2>3. CASE SetText
      BY <2>3, CommandType DEF SetText, Plain, Types
    <2>4. CASE ClearRules
      <3>1. [state EXCEPT !.rule = NoRules] \in State
        BY ConstantTypes DEF Types, State
      <3> QED BY <2>4, <3>1, CommandType DEF ClearRules
    <2>5. ASSUME NEW now \in BOOLEAN, Detect(now)
          PROVE  Types'
      <3> DEFINE s == [state EXCEPT !.auto = TRUE]
                 t == IF now THEN Recompute(s, silent) ELSE s
      <3>0. [state EXCEPT !.auto = TRUE] \in State
        BY DEF Types, State
      <3>1. s \in State /\ silent \in Nat
        BY <3>0 DEF Types
      <3>2. t \in State
        BY <3>1, RecomputeKeeps
      <3>3. (t.enabled /\ ~state.enabled) \in BOOLEAN
        OBVIOUS
      <3>4. Command(t, t.enabled /\ ~state.enabled) /\ Begin
        BY <2>5 DEF Detect, Plain
      <3> HIDE DEF t
      <3> QED BY <3>2, <3>3, <3>4, CommandType
    <2>6. ASSUME NEW b \in BOOLEAN, NEW now \in BOOLEAN, Layer(b, now)
          PROVE  Types'
      <3> DEFINE s == [state EXCEPT !.layer = b]
                 t == IF now THEN Refreshed(s, silent) ELSE s
      <3>1. s \in State /\ silent \in Nat
        BY DEF Types, State
      <3>2. t \in State
        BY <3>1, RefreshedKeeps
      <3>3. (t.enabled /\ ~state.enabled) \in BOOLEAN
        OBVIOUS
      <3>4. Command(t, t.enabled /\ ~state.enabled) /\ Begin
        BY <2>6 DEF Layer, Plain
      <3> HIDE DEF t
      <3> QED BY <3>2, <3>3, <3>4, CommandType
    <2>7. ASSUME NEW mo \in Mode, SetMode(mo)
          PROVE  Types'
      <3>1. [state EXCEPT !.mode = mo] \in State
        BY DEF Types, State
      <3> QED BY <2>7, <3>1, CommandType DEF SetMode, Plain
    <2>8. ASSUME NEW b \in BOOLEAN, SetAi(b)
          PROVE  Types'
      <3>1. [state EXCEPT !.ai = b] \in State
        BY DEF Types, State
      <3> QED BY <2>8, <3>1, CommandType DEF SetAi, Plain
    <2>9. ASSUME NEW c \in Chat, Exclude(c) \/ Include(c)
          PROVE  Types'
      <3>1. /\ [state EXCEPT !.rule[c] = "exclude"] \in State
            /\ [state EXCEPT !.rule[c] = "include"] \in State
        BY DEF Types, State
      <3> QED BY <2>9, <3>1, CommandType DEF Exclude, Include
    <2>10. ASSUME NEW c \in Chat, OwnerSpeaks(c)
           PROVE  Types'
      BY <2>10, SelfActivityType DEF OwnerSpeaks
    <2>11. ASSUME NEW ws \in SUBSET Window, WindowsChanged(ws)
           PROVE  Types'
      <3>1. [state EXCEPT !.windows = ws] \in State /\ silent \in Nat
        BY DEF Types, State
      <3>2. Refreshed([state EXCEPT !.windows = ws], silent) \in State
        BY <3>1, RefreshedKeeps
      <3> QED BY <2>11, <3>2, BecomeType DEF WindowsChanged, Types
    <2> QED BY <1>2, <2>1, <2>2, <2>3, <2>4, <2>5, <2>6, <2>7, <2>8, <2>9, <2>10, <2>11
            DEF Owner
  <1>3. ASSUME NEW n \in Slot, Saving(n)
        PROVE  Types'
    <2> USE DEF SaveFrame, sessVars
    <2>1. CASE SaveSettings(n)
      BY <2>1, ConstantTypes DEF SaveSettings, Types, SaveCall
    <2>2. CASE DeleteRules(n)
      <3>1. [save[n] EXCEPT !.stage = "rows"] \in SaveCall
        BY StageType, ConstantTypes DEF Types
      <3>2. save' = [save EXCEPT ![n] = [save[n] EXCEPT !.stage = "rows"]]
        BY <2>2 DEF DeleteRules
      <3> QED BY <2>2, <3>1, <3>2 DEF DeleteRules, Types
    <2>3. CASE BuildRows(n)
      <3> DEFINE built == [save[n] EXCEPT !.stage = "insert", !.rows = Rows(state)]
      <3>1. built \in SaveCall
        BY StageType DEF Types, State, Rows
      <3>2. save' = [save EXCEPT ![n] = built]
        BY <2>3 DEF BuildRows
      <3>3. UNCHANGED dbVars /\ SaveFrame
        BY <2>3 DEF BuildRows
      <3> HIDE DEF built
      <3> QED BY <3>1, <3>2, <3>3 DEF Types
    <2>4. CASE InsertRules(n)
      <3>1. table' \in [Chat -> Rule]
        BY <2>4 DEF InsertRules, Types, SaveCall
      <3>2. RowsOf(n) \in SUBSET Chat
        BY DEF RowsOf
      <3>3. save' \in [Slot -> SaveCall]
        BY <2>4, <3>2, ConstantTypes DEF InsertRules, Types, SaveCall
      <3> QED BY <2>4, <3>1, <3>3 DEF InsertRules, Types
    <2>5. CASE InsertCollides(n) \/ SaveFails(n)
      BY <2>5, ConstantTypes DEF InsertCollides, SaveFails, Types
    <2> QED BY <1>3, <2>1, <2>2, <2>3, <2>4, <2>5 DEF Saving
  <1>4. ASSUME NEW m \in Msg,
               Receive(m) \/ Ignore(m) \/ Replying(m) \/ Echo(m)
        PROVE  Types'
    <2> USE DEF TaskFrame, sessVars
    <2>1. CASE Receive(m)
      <3>1. Claimed(state, m) \in State
        BY DEF Claimed, Types, State, Key
      <3> QED BY <2>1, <3>1 DEF Receive, Types
    <2>2. CASE Ignore(m) \/ Replying(m)
      BY <2>2 DEF Ignore, Replying, Answer, AskAi, AiAnswers, AiFails, Deliver,
                  ReplyReturns, ReplyFails, StartReply, Types
    <2>3. CASE Echo(m)
      BY <2>3, SelfActivityType DEF Echo
    <2> QED BY <1>4, <2>1, <2>2, <2>3
  <1>5. CASE Watch
    <2>1. Refreshed(state, silent) \in State
      BY RefreshedKeeps DEF Types
    <2> QED BY <1>5, <2>1, BecomeType DEF Watch, Types
  <1>6. CASE Tick
    BY <1>6 DEF Tick, Types, sessVars
  <1>7. CASE Crash
    <2>1. BuildState(DefaultSettings, NoRules, {}) \in State
      BY ConstantTypes, BuildStateType
    <2>2. claim' \in [Msg -> {"none", "fixed", "ai", "old"}]
      BY <1>7, SessionType DEF Crash
    <2> QED BY <1>7, <2>1, <2>2, ConstantTypes DEF Crash, Types, SaveCall
  <1>8. CASE UNCHANGED vars
    BY <1>8 DEF vars, Types, sessVars
  <1> QED BY <1>1, <1>2, <1>3, <1>4, <1>5, <1>6, <1>7, <1>8 DEF Next

\* Every variable the results below speak of keeps its kind of value, in every
\* behaviour of the assistant.
LEMMA AlwaysTypes == Spec => []Types
  BY InitTypes, StepTypes, PTL DEF Spec

-----------------------------------------------------------------------------
(* What a step of the owner or of a signal does to the rules, the session  *)
(* and the lock.                                                           *)

\* `replied` is kept, or a fresh session begins; only chats a command has named
\* change their rule; the tables and the start are left alone.
Keeps ==
    /\ \E fresh \in BOOLEAN : Session(fresh) /\ (~fresh => state'.replied = state.replied)
    /\ \A c \in Chat \ touched' : state'.rule[c] = state.rule[c]
    /\ \A c \in touched \cap Chat : c \in touched'
    /\ UNCHANGED <<phase, staged, table>>

\* A command that saves.
SaveBegins ==
    /\ commands' = commands + 1
    /\ commands + 1 \in Slot
    /\ early' = (early \/ ~Loaded)
    /\ disturbed' = (disturbed \/ Active # {} \/ ~Loaded)
    /\ saved' = saved
    /\ Begin

\* Two states the same stored settings and rules bring back.
SameChoices(s, t) ==
    /\ t.auto = s.auto /\ t.ai = s.ai /\ t.layer = s.layer /\ t.mode = s.mode
    /\ t.rule = s.rule
    /\ ~s.auto => t.enabled = s.enabled

\* Anything else, which leaves a locked assistant as it is.
Quiet ==
    /\ UNCHANGED <<save, early, disturbed, saved, commands>>
    /\ SameChoices(state, state')

\* A command whose state keeps `replied` unless it starts a session, and whose
\* rules differ only in chats it names.
LEMMA CommandEffect ==
    ASSUME Types, NEW s, NEW fresh \in BOOLEAN, Command(s, fresh), Begin,
           ~fresh => s.replied = state.replied,
           \A c \in Chat \ touched' : s.rule[c] = state.rule[c],
           \A c \in touched \cap Chat : c \in touched'
    PROVE  Keeps /\ SaveBegins
  BY DEF Types, Command, Keeps, SaveBegins, Slot, bootVars, dbVars

\* A recomputation of a state that differs from the present one in nothing it
\* could lose.
LEMMA BecomeEffect ==
    ASSUME Types, NEW s \in State, NEW quiet \in Nat, Become(Refreshed(s, quiet)),
           s.enabled = state.enabled, s.auto = state.auto,
           s.ai = state.ai, s.layer = state.layer, s.mode = state.mode,
           s.rule = state.rule, s.replied = state.replied,
           UNCHANGED <<touched, phase, staged, table, save, early, commands>>,
           UNCHANGED <<disturbed, saved>>
    PROVE  Keeps /\ Quiet
  <1> DEFINE t == Refreshed(s, quiet)
             fresh == t.enabled /\ ~state.enabled
  <1>1. /\ t.rule = s.rule /\ t.auto = s.auto
        /\ t.ai = s.ai /\ t.layer = s.layer /\ t.mode = s.mode
        /\ t.replied = IF t.enabled /\ ~s.enabled THEN {} ELSE s.replied
        /\ ~s.auto => t = s
    BY RefreshedKeeps
  <1>2. fresh \in BOOLEAN /\ state' = t /\ Session(fresh)
    BY DEF Become
  <1> HIDE DEF t
  <1>3. ~fresh => state'.replied = state.replied
    BY <1>1, <1>2
  <1>4. Keeps
    <2> HIDE DEF fresh
    <2> QED BY <1>1, <1>2, <1>3 DEF Keeps
  <1> QED BY <1>1, <1>2, <1>4 DEF Quiet, SameChoices

\* An outgoing message in a chat.
LEMMA SelfActivityEffect ==
    ASSUME Types, NEW c \in Chat, SelfActivity(c), SignalFrame
    PROVE  Keeps /\ Quiet
  <1>1. /\ UNCHANGED <<touched, phase, staged, table, save, early, commands>>
        /\ UNCHANGED <<disturbed, saved>>
    BY DEF SignalFrame, bootVars, dbVars, histVars
  <1>2. CASE inFlight[c] > 0
    <2>1. UNCHANGED <<state, claim>>
      BY <1>2 DEF SelfActivity, sessVars
    <2>2. Session(FALSE)
      BY <2>1 DEF Session, sessVars
    <2> QED BY <1>1, <2>1, <2>2 DEF Keeps, Quiet, SameChoices
  <1>3. CASE ~(inFlight[c] > 0)
    <2>1. Become(Refreshed(state, 0))
      BY <1>3 DEF SelfActivity
    <2> QED BY <1>1, <2>1, BecomeEffect DEF Types
  <1> QED BY <1>2, <1>3

\* Every step of the owner saves or is quiet.
LEMMA OwnerEffect == ASSUME Types, Owner PROVE Keeps /\ (SaveBegins \/ Quiet)
  <1>1. CASE On
    <2>1. Command([state EXCEPT !.enabled = TRUE, !.auto = FALSE, !.replied = {}], TRUE)
      BY <1>1 DEF On
    <2>2. [state EXCEPT !.enabled = TRUE, !.auto = FALSE, !.replied = {}].rule = state.rule
      BY DEF Types, State
    <2> QED BY <1>1, <2>1, <2>2, CommandEffect DEF On, Plain
  <1>2. CASE Off
    <2> DEFINE s == [state EXCEPT !.enabled = FALSE, !.auto = FALSE]
    <2>1. Command(s, FALSE) /\ Plain
      BY <1>2 DEF Off
    <2>2. s.rule = state.rule /\ s.replied = state.replied
      BY DEF Types, State
    <2> HIDE DEF s
    <2> QED BY <2>1, <2>2, CommandEffect DEF Plain
  <1>3. CASE SetText
    BY <1>3, CommandEffect DEF SetText, Plain
  <1>4. CASE ClearRules
    <2> DEFINE s == [state EXCEPT !.rule = NoRules]
    <2>1. Command(s, FALSE) /\ Begin /\ touched' = Chat
      BY <1>4 DEF ClearRules
    <2>2. s.replied = state.replied
      BY DEF Types, State
    <2> HIDE DEF s
    <2> QED BY <2>1, <2>2, CommandEffect
  <1>5. ASSUME NEW now \in BOOLEAN, Detect(now)
        PROVE  Keeps /\ SaveBegins
    <2> DEFINE s == [state EXCEPT !.auto = TRUE]
               t == IF now THEN Recompute(s, silent) ELSE s
               fresh == t.enabled /\ ~state.enabled
    <2>1. Command(t, fresh) /\ Begin /\ UNCHANGED touched
      BY <1>5 DEF Detect, Plain
    <2>2. [state EXCEPT !.auto = TRUE] \in State
      BY DEF Types, State
    <2>3. /\ s.rule = state.rule /\ s.replied = state.replied
          /\ s.enabled = state.enabled
      BY DEF Types, State
    <2>4. s \in State /\ silent \in Nat
      BY <2>2 DEF Types
    <2> HIDE DEF s
    <2>5. t.rule = state.rule /\ (~fresh => t.replied = state.replied)
      BY <2>3, <2>4, RecomputeKeeps
    <2>6. fresh \in BOOLEAN
      OBVIOUS
    <2> HIDE DEF t, fresh
    <2> QED BY <2>1, <2>5, <2>6, CommandEffect
  <1>6. ASSUME NEW b \in BOOLEAN, NEW now \in BOOLEAN, Layer(b, now)
        PROVE  Keeps /\ SaveBegins
    <2> DEFINE s == [state EXCEPT !.layer = b]
               t == IF now THEN Refreshed(s, silent) ELSE s
               fresh == t.enabled /\ ~state.enabled
    <2>1. Command(t, fresh) /\ Begin /\ UNCHANGED touched
      BY <1>6 DEF Layer, Plain
    <2>2. [state EXCEPT !.layer = b] \in State
      BY DEF Types, State
    <2>3. /\ s.rule = state.rule /\ s.replied = state.replied
          /\ s.enabled = state.enabled
      BY DEF Types, State
    <2>4. s \in State /\ silent \in Nat
      BY <2>2 DEF Types
    <2> HIDE DEF s
    <2>5. t.rule = state.rule /\ (~fresh => t.replied = state.replied)
      BY <2>3, <2>4, RefreshedKeeps
    <2>6. fresh \in BOOLEAN
      OBVIOUS
    <2> HIDE DEF t, fresh
    <2> QED BY <2>1, <2>5, <2>6, CommandEffect
  <1>7. ASSUME NEW mo \in Mode, SetMode(mo)
        PROVE  Keeps /\ SaveBegins
    <2> DEFINE s == [state EXCEPT !.mode = mo]
    <2>1. Command(s, FALSE) /\ Plain
      BY <1>7 DEF SetMode
    <2>2. s.rule = state.rule /\ s.replied = state.replied
      BY DEF Types, State
    <2> HIDE DEF s
    <2> QED BY <2>1, <2>2, CommandEffect DEF Plain
  <1>8. ASSUME NEW b \in BOOLEAN, SetAi(b)
        PROVE  Keeps /\ SaveBegins
    <2> DEFINE s == [state EXCEPT !.ai = b]
    <2>1. Command(s, FALSE) /\ Plain
      BY <1>8 DEF SetAi
    <2>2. s.rule = state.rule /\ s.replied = state.replied
      BY DEF Types, State
    <2> HIDE DEF s
    <2> QED BY <2>1, <2>2, CommandEffect DEF Plain
  <1>9. ASSUME NEW c \in Chat, NEW kind \in Rule,
               Command([state EXCEPT !.rule[c] = kind], FALSE), Begin,
               touched' = touched \cup {c}
        PROVE  Keeps /\ SaveBegins
    <2> DEFINE s == [state EXCEPT !.rule[c] = kind]
    <2>1. s.replied = state.replied
      BY DEF Types, State
    <2>2. s.rule = [state.rule EXCEPT ![c] = kind] /\ state.rule \in [Chat -> Rule]
      BY DEF Types, State
    <2>3. Command(s, FALSE)
      BY <1>9
    <2> HIDE DEF s
    <2>4. \A d \in Chat \ touched' : s.rule[d] = state.rule[d]
      BY <1>9, <2>2
    <2> QED BY <1>9, <2>1, <2>3, <2>4, CommandEffect
  <1>10. ASSUME NEW c \in Chat, Exclude(c) \/ Include(c)
         PROVE  Keeps /\ SaveBegins
    BY <1>9, <1>10 DEF Exclude, Include
  <1>11. ASSUME NEW c \in Chat, OwnerSpeaks(c)
         PROVE  Keeps /\ Quiet
    BY <1>11, SelfActivityEffect DEF OwnerSpeaks
  <1>12. ASSUME NEW ws \in SUBSET Window, WindowsChanged(ws)
         PROVE  Keeps /\ Quiet
    <2> DEFINE s == [state EXCEPT !.windows = ws]
    <2>1. [state EXCEPT !.windows = ws] \in State
      BY DEF Types, State
    <2>2. /\ s.rule = state.rule /\ s.replied = state.replied
          /\ s.enabled = state.enabled /\ s.auto = state.auto
          /\ s.ai = state.ai /\ s.layer = state.layer /\ s.mode = state.mode
      BY DEF Types, State
    <2>3. s \in State /\ silent \in Nat
      BY <2>1 DEF Types
    <2>4. Become(Refreshed(s, silent))
      BY <1>12 DEF WindowsChanged
    <2>5. /\ UNCHANGED <<touched, phase, staged, table, save, early, commands>>
          /\ UNCHANGED <<disturbed, saved>>
      BY <1>12 DEF WindowsChanged, bootVars, dbVars, histVars
    <2> HIDE DEF s
    <2> QED BY <2>2, <2>3, <2>4, <2>5, BecomeEffect
  <1> QED BY <1>1, <1>2, <1>3, <1>4, <1>5, <1>6, <1>7, <1>8, <1>10, <1>11, <1>12
          DEF Owner

\* The updates of own replies and the watcher are quiet too.
LEMMA SignalEffect ==
    ASSUME Types, Watch \/ \E m \in Msg : Echo(m)
    PROVE  Keeps /\ Quiet
  <1>1. CASE Watch
    <2>1. state \in State /\ silent \in Nat
      BY DEF Types
    <2> QED BY <1>1, <2>1, BecomeEffect DEF Watch, bootVars, dbVars, histVars
  <1>2. ASSUME NEW m \in Msg, Echo(m)
        PROVE  Keeps /\ Quiet
    <2>1. m.chat \in Chat
      OBVIOUS
    <2> QED BY <1>2, <2>1, SelfActivityEffect DEF Echo
  <1> QED BY <1>1, <1>2

-----------------------------------------------------------------------------
(* The manual lock.                                                        *)

\* No step but a command of the owner or a restart turns a locked assistant on
\* or off.
LEMMA StepLock ==
    ASSUME Types, [Next]_vars
    PROVE  ~state.auto /\ ~state'.auto /\ state'.enabled # state.enabled
              => commands' # commands \/ phase' # phase
  <1>1. CASE Boot
    <2>1. CASE LoadWindows
      BY <2>1 DEF LoadWindows
    <2> QED BY <1>1, <2>1 DEF Boot, LoadSettings, LoadRules, StartWatcher
  <1>2. CASE Owner \/ Watch \/ \E m \in Msg : Echo(m)
    BY <1>2, OwnerEffect, SignalEffect DEF SaveBegins, Quiet, SameChoices, Types
  <1>3. ASSUME NEW n \in Slot, Saving(n)
        PROVE  state' = state
    BY <1>3 DEF Saving, SaveSettings, DeleteRules, BuildRows, InsertRules,
                InsertCollides, SaveFails, SaveFrame
  <1>4. ASSUME NEW m \in Msg, Receive(m)
        PROVE  state'.enabled = state.enabled
    BY <1>4 DEF Receive, Claimed, Types, State
  <1>5. ASSUME NEW m \in Msg, Ignore(m) \/ Replying(m)
        PROVE  state' = state
    BY <1>5 DEF Ignore, Replying, Answer, AskAi, AiAnswers, AiFails, Deliver,
                ReplyReturns, ReplyFails
  <1>6. CASE Crash
    BY <1>6 DEF Crash, BuildState, DefaultSettings
  <1>7. CASE Tick \/ UNCHANGED vars
    BY <1>7 DEF Tick, vars
  <1> QED BY <1>1, <1>2, <1>3, <1>4, <1>5, <1>6, <1>7 DEF Next

\* The lock of the owner holds against silence, messages, window changes and
\* the watcher, in every behaviour.
THEOREM LockAlwaysHolds == Spec => LockHolds
  <1>1. Types /\ [Next]_vars
           => [~state.auto /\ ~state'.auto /\ state'.enabled # state.enabled
                  => commands' # commands \/ phase' # phase]_vars
    BY StepLock
  <1> QED BY <1>1, AlwaysTypes, PTL DEF Spec, LockHolds

-----------------------------------------------------------------------------
(* One claim per person and session.                                       *)

\* Strengthening: whoever was taken on in this session's fixed-text mode is
\* marked in `replied`, whatever the mode has become since.
Marked == \A m \in Msg : claim[m] = "fixed" => Key(m) \in state.replied

ClaimInv == Marked /\ OneClaimPerSession

\* A session that goes on with its marks, or a fresh one, keeps them in step.
LEMMA SessionKeepsClaims ==
    ASSUME ClaimInv, NEW fresh \in BOOLEAN, Session(fresh),
           ~fresh => state'.replied = state.replied
    PROVE  ClaimInv'
  BY DEF ClaimInv, Marked, OneClaimPerSession, Session, sessVars, Key

\* Every step keeps them in step; only accepting a message does any work.
LEMMA StepClaims ==
    ASSUME Types, ClaimInv, [Next]_vars
    PROVE  ClaimInv'
  <1>1. ASSUME UNCHANGED <<state, claim>>
        PROVE  ClaimInv'
    BY <1>1 DEF ClaimInv, Marked, OneClaimPerSession
  <1>2. CASE Boot
    <2>1. CASE LoadWindows
      BY <2>1, SessionKeepsClaims DEF LoadWindows
    <2> QED BY <1>1, <1>2, <2>1
            DEF Boot, LoadSettings, LoadRules, StartWatcher, sessVars
  <1>3. CASE Owner \/ Watch \/ \E m \in Msg : Echo(m)
    <2>1. Keeps
      BY <1>3, OwnerEffect, SignalEffect
    <2> QED BY <2>1, SessionKeepsClaims DEF Keeps
  <1>4. ASSUME NEW n \in Slot, Saving(n)
        PROVE  ClaimInv'
    BY <1>1, <1>4 DEF Saving, SaveSettings, DeleteRules, BuildRows, InsertRules,
                InsertCollides, SaveFails, SaveFrame, sessVars
  <1>5. ASSUME NEW m \in Msg, Receive(m)
        PROVE  ClaimInv'
    <2>1. CASE state.ai
      <3>1. state' = state /\ claim' = [claim EXCEPT ![m] = "ai"]
        BY <1>5, <2>1 DEF Receive, Claimed
      <3> QED BY <3>1 DEF ClaimInv, Marked, OneClaimPerSession, Types
    <2>2. CASE ~state.ai
      <3>1. claim' = [claim EXCEPT ![m] = "fixed"] /\ Key(m) \notin state.replied
        BY <1>5, <2>2 DEF Receive, Accepts
      <3>2. state'.replied = state.replied \cup {Key(m)}
        BY <1>5, <2>2 DEF Receive, Claimed, Types, State
      <3>3. \A k \in Msg : claim[k] = "fixed" => Key(k) # Key(m)
        BY <3>1 DEF ClaimInv, Marked
      <3> HIDE DEF Key
      <3>4. Marked'
        BY <3>1, <3>2 DEF ClaimInv, Marked, Types, Key
      <3>5. OneClaimPerSession'
        BY <3>1, <3>3 DEF ClaimInv, OneClaimPerSession, Types, Key
      <3> QED BY <3>4, <3>5 DEF ClaimInv
    <2> QED BY <2>1, <2>2
  <1>6. ASSUME NEW m \in Msg, Ignore(m)
        PROVE  ClaimInv'
    BY <1>1, <1>6 DEF Ignore, sessVars
  <1>7. ASSUME NEW m \in Msg, Replying(m)
        PROVE  ClaimInv'
    <2>1. UNCHANGED <<state, claim>>
      BY <1>7 DEF Replying, Answer, AskAi, AiAnswers, AiFails, Deliver,
                  ReplyReturns, ReplyFails, sessVars
    <2> QED BY <2>1 DEF ClaimInv, Marked, OneClaimPerSession
  <1>8. CASE Crash
    BY <1>8, SessionKeepsClaims DEF Crash
  <1>9. CASE Tick \/ UNCHANGED vars
    BY <1>1, <1>9 DEF Tick, vars, sessVars
  <1> QED BY <1>2, <1>3, <1>4, <1>5, <1>6, <1>7, <1>8, <1>9 DEF Next

\* Nobody is taken on twice in one session of the fixed-text mode.
THEOREM AlwaysOneClaim == Spec => []OneClaimPerSession
  <1>1. Init => ClaimInv
    BY DEF Init, ClaimInv, Marked, OneClaimPerSession
  <1>2. Types /\ ClaimInv /\ [Next]_vars => ClaimInv'
    BY StepClaims
  <1>3. ClaimInv => OneClaimPerSession
    BY DEF ClaimInv
  <1> QED BY <1>1, <1>2, <1>3, AlwaysTypes, PTL DEF Spec

-----------------------------------------------------------------------------
(* Stored rules change on request only.                                    *)

\* Strengthening: where every command waited for the stored state, nothing is
\* saved before the load, and for a chat no command has named the memory, what
\* the start has read and the rows about to be inserted all agree with the table.
RulesInv ==
    ~early =>
        /\ ~Loaded => Active = {}
        /\ \A c \in Chat \ touched :
              /\ Loaded => state.rule[c] = table[c]
              /\ phase = "windows" => staged.rules[c] = table[c]
              /\ \A n \in Slot : save[n].stage = "insert" => save[n].rows[c] = table[c]

\* A step that leaves save calls, tables and the start alone, and the rules of
\* chats no command has named.
LEMMA QuietRules ==
    ASSUME RulesInv, UNCHANGED <<save, early, phase, staged, table>>,
           \A c \in Chat \ touched' : c \notin touched /\ state'.rule[c] = state.rule[c]
    PROVE  RulesInv'
  BY DEF RulesInv, Loaded, Active

\* A command that begins to save: in this process everything is loaded, or the
\* command was early and nothing is claimed.
LEMMA CommandRules ==
    ASSUME Types, RulesInv, Keeps, SaveBegins
    PROVE  RulesInv'
  <1> SUFFICES ASSUME ~early'
               PROVE  RulesInv'
    BY DEF RulesInv
  <1>1. ~early /\ Loaded /\ Loaded'
    BY DEF SaveBegins, Keeps, Loaded
  <1>2. \A n \in Slot : save'[n].stage = "insert" => n # commands + 1 /\ save'[n] = save[n]
    BY DEF SaveBegins, Begin, Types, Idle
  <1>3. ASSUME NEW c \in Chat \ touched'
        PROVE  /\ c \notin touched
               /\ state'.rule[c] = state.rule[c]
               /\ UNCHANGED <<phase, staged, table>>
    BY DEF Keeps
  <1> QED BY <1>1, <1>2, <1>3 DEF RulesInv, Loaded

\* A step of a save that does not write, and moves only its own call.
LEMMA SavingRules ==
    ASSUME Types, RulesInv, NEW n \in Slot, NEW r, n \in Active,
           save' = [save EXCEPT ![n] = r],
           r.stage = "insert" => r.rows = state.rule,
           UNCHANGED <<table, phase, staged, state, touched, early>>
    PROVE  RulesInv'
  <1> SUFFICES ASSUME ~early
               PROVE  RulesInv'
    BY DEF RulesInv
  <1>1. Loaded /\ Loaded'
    BY DEF RulesInv, Loaded
  <1>2. ASSUME NEW c \in Chat \ touched, NEW k \in Slot, save'[k].stage = "insert"
        PROVE  save'[k].rows[c] = table[c]
    <2>1. CASE k = n
      <3>1. save'[k] = r
        BY <2>1 DEF Types
      <3> QED BY <1>1, <1>2, <3>1 DEF RulesInv
    <2>2. CASE k # n
      <3>1. save'[k] = save[k]
        BY <2>2 DEF Types
      <3> QED BY <1>2, <3>1 DEF RulesInv
    <2> QED BY <2>1, <2>2
  <1> QED BY <1>1, <1>2 DEF RulesInv, Loaded

\* The insert writes, for a chat no command has named, what is there already.
LEMMA InsertRulesKeeps ==
    ASSUME Types, RulesInv, NEW n \in Slot, InsertRules(n), ~early
    PROVE  /\ \A c \in Chat \ touched : table'[c] = table[c]
           /\ RulesInv'
  <1> USE DEF SaveFrame, bootVars
  <1>1. Loaded /\ Loaded'
    BY DEF InsertRules, RulesInv, Active, Loaded
  <1>2. ASSUME NEW c \in Chat \ touched
        PROVE  table'[c] = table[c]
    BY <1>2 DEF InsertRules, RulesInv
  <1>3. ASSUME NEW k \in Slot, save'[k].stage = "insert"
        PROVE  save[k].stage = "insert" /\ save'[k].rows = save[k].rows
    <2>1. k # n
      BY <1>3 DEF InsertRules, Done, Idle
    <2>2. CASE save[k].stage \in {"rows", "insert"}
      <3>1. save'[k] = [save[k] EXCEPT !.fresh = @ \cup RowsOf(n)]
        BY <2>1, <2>2 DEF InsertRules
      <3>2. save[k] \in SaveCall
        BY DEF Types
      <3> QED BY <1>3, <3>1, <3>2 DEF SaveCall
    <2>3. CASE save[k].stage \notin {"rows", "insert"}
      BY <1>3, <2>1, <2>3 DEF InsertRules
    <2> QED BY <2>2, <2>3
  <1>4. UNCHANGED <<state, phase, staged, touched, early>>
    BY DEF InsertRules
  <1>5. RulesInv'
    BY <1>1, <1>2, <1>3, <1>4 DEF RulesInv, Loaded
  <1> QED BY <1>2, <1>5

\* What a step does to the rules, in memory and in the table.
LEMMA StepRules ==
    ASSUME Types, RulesInv, [Next]_vars
    PROVE  /\ RulesInv'
           /\ early' \/ \A c \in Chat : table'[c] # table[c] => c \in touched
  <1> USE DEF bootVars, dbVars, histVars
  <1>1. ASSUME RulesInv', UNCHANGED table
        PROVE  /\ RulesInv'
               /\ early' \/ \A c \in Chat : table'[c] # table[c] => c \in touched
    BY <1>1
  <1>2. CASE Boot
    <2>1. CASE LoadSettings
      BY <2>1 DEF LoadSettings, RulesInv, Loaded, Active
    <2>2. CASE LoadRules
      <3>1. staged'.rules = table
        BY <2>2 DEF LoadRules, Types
      <3> QED BY <2>2, <3>1 DEF LoadRules, RulesInv, Loaded, Active
    <2>3. CASE LoadWindows
      <3>1. PICK ws \in SUBSET Window : state' = BuildState(staged.values, staged.rules, ws)
        BY <2>3 DEF LoadWindows
      <3>2. state'.rule = staged.rules
        BY <3>1 DEF BuildState
      <3>3. phase = "windows" /\ phase' = "loaded"
        BY <2>3 DEF LoadWindows
      <3>4. UNCHANGED <<save, table, touched, early>>
        BY <2>3 DEF LoadWindows
      <3> QED BY <3>2, <3>3, <3>4 DEF RulesInv, Loaded
    <2>4. CASE StartWatcher
      BY <2>4 DEF StartWatcher, RulesInv, Loaded
    <2> QED BY <1>2, <2>1, <2>2, <2>3, <2>4 DEF Boot
  <1>3. CASE Owner \/ Watch \/ \E m \in Msg : Echo(m)
    <2>1. Keeps /\ (SaveBegins \/ Quiet)
      BY <1>3, OwnerEffect, SignalEffect
    <2>2. CASE SaveBegins
      BY <1>1, <2>1, <2>2, CommandRules DEF Keeps
    <2>3. CASE Quiet
      BY <1>1, <2>1, <2>3, QuietRules DEF Keeps, Quiet
    <2> QED BY <2>1, <2>2, <2>3
  <1>4. ASSUME NEW n \in Slot, Saving(n)
        PROVE  /\ RulesInv'
               /\ early' \/ \A c \in Chat : table'[c] # table[c] => c \in touched
    <2>1. CASE InsertRules(n)
      <3>1. early' = early
        BY <2>1 DEF InsertRules, SaveFrame
      <3> QED BY <2>1, <3>1, InsertRulesKeeps DEF RulesInv
    <2>2. CASE ~InsertRules(n)
      <3>1. UNCHANGED <<table, phase, staged, state, touched, early>>
        BY <1>4, <2>2 DEF Saving, SaveSettings, DeleteRules, BuildRows,
                InsertCollides, SaveFails, SaveFrame
      <3>2. n \in Active
        BY <1>4 DEF Saving, SaveSettings, DeleteRules, BuildRows, InsertRules,
                InsertCollides, SaveFails, Active
      <3>3. PICK r : /\ save' = [save EXCEPT ![n] = r]
                     /\ r.stage = "insert" => r.rows = state.rule
        <4>1. CASE SaveSettings(n)
          <5>1. save' = [save EXCEPT ![n] = [Idle EXCEPT !.stage = "rules"]]
            BY <4>1 DEF SaveSettings
          <5>2. [Idle EXCEPT !.stage = "rules"].stage = "rules"
            BY DEF Idle
          <5> QED BY <5>1, <5>2
        <4>2. CASE DeleteRules(n)
          <5>1. save' = [save EXCEPT ![n] = [save[n] EXCEPT !.stage = "rows"]]
            BY <4>2 DEF DeleteRules
          <5>2. [save[n] EXCEPT !.stage = "rows"].stage = "rows"
            BY DEF Types, SaveCall
          <5> QED BY <5>1, <5>2
        <4>3. CASE BuildRows(n)
          <5> DEFINE built == [save[n] EXCEPT !.stage = "insert", !.rows = Rows(state)]
          <5>1. save' = [save EXCEPT ![n] = built]
            BY <4>3 DEF BuildRows
          <5>2. built.rows = state.rule
            BY DEF Types, SaveCall, Rows
          <5> HIDE DEF built
          <5> QED BY <5>1, <5>2
        <4>4. CASE InsertCollides(n) \/ SaveFails(n)
          BY <4>4 DEF InsertCollides, SaveFails, Done, Idle
        <4> QED BY <1>4, <2>2, <4>1, <4>2, <4>3, <4>4 DEF Saving
      <3> QED BY <1>1, <3>1, <3>2, <3>3, SavingRules
    <2> QED BY <2>1, <2>2
  <1>5. ASSUME NEW m \in Msg, Receive(m) \/ Ignore(m) \/ Replying(m)
        PROVE  RulesInv' /\ UNCHANGED table
    <2>1. UNCHANGED <<save, early, phase, staged, table, touched>>
      BY <1>5 DEF Receive, Ignore, Replying, Answer, AskAi, AiAnswers, AiFails,
                  Deliver, ReplyReturns, ReplyFails, TaskFrame
    <2>2. state'.rule = state.rule
      <3>1. CASE Receive(m)
        BY <3>1 DEF Receive, Claimed, Types, State
      <3>2. CASE Ignore(m) \/ Replying(m)
        BY <3>2 DEF Ignore, Replying, Answer, AskAi, AiAnswers, AiFails,
                    Deliver, ReplyReturns, ReplyFails
      <3> QED BY <1>5, <3>1, <3>2
    <2> QED BY <2>1, <2>2, QuietRules
  <1>6. CASE Crash
    <2>1. UNCHANGED <<table, touched>> /\ phase' = "connected"
      BY <1>6 DEF Crash
    <2>2. \A n \in Slot : save'[n].stage \in {"idle", "done"}
      BY <1>6 DEF Crash, Active, Done, Idle, Types
    <2> QED BY <1>1, <2>1, <2>2 DEF RulesInv, Loaded, Active
  <1>7. CASE Tick \/ UNCHANGED vars
    <2>1. UNCHANGED <<state, save, early, phase, staged, table, touched>>
      BY <1>7 DEF Tick, vars
    <2> QED BY <1>1, <2>1, QuietRules
  <1> QED BY <1>1, <1>2, <1>3, <1>4, <1>5, <1>6, <1>7 DEF Next

\* A stored rule changes only for a chat a command has named, as long as every
\* command of the process waited for the stored state.
THEOREM RulesAlwaysOnRequest == Spec => RulesChangeOnRequest
  <1>1. Init => RulesInv
    BY DEF Init, RulesInv, Loaded, Active, Idle
  <1>2. Types /\ RulesInv /\ [Next]_vars => RulesInv'
    BY StepRules
  <1>3. Types /\ RulesInv /\ [Next]_vars
           => [early' \/ \A c \in Chat : table'[c] # table[c] => c \in touched]_vars
    BY StepRules
  <1> QED BY <1>1, <1>2, <1>3, AlwaysTypes, PTL DEF Spec, RulesChangeOnRequest

-----------------------------------------------------------------------------
(* The database holds what the memory holds.                               *)

\* A save call that may still write restores what the owner chose since it
\* began, and no other save has inserted rows in its way.
Faithful(n) ==
    /\ save[n].stage = "settings" => Restores(save[n].values, state)
    /\ save[n].stage # "settings" => Restores(saved, state)
    /\ save[n].stage = "insert" => save[n].rows = state.rule
    /\ save[n].fresh = {}

\* Strengthening: in an undisturbed process saves come one at a time, the start
\* holds what is stored, and then either nothing is being saved and the stored
\* values are those of the memory, or the save under way will make them so.
StoreInv ==
    ~disturbed =>
        /\ \A n, k \in Active : n = k
        /\ ~Loaded => Active = {}
        /\ phase \in {"rules", "windows"} => staged.values = saved
        /\ phase = "windows" => staged.rules = table
        /\ Loaded /\ Active = {} => Restores(saved, state) /\ table = state.rule
        /\ \A n \in Active : Faithful(n)

\* A recomputation changes nothing that is stored.
LEMMA QuietStore ==
    ASSUME StoreInv, SameChoices(state, state'),
           UNCHANGED <<save, disturbed, saved, phase, staged, table>>
    PROVE  StoreInv'
  <1>1. \A v : Restores(v, state) => Restores(v, state')
    BY DEF SameChoices, Restores
  <1>2. Active' = Active /\ Loaded' = Loaded
    BY DEF Active, Loaded
  <1> QED BY <1>1, <1>2 DEF StoreInv, Faithful, SameChoices

\* A command in an undisturbed process starts the only save there is.
LEMMA CommandStore ==
    ASSUME Types, state' \in State, StoreInv, Keeps, SaveBegins
    PROVE  StoreInv'
  <1> SUFFICES ASSUME ~disturbed'
               PROVE  StoreInv'
    BY DEF StoreInv
  <1>1. ~disturbed /\ Active = {} /\ Loaded /\ Loaded'
    BY DEF SaveBegins, Keeps, Loaded
  <1> DEFINE begun == [Idle EXCEPT !.stage = "settings", !.values = Values(state')]
  <1>2. PICK new \in Slot : save' = [save EXCEPT ![new] = begun]
    BY DEF SaveBegins, Begin
  <1>3. /\ begun.stage = "settings" /\ begun.values = Values(state')
        /\ begun.fresh = {}
    BY DEF Idle
  <1> HIDE DEF begun
  <1>4. Active' = {new}
    <2>1. save'[new] = begun /\ \A k \in Slot \ {new} : save'[k] = save[k]
      BY <1>2 DEF Types
    <2> QED BY <1>1, <1>2, <1>3, <2>1 DEF Active
  <1>5. Restores(Values(state'), state')
    BY DEF Restores, Values, State
  <1>6. Faithful(new)'
    <2>1. save'[new] = begun
      BY <1>2 DEF Types
    <2> QED BY <1>3, <1>5, <2>1 DEF Faithful
  <1>7. phase' \notin {"rules", "windows"}
    BY <1>1 DEF Loaded
  <1> QED BY <1>1, <1>4, <1>6, <1>7 DEF StoreInv

\* A save that moves on: it is the only one, and stays so until it is done.
LEMMA SavingStore ==
    ASSUME Types, StoreInv, NEW n \in Slot, Saving(n)
    PROVE  StoreInv'
  <1> SUFFICES ASSUME ~disturbed'
               PROVE  StoreInv'
    BY DEF StoreInv
  <1> USE DEF SaveFrame, bootVars, dbVars
  <1>1. ~disturbed
    BY DEF Saving, SaveSettings, DeleteRules, BuildRows, InsertRules, InsertCollides, SaveFails
  <1>2. n \in Active
    BY DEF Saving, SaveSettings, DeleteRules, BuildRows, InsertRules, InsertCollides,
           SaveFails, Active
  <1>3. /\ \A k \in Slot : k # n => save[k].stage \in {"idle", "done"}
        /\ Faithful(n) /\ Loaded
    <2>1. \A k \in Active : k = n
      BY <1>1, <1>2 DEF StoreInv
    <2> QED BY <1>1, <1>2, <2>1 DEF StoreInv, Active
  <1>4. UNCHANGED <<state, phase, staged>> /\ Loaded'
    BY <1>3 DEF Saving, SaveSettings, DeleteRules, BuildRows, InsertRules, InsertCollides,
                SaveFails, Loaded
  <1>5. phase' \notin {"rules", "windows"}
    BY <1>4 DEF Loaded
  <1>6. ASSUME NEW r, save' = [save EXCEPT ![n] = r], r.stage \notin {"idle", "done"},
               Faithful(n)'
        PROVE  StoreInv'
    <2>1. save'[n] = r /\ \A k \in Slot \ {n} : save'[k] = save[k]
      BY <1>6 DEF Types
    <2>2. Active' = {n}
      BY <1>3, <1>6, <2>1 DEF Active
    <2> QED BY <1>4, <1>5, <1>6, <2>2 DEF StoreInv
  <1>7. CASE SaveSettings(n)
    <2> DEFINE r == [Idle EXCEPT !.stage = "rules"]
    <2>1. save' = [save EXCEPT ![n] = r] /\ saved' = save[n].values
      BY <1>7 DEF SaveSettings
    <2>2. r.stage = "rules" /\ r.fresh = {}
      BY DEF Idle
    <2>3. Restores(saved', state')
      BY <1>3, <1>4, <1>7, <2>1 DEF SaveSettings, Faithful
    <2> HIDE DEF r
    <2>4. save'[n] = r
      BY <2>1 DEF Types
    <2>5. Faithful(n)'
      BY <2>2, <2>3, <2>4 DEF Faithful
    <2> QED BY <1>6, <2>1, <2>2, <2>5
  <1>8. CASE DeleteRules(n)
    <2> DEFINE r == [save[n] EXCEPT !.stage = "rows"]
    <2>1. save' = [save EXCEPT ![n] = r] /\ saved' = saved /\ save[n].stage = "rules"
      BY <1>8 DEF DeleteRules
    <2>2. r.stage = "rows" /\ r.fresh = save[n].fresh
      BY DEF Types, SaveCall
    <2> HIDE DEF r
    <2>3. save'[n] = r
      BY <2>1 DEF Types
    <2>4. Faithful(n)'
      BY <1>3, <1>4, <2>1, <2>2, <2>3 DEF Faithful
    <2> QED BY <1>6, <2>1, <2>2, <2>4
  <1>9. CASE BuildRows(n)
    <2> DEFINE r == [save[n] EXCEPT !.stage = "insert", !.rows = Rows(state)]
    <2>1. save' = [save EXCEPT ![n] = r] /\ saved' = saved /\ save[n].stage = "rows"
      BY <1>9 DEF BuildRows
    <2>2. r.stage = "insert" /\ r.fresh = save[n].fresh /\ r.rows = state.rule
      BY DEF Types, SaveCall, Rows
    <2> HIDE DEF r
    <2>3. save'[n] = r
      BY <2>1 DEF Types
    <2>4. Faithful(n)'
      BY <1>3, <1>4, <2>1, <2>2, <2>3 DEF Faithful
    <2> QED BY <1>6, <2>1, <2>2, <2>4
  <1>10. CASE InsertRules(n)
    <2>1. FreshOf(n) = {} /\ save[n].rows = state.rule /\ Restores(saved, state)
      BY <1>3, <1>10 DEF InsertRules, Faithful, FreshOf
    <2>2. table' = state.rule
      <3>1. table' = [c \in Chat |-> save[n].rows[c]]
        BY <1>10, <2>1 DEF InsertRules
      <3>2. state.rule \in [Chat -> Rule]
        BY DEF Types, State
      <3> QED BY <2>1, <3>1, <3>2
    <2>3. Active' = {}
      <3>1. save'[n] = Done
        BY <1>10 DEF InsertRules
      <3>2. \A k \in Slot : k # n => save'[k] = save[k]
        BY <1>3, <1>10 DEF InsertRules
      <3> QED BY <1>3, <3>1, <3>2 DEF Active, Done, Idle
    <2>4. UNCHANGED <<saved, state>>
      BY <1>10 DEF InsertRules
    <2> QED BY <1>4, <1>5, <2>1, <2>2, <2>3, <2>4 DEF StoreInv, Restores
  <1>11. CASE InsertCollides(n) \/ SaveFails(n)
    BY <1>11 DEF InsertCollides, SaveFails
  <1> QED BY <1>7, <1>8, <1>9, <1>10, <1>11 DEF Saving

\* The start reads what is stored, and makes it the state.
LEMMA BootStore ==
    ASSUME Types, StoreInv, Boot
    PROVE  StoreInv'
  <1> USE DEF dbVars, histVars
  <1>1. CASE LoadSettings
    <2>1. staged'.values = saved
      BY <1>1 DEF LoadSettings, Types
    <2> QED BY <1>1, <2>1 DEF LoadSettings, StoreInv, Loaded, Active, Faithful
  <1>2. CASE LoadRules
    <2>1. staged'.rules = table /\ staged'.values = staged.values
      BY <1>2 DEF LoadRules, Types
    <2> QED BY <1>2, <2>1 DEF LoadRules, StoreInv, Loaded, Active, Faithful
  <1>3. CASE LoadWindows
    <2>1. PICK ws \in SUBSET Window : state' = BuildState(staged.values, staged.rules, ws)
      BY <1>3 DEF LoadWindows
    <2>2. UNCHANGED <<save, disturbed, saved, table>>
      BY <1>3 DEF LoadWindows
    <2>3. phase = "windows" /\ phase' = "loaded"
      BY <1>3 DEF LoadWindows
    <2>4. Restores(staged.values, state') /\ state'.rule = staged.rules
      BY <2>1 DEF BuildState, Restores, Types, Settings
    <2>5. ~disturbed => Active = {} /\ staged.values = saved /\ staged.rules = table
      BY <2>3 DEF StoreInv, Loaded
    <2>6. Active' = Active
      BY <2>2 DEF Active
    <2> QED BY <2>2, <2>3, <2>4, <2>5, <2>6 DEF StoreInv, Loaded
  <1>4. CASE StartWatcher
    BY <1>4 DEF StartWatcher, StoreInv, Loaded, Active, Faithful
  <1> QED BY <1>1, <1>2, <1>3, <1>4 DEF Boot

\* Every step keeps memory, saves under way and tables in step.
LEMMA StepStore ==
    ASSUME Types, Types', StoreInv, [Next]_vars
    PROVE  StoreInv'
  <1> USE DEF dbVars, bootVars, histVars
  <1>1. CASE Boot
    BY <1>1, BootStore
  <1>2. CASE Owner \/ Watch \/ \E m \in Msg : Echo(m)
    <2>1. Keeps /\ (SaveBegins \/ Quiet)
      BY <1>2, OwnerEffect, SignalEffect
    <2>2. CASE SaveBegins
      <3>1. state' \in State
        BY DEF Types
      <3> QED BY <2>1, <2>2, <3>1, CommandStore
    <2>3. CASE Quiet
      BY <2>1, <2>3, QuietStore DEF Keeps, Quiet
    <2> QED BY <2>1, <2>2, <2>3
  <1>3. ASSUME NEW n \in Slot, Saving(n)
        PROVE  StoreInv'
    BY <1>3, SavingStore
  <1>4. ASSUME NEW m \in Msg, Receive(m) \/ Ignore(m) \/ Replying(m)
        PROVE  StoreInv'
    <2>1. UNCHANGED <<save, disturbed, saved, phase, staged, table>>
      BY <1>4 DEF Receive, Ignore, Replying, Answer, AskAi, AiAnswers, AiFails,
                  Deliver, ReplyReturns, ReplyFails, TaskFrame
    <2>2. SameChoices(state, state')
      <3>1. CASE Receive(m)
        BY <3>1 DEF Receive, Claimed, Types, State, SameChoices
      <3>2. CASE Ignore(m) \/ Replying(m)
        BY <3>2 DEF Ignore, Replying, Answer, AskAi, AiAnswers, AiFails,
                    Deliver, ReplyReturns, ReplyFails, SameChoices
      <3> QED BY <1>4, <3>1, <3>2
    <2> QED BY <2>1, <2>2, QuietStore
  <1>5. CASE Crash
    <2>1. phase' = "connected"
      BY <1>5 DEF Crash
    <2>2. Active' = {}
      BY <1>5 DEF Crash, Active, Done, Idle, Types
    <2> QED BY <2>1, <2>2 DEF StoreInv, Loaded
  <1>6. CASE Tick \/ UNCHANGED vars
    BY <1>6, QuietStore DEF Tick, vars, SameChoices
  <1> QED BY <1>1, <1>2, <1>3, <1>4, <1>5, <1>6 DEF Next

\* In every behaviour: where no save of the process overlapped another or the
\* start, or failed, a quiet database brings back the lock, the mode and the
\* rules of the memory.
THEOREM AlwaysSavedWhenQuiet == Spec => []SavedWhenQuiet
  <1>1. Init => StoreInv
    BY DEF Init, StoreInv, Loaded, Active, Idle
  <1>2. Types /\ Types' /\ StoreInv /\ [Next]_vars => StoreInv'
    BY StepStore
  <1>3. StoreInv => SavedWhenQuiet
    BY DEF StoreInv, SavedWhenQuiet
  <1> QED BY <1>1, <1>2, <1>3, AlwaysTypes, PTL DEF Spec

-----------------------------------------------------------------------------
(* The counter of replies being sent.                                      *)

\* The messages whose reply is on its way in chat c.
Flying(c) == {m \in Msg : m.chat = c /\ task[m] \in {"sending", "delivered"}}

\* What the counting argument needs of the tasks.
TaskTypes ==
    /\ inFlight \in [Chat -> Nat]
    /\ task \in [Msg -> {"new", "delay", "asking", "sending", "delivered", "done"}]

\* Strengthening: at any instant finitely many replies are on their way, though
\* nothing bounds the messages, and the counter is their number.
FlightInv ==
    /\ TaskTypes
    /\ \A c \in Chat : IsFiniteSet(Flying(c)) /\ inFlight[c] = Cardinality(Flying(c))

\* The tasks that stay, or move within a reply or outside of one.
LEMMA SameFlight ==
    ASSUME FlightInv, TaskTypes', inFlight' = inFlight,
           \A m \in Msg : (task'[m] \in {"sending", "delivered"})
                            <=> (task[m] \in {"sending", "delivered"})
    PROVE  FlightInv'
  <1>1. \A c \in Chat : Flying(c)' = Flying(c)
    BY DEF Flying
  <1> QED BY <1>1 DEF FlightInv

\* A reply begins: one more message flies, in its chat.
LEMMA ReplyBegins ==
    ASSUME FlightInv, NEW m \in Msg, task[m] \in {"delay", "asking"}, NEW what,
           StartReply(m, what)
    PROVE  FlightInv'
  <1>1. m.chat \in Chat
    OBVIOUS
  <1>2. TaskTypes'
    BY <1>1 DEF FlightInv, TaskTypes, StartReply, Sending
  <1>3. m \notin Flying(m.chat) /\ Flying(m.chat)' = Flying(m.chat) \cup {m}
    BY DEF FlightInv, TaskTypes, StartReply, Flying
  <1>4. ASSUME NEW c \in Chat
        PROVE  IsFiniteSet(Flying(c)') /\ inFlight'[c] = Cardinality(Flying(c)')
    <2>1. CASE c = m.chat
      <3>1. inFlight'[c] = inFlight[c] + 1
        BY <2>1 DEF FlightInv, TaskTypes, StartReply, Sending
      <3>2. IsFiniteSet(Flying(c)) /\ inFlight[c] = Cardinality(Flying(c))
        BY DEF FlightInv
      <3>3. /\ IsFiniteSet(Flying(c) \cup {m})
            /\ Cardinality(Flying(c) \cup {m}) = Cardinality(Flying(c)) + 1
        BY <1>3, <2>1, <3>2, FS_AddElement
      <3> QED BY <1>3, <2>1, <3>1, <3>2, <3>3
    <2>2. CASE c # m.chat
      <3>1. inFlight'[c] = inFlight[c]
        BY <2>2 DEF FlightInv, TaskTypes, StartReply, Sending
      <3>2. Flying(c)' = Flying(c)
        BY <2>2 DEF FlightInv, TaskTypes, StartReply, Flying
      <3> QED BY <3>1, <3>2 DEF FlightInv
    <2> QED BY <2>1, <2>2
  <1> QED BY <1>2, <1>4 DEF FlightInv

\* A reply ends: one message fewer flies, and the counter was not zero.
LEMMA ReplyEnds ==
    ASSUME FlightInv, NEW m \in Msg, task[m] \in {"sending", "delivered"},
           task' = [task EXCEPT ![m] = "done"], inFlight' = Landed(m.chat)
    PROVE  FlightInv'
  <1>1. m.chat \in Chat /\ m \in Flying(m.chat)
    BY DEF Flying
  <1>2. /\ IsFiniteSet(Flying(m.chat) \ {m})
        /\ Cardinality(Flying(m.chat) \ {m}) = Cardinality(Flying(m.chat)) - 1
        /\ Cardinality(Flying(m.chat) \ {m}) \in Nat
    <2>1. IsFiniteSet(Flying(m.chat))
      BY <1>1 DEF FlightInv
    <2>2. /\ IsFiniteSet(Flying(m.chat) \ {m})
          /\ Cardinality(Flying(m.chat) \ {m}) = Cardinality(Flying(m.chat)) - 1
      BY <1>1, <2>1, FS_RemoveElement
    <2>3. Cardinality(Flying(m.chat) \ {m}) \in Nat
      BY <2>2, FS_CardinalityType
    <2> QED BY <2>2, <2>3
  <1>3. Flying(m.chat)' = Flying(m.chat) \ {m}
    BY DEF FlightInv, TaskTypes, Flying
  <1>4. inFlight[m.chat] - 1 \in Nat /\ inFlight[m.chat] - 1 = Cardinality(Flying(m.chat) \ {m})
    BY <1>1, <1>2 DEF FlightInv
  <1>5. TaskTypes'
    <2>1. inFlight' \in [Chat -> Nat]
      BY <1>1, <1>4 DEF FlightInv, TaskTypes, Landed
    <2> QED BY <2>1 DEF FlightInv, TaskTypes
  <1>6. ASSUME NEW c \in Chat
        PROVE  IsFiniteSet(Flying(c)') /\ inFlight'[c] = Cardinality(Flying(c)')
    <2>1. CASE c = m.chat
      <3>1. inFlight'[c] = inFlight[c] - 1
        BY <2>1 DEF FlightInv, TaskTypes, Landed
      <3> QED BY <1>2, <1>3, <1>4, <2>1, <3>1
    <2>2. CASE c # m.chat
      <3>1. inFlight'[c] = inFlight[c]
        BY <2>2 DEF FlightInv, TaskTypes, Landed
      <3>2. Flying(c)' = Flying(c)
        BY <2>2 DEF FlightInv, TaskTypes, Flying
      <3> QED BY <3>1, <3>2 DEF FlightInv
    <2> QED BY <2>1, <2>2
  <1> QED BY <1>5, <1>6 DEF FlightInv

\* Nothing flies in a process that has just started.
LEMMA NothingFlies ==
    ASSUME \A m \in Msg : task[m] \in {"new", "done"}, TaskTypes,
           \A c \in Chat : inFlight[c] = 0
    PROVE  FlightInv
  <1>1. \A c \in Chat : Flying(c) = {}
    BY DEF Flying
  <1> QED BY <1>1, FS_EmptySet DEF FlightInv

\* Every step keeps the counter exact.
LEMMA StepFlight ==
    ASSUME FlightInv, [Next]_vars
    PROVE  FlightInv'
  <1> USE DEF taskVars
  <1>1. ASSUME UNCHANGED <<task, inFlight>>
        PROVE  FlightInv'
    BY <1>1 DEF FlightInv, TaskTypes, Flying
  <1>2. CASE Boot
    BY <1>1, <1>2 DEF Boot, LoadSettings, LoadRules, LoadWindows, StartWatcher
  <1>3. CASE Owner
    BY <1>1, <1>3 DEF Owner, On, Off, SetText, ClearRules, Detect, Layer, SetMode, SetAi,
                      Exclude, Include, OwnerSpeaks, WindowsChanged, Command, SignalFrame
  <1>4. ASSUME NEW n \in Slot, Saving(n)
        PROVE  FlightInv'
    BY <1>1, <1>4 DEF Saving, SaveSettings, DeleteRules, BuildRows, InsertRules,
                      InsertCollides, SaveFails, SaveFrame
  <1>5. ASSUME NEW m \in Msg, Receive(m) \/ Ignore(m) \/ AskAi(m) \/ Deliver(m)
        PROVE  FlightInv'
    <2>1. TaskTypes' /\ inFlight' = inFlight
      BY <1>5 DEF Receive, Ignore, AskAi, Deliver, FlightInv, TaskTypes
    <2>2. \A k \in Msg : (task'[k] \in {"sending", "delivered"})
                           <=> (task[k] \in {"sending", "delivered"})
      BY <1>5 DEF Receive, Ignore, AskAi, Deliver, FlightInv, TaskTypes
    <2> QED BY <2>1, <2>2, SameFlight
  <1>6. ASSUME NEW m \in Msg, Answer(m) \/ AiAnswers(m) \/ AiFails(m)
        PROVE  FlightInv'
    BY <1>6, ReplyBegins DEF Answer, AiAnswers, AiFails
  <1>7. ASSUME NEW m \in Msg, ReplyReturns(m) \/ ReplyFails(m)
        PROVE  FlightInv'
    BY <1>7, ReplyEnds DEF ReplyReturns, ReplyFails
  <1>8. ASSUME NEW m \in Msg, Echo(m)
        PROVE  FlightInv'
    BY <1>1, <1>8 DEF Echo, SignalFrame
  <1>9. CASE Watch \/ Tick \/ UNCHANGED vars
    BY <1>1, <1>9 DEF Watch, Tick, vars
  <1>10. CASE Crash
    <2>1. TaskTypes'
      BY <1>10 DEF Crash, FlightInv, TaskTypes
    <2>2. \A c \in Chat : inFlight'[c] = 0
      BY <1>10 DEF Crash
    <2>3. \A m \in Msg : task'[m] \in {"new", "done"}
      BY <1>10 DEF Crash
    <2>4. \A c \in Chat : Flying(c)' = {}
      BY <2>3 DEF Flying
    <2> QED BY <2>1, <2>2, <2>4, FS_EmptySet DEF FlightInv
  <1> QED BY <1>2, <1>3, <1>4, <1>5, <1>6, <1>7, <1>8, <1>9, <1>10 DEF Next, Replying

LEMMA AlwaysFlightInv == Spec => []FlightInv
  <1>1. Init => FlightInv
    <2> SUFFICES ASSUME Init
                 PROVE  FlightInv
      OBVIOUS
    <2>1. TaskTypes /\ \A m \in Msg : task[m] \in {"new", "done"}
      BY DEF Init, TaskTypes
    <2>2. \A c \in Chat : inFlight[c] = 0
      BY DEF Init
    <2> QED BY <2>1, <2>2, NothingFlies
  <1> QED BY <1>1, StepFlight, PTL DEF Spec

\* The counter that keeps own replies from counting as the owner's activity is
\* the number of replies being sent, in every behaviour.
THEOREM CounterAlwaysExact == Spec => []InFlightIsExact
  <1>1. FlightInv => InFlightIsExact
    BY DEF FlightInv, InFlightIsExact, Flying
  <1> QED BY <1>1, AlwaysFlightInv, PTL

-----------------------------------------------------------------------------
(* Type correctness in full.                                               *)

\* The variables neither Types nor FlightInv speaks of.
OtherTypes ==
    /\ reply \in [Msg -> {"none", "text", "ai"}]
    /\ echo \in SUBSET Msg
    /\ clock \in 0..Day-1
    /\ faults \in 0..MaxFaults
    /\ touched \in SUBSET Chat

Flags == early \in BOOLEAN /\ disturbed \in BOOLEAN

\* Every step keeps them.
LEMMA StepOther ==
    ASSUME OtherTypes, [Next]_vars
    PROVE  OtherTypes'
  <1> USE DEF bootVars, dbVars, taskVars, timeVars, histVars, OtherTypes
  <1>1. CASE Boot
    BY <1>1 DEF Boot, LoadSettings, LoadRules, LoadWindows, StartWatcher
  <1>2. CASE Owner
    <2>1. UNCHANGED <<reply, echo, clock, faults>>
      BY <1>2 DEF Owner, On, Off, SetText, ClearRules, Detect, Layer, SetMode, SetAi, Exclude,
                  Include, OwnerSpeaks, WindowsChanged, Command, SignalFrame
    <2>2. touched' \in SUBSET Chat
      BY <1>2 DEF Owner, On, Off, SetText, ClearRules, Detect, Layer, SetMode, SetAi, Exclude,
                  Include, OwnerSpeaks, WindowsChanged, Plain, SignalFrame
    <2> QED BY <2>1, <2>2
  <1>3. ASSUME NEW n \in Slot, Saving(n)
        PROVE  OtherTypes'
    BY <1>3 DEF Saving, SaveSettings, DeleteRules, BuildRows, InsertRules, InsertCollides,
                SaveFails, SaveFrame, Fault
  <1>4. ASSUME NEW m \in Msg, Receive(m) \/ Ignore(m) \/ Replying(m)
        PROVE  OtherTypes'
    BY <1>4 DEF Receive, Ignore, Replying, Answer, AskAi, AiAnswers, AiFails, Deliver,
                ReplyReturns, ReplyFails, StartReply, TaskFrame, Fault
  <1>5. ASSUME NEW m \in Msg, Echo(m)
        PROVE  OtherTypes'
    BY <1>5 DEF Echo, SignalFrame
  <1>6. CASE Watch \/ UNCHANGED vars
    BY <1>6 DEF Watch, vars
  <1>7. CASE Tick
    BY <1>7 DEF Tick
  <1>8. CASE Crash
    BY <1>8 DEF Crash, Fault
  <1> QED BY <1>1, <1>2, <1>3, <1>4, <1>5, <1>6, <1>7, <1>8 DEF Next

\* And the two flags of a process.
LEMMA StepFlags ==
    ASSUME Flags, [Next]_vars
    PROVE  Flags'
  <1> USE DEF Flags, histVars
  <1>1. CASE Boot
    BY <1>1 DEF Boot, LoadSettings, LoadRules, LoadWindows, StartWatcher
  <1>2. CASE Owner
    BY <1>2 DEF Owner, On, Off, SetText, ClearRules, Detect, Layer, SetMode, SetAi, Exclude,
                Include, OwnerSpeaks, WindowsChanged, Command, SignalFrame
  <1>3. ASSUME NEW n \in Slot, Saving(n)
        PROVE  Flags'
    BY <1>3 DEF Saving, SaveSettings, DeleteRules, BuildRows, InsertRules, InsertCollides,
                SaveFails, SaveFrame
  <1>4. ASSUME NEW m \in Msg, Receive(m) \/ Ignore(m) \/ Replying(m) \/ Echo(m)
        PROVE  Flags'
    BY <1>4 DEF Receive, Ignore, Replying, Answer, AskAi, AiAnswers, AiFails, Deliver,
                ReplyReturns, ReplyFails, TaskFrame, Echo, SignalFrame
  <1>5. CASE Watch \/ Tick \/ Crash \/ UNCHANGED vars
    BY <1>5 DEF Watch, Tick, Crash, vars
  <1> QED BY <1>1, <1>2, <1>3, <1>4, <1>5 DEF Next

\* Every variable keeps its kind of value, in every behaviour; in particular the
\* counter of replies never goes below zero.
THEOREM AlwaysTypeOK == Spec => []TypeOK
  <1>1. Init => OtherTypes
    BY DEF Init, OtherTypes
  <1>2. Init => Flags
    BY DEF Init, Flags
  <1>3. Types /\ FlightInv /\ OtherTypes /\ Flags => TypeOK
    BY DEF Types, FlightInv, TaskTypes, OtherTypes, Flags, TypeOK
  <1> QED BY <1>1, <1>2, <1>3, StepOther, StepFlags, AlwaysTypes, AlwaysFlightInv, PTL DEF Spec
=============================================================================
