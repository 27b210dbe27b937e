------------------------------ MODULE Assistant ------------------------------
(***************************************************************************)
(* The chat assistant: it answers incoming messages while the owner is     *)
(* away (bot/handlers/assistant.py, bot/storage/assistant_store.py,        *)
(* bot/repositories/assistant_repo.py).                                    *)
(*                                                                         *)
(* Whether it is on comes from a manual lock or, with detection on, from   *)
(* the owner's silence and the schedule windows.  Every incoming message   *)
(* is a task of its own that sleeps, may ask the AI, and replies; owner    *)
(* commands change the dictionary assistant_state at once and save it in   *)
(* two transactions.  The schedule_windows table is AssistantWindows's.    *)
(***************************************************************************)
EXTENDS Naturals, FiniteSets

CONSTANTS Chat, Person,
          Msg,          \* incoming messages: records, see AssistantAssumption
          Mode,         \* reply modes the owner chooses from
          Window,       \* schedule windows the owner defines
          Day,          \* instants in a day
          Threshold,    \* ASSISTANT_ONLINE_THRESHOLD, in instants
          MaxCommands,  \* bound: owner commands that save
          MaxFaults     \* bound: failed calls and crashes

ASSUME AssistantAssumption ==
    /\ Msg \subseteq [id : Nat, chat : Chat, sender : Person, mentioned : BOOLEAN,
                      kind : {"private", "group", "channel"}]
    /\ Mode \subseteq {"auto", "pm", "groups", "mention"}
    /\ Day \in Nat \ {0}
    /\ Window \subseteq [start : 0..Day-1, end : 0..Day-1]
    /\ Threshold \in Nat \ {0}
    /\ MaxCommands \in Nat
    /\ MaxFaults \in Nat

VARIABLES
    \* -- memory of the process
    state,     \* assistant_state
    inFlight,  \* _auto_reply_in_flight
    task,      \* where assistant_autoreply stands for each message
    reply,     \* what that task sends or has sent
    phase,     \* how far main() has come
    staged,    \* what init_assistant_state has read so far
    save,      \* save_assistant calls, one per command
    \* -- PostgreSQL
    saved,     \* the settings row
    table,     \* assistant_chat_rules
    \* -- environment
    echo,      \* own replies whose update has not been handled yet
    silent,    \* instants since _last_self_activity, up to Threshold
    clock,     \* local instant of the day
    commands, faults,
    \* -- history, read by properties only
    claim,     \* how each message was accepted, "old" once a session has ended
    touched,   \* chats whose rule a command has named
    early,     \* in this process, a command was given before the state was loaded
    disturbed  \* in this process, a save overlapped another or the load, or failed

dbVars   == <<saved, table>>
bootVars == <<phase, staged>>
taskVars == <<task, reply, inFlight, echo>>
timeVars == <<silent, clock>>
sessVars == <<claim>>
histVars == <<touched, early, disturbed>>
vars == <<state, bootVars, save, dbVars, taskVars, timeVars, commands, faults,
          sessVars, histVars>>

Slot == 1..MaxCommands
Rule == {"none", "include", "exclude"}
Key(m) == <<m.chat, m.sender>>

\* storage/assistant_store.py, _DEFAULT and _build_initial_state.
DefaultSettings ==
    [auto |-> TRUE, manual |-> FALSE, ai |-> FALSE, layer |-> TRUE, mode |-> "mention"]
NoRules == [c \in Chat |-> "none"]
BuildState(v, rules, windows) ==
    [enabled |-> v.manual /\ ~v.auto, auto |-> v.auto, ai |-> v.ai,
     layer |-> v.layer, mode |-> v.mode, rule |-> rules, windows |-> windows,
     replied |-> {}]

\* The settings columns save_assistant passes.
ValuesForgetLock(s) ==     \* variant: the lock itself is not saved
    [auto |-> s.auto, manual |-> FALSE, ai |-> s.ai, layer |-> s.layer, mode |-> s.mode]
Values(s) ==
    [auto |-> s.auto, manual |-> s.enabled /\ ~s.auto, ai |-> s.ai,
     layer |-> s.layer, mode |-> s.mode]

\* The rows replace_chat_rules builds.
RowsOfExclude(s) ==        \* variant: the include list is forgotten
    [c \in Chat |-> IF s.rule[c] = "exclude" THEN "exclude" ELSE "none"]
Rows(s) == s.rule

\* _window_contains: both ends belong, and a window may pass midnight.
Contains(w, t) ==
    IF w.start <= w.end THEN w.start <= t /\ t <= w.end
    ELSE w.start <= t \/ t <= w.end

\* What the signals ask for after `quiet` instants of silence: on inside a
\* window of an active layer, else on after enough silence.
InWindow(s) == s.layer /\ \E w \in s.windows : Contains(w, clock)
WantedLate(s, quiet) == InWindow(s) \/ quiet > Threshold   \* variant: <= for <
Wanted(s, quiet) == InWindow(s) \/ quiet >= Threshold

\* _recompute_enabled_from_signals: turning on starts a fresh session.
Recompute(s, quiet) ==
    IF Wanted(s, quiet) /\ ~s.enabled THEN [s EXCEPT !.enabled = TRUE, !.replied = {}]
    ELSE IF ~Wanted(s, quiet) THEN [s EXCEPT !.enabled = FALSE]
    ELSE s

\* Its callers ask for auto_detect first.
RefreshedAlways(s, quiet) == Recompute(s, quiet)  \* variant: the lock is ignored
Refreshed(s, quiet) == IF s.auto THEN Recompute(s, quiet) ELSE s

\* _assistant_should_respond.
ShouldRespond(s, m) ==
    /\ m.kind # "channel"
    /\ s.rule[m.chat] # "exclude"
    /\ \/ s.rule[m.chat] = "include"
       \/ s.mode = "auto"
       \/ s.mode = "pm" /\ m.kind = "private"
       \/ s.mode = "groups" /\ m.kind = "group"
       \/ s.mode = "mention" /\ (m.kind = "private" \/ m.mentioned)

\* In fixed-text mode the sender is marked before the first await.
ClaimedLater(s, m) == s                \* variant: marked only once it is sent
Claimed(s, m) == IF s.ai THEN s ELSE [s EXCEPT !.replied = @ \cup {Key(m)}]

\* The counter around event.reply().
Sending(c) == [inFlight EXCEPT ![c] = @ + 1]
LandedAll(c) == [inFlight EXCEPT ![c] = 0]  \* variant: pop whatever the count
LandedTwice(c) == [inFlight EXCEPT ![c] = @ - 2]  \* variant: decremented twice
Landed(c) == [inFlight EXCEPT ![c] = @ - 1]

-----------------------------------------------------------------------------
NothingRead == [values |-> DefaultSettings, rules |-> NoRules]
Idle == [stage |-> "idle", values |-> DefaultSettings, rows |-> NoRules,
         fresh |-> {}]
Done == [Idle EXCEPT !.stage = "done"]
Active == {n \in Slot : save[n].stage \notin {"idle", "done"}}
Loaded == phase \in {"loaded", "running"}

Fault == faults < MaxFaults /\ faults' = faults + 1

\* A session starts when `replied` is emptied.
Session(fresh) ==
    IF fresh
    THEN claim' = [m \in Msg |-> IF claim[m] = "none" THEN "none" ELSE "old"]
    ELSE UNCHANGED sessVars

\* assistant_state becomes s, through a recomputation.
Become(s) ==
    /\ state' = s
    /\ Session(s.enabled /\ ~state.enabled)

Init ==
    /\ state = BuildState(DefaultSettings, NoRules, {})
    /\ inFlight = [c \in Chat |-> 0]
    /\ task = [m \in Msg |-> "new"]
    /\ reply = [m \in Msg |-> "none"]
    /\ phase = "connected"
    /\ staged = NothingRead
    /\ save = [n \in Slot |-> Idle]
    /\ saved = DefaultSettings
    /\ table \in [Chat -> Rule]
    /\ echo = {}
    /\ silent = Threshold
    /\ clock = 0
    /\ commands = 0 /\ faults = 0
    /\ claim = [m \in Msg |-> "none"]
    /\ touched = {}
    /\ early = FALSE /\ disturbed = FALSE

-----------------------------------------------------------------------------
(* Start: handlers already answer while init_assistant_state reads its     *)
(* three tables and then replaces the dictionary in place.                 *)

LoadSettings ==
    /\ phase = "connected"
    /\ phase' = "rules"
    /\ staged' = [staged EXCEPT !.values = saved]
    /\ UNCHANGED <<state, save, dbVars, taskVars, timeVars, commands, faults,
                   sessVars, histVars>>

LoadRules ==
    /\ phase = "rules"
    /\ phase' = "windows"
    /\ staged' = [staged EXCEPT !.rules = table]
    /\ UNCHANGED <<state, save, dbVars, taskVars, timeVars, commands, faults,
                   sessVars, histVars>>

\* The last read: any windows that table holds.
LoadWindows ==
    /\ phase = "windows"
    /\ phase' = "loaded"
    /\ \E ws \in SUBSET Window :
          state' = BuildState(staged.values, staged.rules, ws)
    /\ staged' = NothingRead
    /\ Session(TRUE)
    /\ UNCHANGED <<save, dbVars, taskVars, timeVars, commands, faults,
                   histVars>>

StartWatcher ==
    /\ phase = "loaded"
    /\ phase' = "running"
    /\ UNCHANGED <<state, staged, save, dbVars, taskVars, timeVars, commands,
                   faults, sessVars, histVars>>

-----------------------------------------------------------------------------
(* Owner commands: the change in memory, then save_assistant.              *)

\* Makes assistant_state s and begins to save it.
Command(s, fresh) ==
    /\ commands < MaxCommands
    /\ commands' = commands + 1
    /\ state' = s
    /\ Session(fresh)
    /\ early' = (early \/ ~Loaded)
    /\ disturbed' = (disturbed \/ Active # {} \/ ~Loaded)
    /\ UNCHANGED <<bootVars, dbVars, taskVars, timeVars, faults>>

Begin ==
    save' = [save EXCEPT ![commands + 1] =
                [Idle EXCEPT !.stage = "settings", !.values = Values(state')]]

Plain == Begin /\ UNCHANGED touched

On == /\ Command([state EXCEPT !.enabled = TRUE, !.auto = FALSE, !.replied = {}], TRUE)
      /\ Plain

Off == /\ Command([state EXCEPT !.enabled = FALSE, !.auto = FALSE], FALSE)
       /\ Plain

\* The command recomputes at once; the command router does not.
Detect(now) ==
    LET s == [state EXCEPT !.auto = TRUE]
        t == IF now THEN Recompute(s, silent) ELSE s
    IN  Command(t, t.enabled /\ ~state.enabled) /\ Plain

\* The schedule command recomputes at once; the settings centre does not.
Layer(b, now) ==
    LET s == [state EXCEPT !.layer = b]
        t == IF now THEN Refreshed(s, silent) ELSE s
    IN  Command(t, t.enabled /\ ~state.enabled) /\ Plain

SetMode(mo) == Command([state EXCEPT !.mode = mo], FALSE) /\ Plain

SetAi(b) == Command([state EXCEPT !.ai = b], FALSE) /\ Plain

\* `text` and `delay`: their values are not modelled, their save is.
SetText == Command(state, FALSE) /\ Plain

Exclude(c) ==
    /\ Command([state EXCEPT !.rule[c] = "exclude"], FALSE)
    /\ Begin
    /\ touched' = touched \cup {c}

Include(c) ==
    /\ Command([state EXCEPT !.rule[c] = "include"], FALSE)
    /\ Begin
    /\ touched' = touched \cup {c}

ClearRules ==
    /\ Command([state EXCEPT !.rule = NoRules], FALSE)
    /\ Begin
    /\ touched' = Chat

\* The end of a schedule add, remove or clear: the list has been read again
\* (to anything, as far as this module knows) and the signals are looked at.
WindowsChanged(ws) ==
    /\ Become(Refreshed([state EXCEPT !.windows = ws], silent))
    /\ UNCHANGED <<bootVars, save, dbVars, taskVars, timeVars, commands, faults,
                   histVars>>

-----------------------------------------------------------------------------
(* save_assistant: the settings row in one transaction, the rules in the   *)
(* next.  replace_chat_rules deletes every row its DELETE sees, builds the *)
(* new rows from the live sets, inserts them and commits.                  *)

SaveFrame == UNCHANGED <<state, bootVars, taskVars, timeVars, commands, sessVars,
                         touched, early>>

SaveSettings(n) ==
    /\ save[n].stage = "settings"
    /\ saved' = save[n].values
    /\ save' = [save EXCEPT ![n] = [Idle EXCEPT !.stage = "rules"]]
    /\ UNCHANGED <<table, faults, disturbed>> /\ SaveFrame

DeleteRules(n) ==
    /\ save[n].stage = "rules"
    /\ save' = [save EXCEPT ![n].stage = "rows"]
    /\ UNCHANGED <<dbVars, faults, disturbed>> /\ SaveFrame

BuildRows(n) ==
    /\ save[n].stage = "rows"
    /\ save' = [save EXCEPT ![n].stage = "insert", ![n].rows = Rows(state)]
    /\ UNCHANGED <<dbVars, faults, disturbed>> /\ SaveFrame

RowsOf(n) == {c \in Chat : save[n].rows[c] # "none"}
\* Rows another save has committed since this one's DELETE.
FreshOf(n) == {c \in save[n].fresh : table[c] # "none"}

InsertRules(n) ==
    /\ save[n].stage = "insert"
    /\ RowsOf(n) \cap FreshOf(n) = {}
    /\ table' = [c \in Chat |-> IF c \in FreshOf(n) THEN table[c] ELSE save[n].rows[c]]
    /\ save' = [k \in Slot |->
                  IF k = n THEN Done
                  ELSE IF save[k].stage \in {"rows", "insert"}
                  THEN [save[k] EXCEPT !.fresh = @ \cup RowsOf(n)]
                  ELSE save[k]]
    /\ UNCHANGED <<saved, faults, disturbed>> /\ SaveFrame

\* chat_id is unique: a row another save inserted meanwhile makes
\* the INSERT fail, and the transaction is rolled back.
InsertCollides(n) ==
    /\ save[n].stage = "insert"
    /\ RowsOf(n) \cap FreshOf(n) # {}
    /\ save' = [save EXCEPT ![n] = Done]
    /\ disturbed' = TRUE
    /\ UNCHANGED <<dbVars, faults>> /\ SaveFrame

SaveFails(n) ==
    /\ n \in Active
    /\ Fault
    /\ save' = [save EXCEPT ![n] = Done]
    /\ disturbed' = TRUE
    /\ UNCHANGED dbVars /\ SaveFrame

-----------------------------------------------------------------------------
(* assistant_autoreply, one task per incoming message.                     *)

TaskFrame == UNCHANGED <<bootVars, save, dbVars, timeVars, commands, histVars>>

Accepts(s, m) ==
    /\ s.enabled
    /\ ShouldRespond(s, m)
    /\ s.ai \/ Key(m) \notin s.replied

\* From the update to the first await (the delay is at least a second).
Receive(m) ==
    /\ task[m] = "new"
    /\ Accepts(state, m)
    /\ task' = [task EXCEPT ![m] = "delay"]
    /\ state' = Claimed(state, m)
    /\ claim' = [claim EXCEPT ![m] = IF state.ai THEN "ai" ELSE "fixed"]
    /\ UNCHANGED <<reply, inFlight, echo, faults>> /\ TaskFrame

Ignore(m) ==
    /\ task[m] = "new"
    /\ ~Accepts(state, m)
    /\ task' = [task EXCEPT ![m] = "done"]
    /\ UNCHANGED <<state, reply, inFlight, echo, sessVars, faults>> /\ TaskFrame

\* event.reply() begins with what has been chosen.
StartReply(m, what) ==
    /\ task' = [task EXCEPT ![m] = "sending"]
    /\ reply' = [reply EXCEPT ![m] = what]
    /\ inFlight' = Sending(m.chat)
    /\ UNCHANGED echo

\* The delay is over; ai_mode is read again.
Answer(m) ==
    /\ task[m] = "delay"
    /\ ~state.ai
    /\ StartReply(m, "text")
    /\ UNCHANGED <<state, sessVars, faults>> /\ TaskFrame

AskAi(m) ==
    /\ task[m] = "delay"
    /\ state.ai
    /\ task' = [task EXCEPT ![m] = "asking"]
    /\ UNCHANGED <<state, reply, inFlight, echo, sessVars, faults>> /\ TaskFrame

\* The AI answers, or it says nothing or fails and the fixed text is used.
AiAnswers(m) ==
    /\ task[m] = "asking"
    /\ StartReply(m, "ai")
    /\ UNCHANGED <<state, sessVars, faults>> /\ TaskFrame

AiFails(m) ==
    /\ task[m] = "asking"
    /\ Fault
    /\ StartReply(m, "text")
    /\ UNCHANGED <<state, sessVars>> /\ TaskFrame

\* Telegram takes the reply, and will send its update to this client too.
Deliver(m) ==
    /\ task[m] = "sending"
    /\ task' = [task EXCEPT ![m] = "delivered"]
    /\ echo' = echo \cup {m}
    /\ UNCHANGED <<state, reply, inFlight, claim, faults>> /\ TaskFrame

ReplyReturns(m) ==
    /\ task[m] = "delivered"
    /\ task' = [task EXCEPT ![m] = "done"]
    /\ reply' = [reply EXCEPT ![m] = "none"]
    /\ inFlight' = Landed(m.chat)
    /\ UNCHANGED <<state, echo, sessVars, faults>> /\ TaskFrame

\* event.reply() raises: `finally` counts down, the error is recorded, and
\* the sender stays marked.
ReplyFails(m) ==
    /\ task[m] \in {"sending", "delivered"}
    /\ Fault
    /\ task' = [task EXCEPT ![m] = "done"]
    /\ reply' = [reply EXCEPT ![m] = "none"]
    /\ inFlight' = Landed(m.chat)
    /\ UNCHANGED <<state, echo, sessVars>> /\ TaskFrame

-----------------------------------------------------------------------------
(* Signals.                                                                *)

\* assistant_self_activity_watcher for an outgoing message in chat c that is
\* not a command: nothing while a reply is being sent there.
SelfActivity(c) ==
    IF inFlight[c] > 0 THEN UNCHANGED <<state, silent, sessVars>>
    ELSE silent' = 0 /\ Become(Refreshed(state, 0))

SignalFrame == UNCHANGED <<bootVars, save, dbVars, task, reply, inFlight, clock,
                           commands, faults, histVars>>

\* The owner writes to someone, from any device.
OwnerSpeaks(c) == SelfActivity(c) /\ UNCHANGED echo /\ SignalFrame

\* The update of one of the assistant's own replies is dispatched, as a task
\* of its own: before or after event.reply() returns.
Echo(m) ==
    /\ m \in echo
    /\ echo' = echo \ {m}
    /\ SelfActivity(m.chat)
    /\ SignalFrame

\* One turn of assistant_status_watcher.
Watch ==
    /\ phase = "running"
    /\ Become(Refreshed(state, silent))
    /\ UNCHANGED <<bootVars, save, dbVars, taskVars, timeVars, commands, faults,
                   histVars>>

Tick ==
    /\ clock' = (clock + 1) % Day
    /\ silent' = IF silent < Threshold THEN silent + 1 ELSE silent
    /\ UNCHANGED <<state, bootVars, save, dbVars, taskVars, commands, faults,
                   sessVars, histVars>>

\* The process dies and starts again from the database.
Crash ==
    /\ Fault
    /\ state' = BuildState(DefaultSettings, NoRules, {})
    /\ inFlight' = [c \in Chat |-> 0]
    /\ task' = [m \in Msg |-> IF task[m] = "new" THEN "new" ELSE "done"]
    /\ phase' = "connected"
    /\ save' = [n \in Slot |-> IF n \in Active THEN Done ELSE save[n]]
    /\ echo' = {}
    /\ silent' = Threshold
    /\ Session(TRUE)
    /\ disturbed' = FALSE /\ early' = FALSE
    /\ staged' = NothingRead
    /\ reply' = [m \in Msg |-> "none"]
    /\ UNCHANGED <<dbVars, clock, commands, touched>>

-----------------------------------------------------------------------------
Boot == LoadSettings \/ LoadRules \/ LoadWindows \/ StartWatcher

Owner ==
    \/ On \/ Off \/ SetText \/ ClearRules
    \/ \E now \in BOOLEAN : Detect(now)
    \/ \E b, now \in BOOLEAN : Layer(b, now)
    \/ \E mo \in Mode : SetMode(mo)
    \/ \E b \in BOOLEAN : SetAi(b)
    \/ \E c \in Chat : Exclude(c) \/ Include(c) \/ OwnerSpeaks(c)
    \/ \E ws \in SUBSET Window : WindowsChanged(ws)

Saving(n) ==
    \/ SaveSettings(n) \/ DeleteRules(n) \/ BuildRows(n)
    \/ InsertRules(n) \/ InsertCollides(n) \/ SaveFails(n)

Replying(m) ==
    \/ Answer(m) \/ AskAi(m) \/ AiAnswers(m) \/ AiFails(m)
    \/ Deliver(m) \/ ReplyReturns(m) \/ ReplyFails(m)

Next ==
    \/ Boot \/ Owner
    \/ \E n \in Slot : Saving(n)
    \/ \E m \in Msg : Receive(m) \/ Ignore(m) \/ Replying(m) \/ Echo(m)
    \/ Watch \/ Tick \/ Crash

Spec == Init /\ [][Next]_vars

\* The loop runs: the start, the watcher's turns, and the awaits of every
\* reply come to an end, and time passes.
FairSpec ==
    /\ Spec
    /\ WF_vars(Boot) /\ WF_vars(Watch) /\ WF_vars(Tick)
    /\ \A m \in Msg : WF_vars(Replying(m))

-----------------------------------------------------------------------------
(* Properties.                                                             *)

Settings == [auto : BOOLEAN, manual : BOOLEAN, ai : BOOLEAN, layer : BOOLEAN,
             mode : Mode \cup {"mention"}]

State == [enabled : BOOLEAN, auto : BOOLEAN, ai : BOOLEAN, layer : BOOLEAN,
          mode : Mode \cup {"mention"}, rule : [Chat -> Rule],
          windows : SUBSET Window, replied : SUBSET (Chat \X Person)]

SaveCall == [stage : {"idle", "settings", "rules", "rows", "insert", "done"},
             values : Settings, rows : [Chat -> Rule],
             fresh : SUBSET Chat]

\* Every variable keeps its kind of value; in particular the counter of
\* replies being sent never goes below zero.
TypeOK ==
    /\ state \in State
    /\ inFlight \in [Chat -> Nat]
    /\ task \in [Msg -> {"new", "delay", "asking", "sending", "delivered", "done"}]
    /\ reply \in [Msg -> {"none", "text", "ai"}]
    /\ phase \in {"connected", "rules", "windows", "loaded", "running"}
    /\ staged \in [values : Settings, rules : [Chat -> Rule]]
    /\ save \in [Slot -> SaveCall]
    /\ saved \in Settings
    /\ table \in [Chat -> Rule]
    /\ echo \in SUBSET Msg
    /\ silent \in 0..Threshold /\ clock \in 0..Day-1
    /\ commands \in 0..MaxCommands /\ faults \in 0..MaxFaults
    /\ claim \in [Msg -> {"none", "fixed", "ai", "old"}]
    /\ touched \in SUBSET Chat
    /\ early \in BOOLEAN /\ disturbed \in BOOLEAN

\* The counter that tells the activity watcher "this is the assistant, not
\* the owner" is exactly the number of replies being sent in that chat, through
\* overlapping replies, failures and restarts.
InFlightIsExact ==
    \A c \in Chat :
        inFlight[c] = Cardinality({m \in Msg : m.chat = c /\ task[m] \in {"sending", "delivered"}})

\* In one session no two messages of one person in one chat are both taken on
\* in fixed-text mode, however their tasks, AI switches, locks and detection
\* interleave: `replied` is marked before the first await.
OneClaimPerSession ==
    \A m, k \in Msg :
        m # k /\ Key(m) = Key(k) => ~(claim[m] = "fixed" /\ claim[k] = "fixed")

\* The stored settings bring back what the owner chose: the lock only counts
\* while it stands.
Restores(v, s) ==
    /\ v.auto = s.auto /\ v.ai = s.ai /\ v.layer = s.layer /\ v.mode = s.mode
    /\ ~s.auto => (v.manual <=> s.enabled)

\* As long as no save of this process overlapped another or the start, or
\* failed, the database holds what the memory holds whenever nothing is being
\* saved, whatever earlier processes left half saved: a restart brings back
\* the same lock, mode and rules.
SavedWhenQuiet ==
    ~disturbed /\ Loaded /\ Active = {} => Restores(saved, state) /\ table = state.rule

\* While the owner's lock stands (auto_detect off), only a command of the
\* owner or a restart turns the assistant on or off: no silence, message,
\* window change or turn of the watcher does.
LockHolds ==
    [][~state.auto /\ ~state'.auto /\ state'.enabled # state.enabled
         => commands' # commands \/ phase' # phase]_vars

\* In a process whose commands all waited for the stored state, the stored rule
\* of a chat changes only if a command has named that chat: no save of another
\* setting and no rolled-back or failed save alters or loses a rule.
RulesChangeOnRequest ==
    [][early' \/ \A c \in Chat : table'[c] # table[c] => c \in touched]_vars

\* The instants a window covers, and whether the owner counts as away.
Covered(w) == IF w.start <= w.end THEN w.start..w.end ELSE (w.start..Day-1) \cup (0..w.end)
Away == silent = Threshold \/ (state.layer /\ \E w \in state.windows : clock \in Covered(w))

\* With detection on in a running bot, the assistant is again and again what
\* silence and the schedule ask for: it never stays on or off for good
\* because a signal was missed.
FollowsSignals ==
    <>[](state.auto /\ phase = "running")
        => []<>(state.enabled <=> Away)

-----------------------------------------------------------------------------
(* What the project says of itself and the code does not keep.             *)

\* assistant.py:66-67: with the counter raised before the await, no update of
\* the assistant's own reply can be taken for activity of the owner.
OwnReplyIsNotActivity == [][echo' # echo => silent' = silent]_vars

\* main.py:74-75 and bootstrap.py:10-13: what was stored is what the bot goes
\* on with after a restart, so a stored rule no command has named stays.
StoredRulesOutliveStart ==
    [][\A c \in Chat : table'[c] # table[c] => c \in touched]_vars
=============================================================================
