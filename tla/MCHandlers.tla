------------------------------ MODULE MCHandlers ------------------------------
(***************************************************************************)
(* The handlers and what they stand on for TLC: plugins, the guard of a    *)
(* group, the two engines of rules, the tables without a copy in memory,   *)
(* the schema, the commands that keep nothing, and the games.  As in       *)
(* MCServices, each behaviour is one of one part, chosen at the start.     *)
(***************************************************************************)
EXTENDS Plugins, GroupGuard, Rules, Tables, Schema, Jobs, Games, TLC

CONSTANTS Parts,   \* the parts of a run
          t1, t2   \* two tasks

VARIABLE part

\* Bounds of each part, within MaxTime, MaxOrders and MaxFaults.
Instants == [plugins |-> 0, guard |-> 2, rules |-> 0, tables |-> 0, schema |-> 0,
             jobs |-> 0, games |-> 0]
Commands == [plugins |-> 3, guard |-> 3, rules |-> 2, tables |-> 3, schema |-> 2,
             jobs |-> 2, games |-> 3]
\* Of a command several calls may fail, one after the other.
Failures == [plugins |-> 1, guard |-> 1, rules |-> 1, tables |-> 1, schema |-> 1,
             jobs |-> 3, games |-> 1]
\* In the guard and the engines a failure takes the place of a command.
Together == [p \in DOMAIN Commands |->
               IF p \in {"guard", "rules"} THEN Commands[p] ELSE Commands[p] + Failures[p]]

TwoTasks == {t1, t2}
Alike    == Permutations(TwoTasks)

\* Rules that send on any message, do nothing on any, send at a time of day.
Shapes == {[on |-> TRUE, trigger |-> "any", act |-> "none"],
           [on |-> TRUE, trigger |-> "any", act |-> "send"],
           [on |-> TRUE, trigger |-> "time", act |-> "send"]}

\* The kinds of message the filters that are on can tell apart.
Kinds == IF "link" \in filtering THEN {"link", "bad"} ELSE {"nude", "bad"}

-----------------------------------------------------------------------------
\* A part that does not run starts, and stays, in one fixed state.
PluginsStart ==
    /\ PluginsInit
    /\ part # "plugins" => file = Absent /\ ~shipped

GuardStart ==
    /\ GuardInit
    /\ IF part = "guard"
       THEN greeting /\ \/ filtering = {"spam"} /\ admins = {}
                        \/ filtering \in {{"link"}, {"porn"}}
       ELSE filtering = {} /\ ~greeting /\ admins = {}

RulesStart ==
    IF part = "rules" THEN RulesInit
    ELSE /\ rules = [e \in Engines |-> << >>] /\ notifying = FALSE
         /\ incoming = <<>> /\ inbox = {} /\ ran = {} /\ due = {} /\ offAt = << >>

SchemaStart ==
    IF part = "schema" THEN SchemaInit
    ELSE /\ schema = NoTables /\ revision = 0 /\ migrating = <<>> /\ filled = {}
         /\ serving = FALSE /\ raised = FALSE

HandlersInit ==
    /\ part \in Parts
    /\ EnvInit /\ PluginsStart /\ GuardStart /\ RulesStart /\ TablesInit /\ SchemaStart
    /\ JobsInit /\ GamesInit

-----------------------------------------------------------------------------
Only(p, A) ==
    /\ part = p /\ A
    /\ now' <= Instants[p] /\ orders' <= Commands[p] /\ faults' <= Failures[p]
    /\ orders' + faults' <= Together[p]

InPlugins(A) == Only("plugins", A)
    /\ UNCHANGED <<part, guardVars, rulesVars, tablesVars, schemaVars, jobsVars, gamesVars>>
InGuard(A) == Only("guard", A)
    /\ UNCHANGED <<part, pluginVars, rulesVars, tablesVars, schemaVars, jobsVars, gamesVars>>
InRules(A) == Only("rules", A)
    /\ UNCHANGED <<part, pluginVars, guardVars, tablesVars, schemaVars, jobsVars, gamesVars>>
InTables(A) == Only("tables", A)
    /\ UNCHANGED <<part, pluginVars, guardVars, rulesVars, schemaVars, jobsVars, gamesVars>>
InSchema(A) == Only("schema", A)
    /\ UNCHANGED <<part, pluginVars, guardVars, rulesVars, tablesVars, jobsVars, gamesVars>>
InJobs(A) == Only("jobs", A)
    /\ UNCHANGED <<part, pluginVars, guardVars, rulesVars, tablesVars, schemaVars, gamesVars>>
InGames(A) == Only("games", A)
    /\ UNCHANGED <<part, pluginVars, guardVars, rulesVars, tablesVars, schemaVars, jobsVars>>

PluginsTurn ==
    \/ \E t \in Manager :
         \/ InPlugins(Unloaded(t)) \/ InPlugins(ShutdownRaises(t)) \/ InPlugins(Exec(t))
         \/ InPlugins(Startup(t)) \/ InPlugins(Load(t)) \/ InPlugins(Succeeds(t))
         \/ InPlugins(RollBack(t)) \/ InPlugins(GivesUp(t)) \/ InPlugins(RemovePlugin(t))
         \/ InPlugins(Delete(t)) \/ InPlugins(Reload(t))
         \/ \E v \in Version : InPlugins(Install(t, v))
    \/ InPlugins(PluginsCrash)

\* The commands that have nothing to do with messages have behaviours of their own,
\* and a third message is only of interest to the spam watcher.
Aside == joined = {} /\ tagging < 0 /\ greeting /\ \A m \in Member : warnRow[m] = {}

GuardTurn ==
    \/ \E m \in Member :
         \/ InGuard(Promote(m))
         \/ /\ Aside /\ (Len(posts) < 2 \/ "spam" \in filtering)
            /\ \E t \in Kinds : InGuard(Arrives(m, t))
         \/ posts = <<>> /\ ( \/ InGuard(Joins(m)) \/ InGuard(Welcomes(m)) \/ InGuard(AddWarn(m))
                              \/ InGuard(RemoveWarn(m)) \/ InGuard(ClearWarns(m)) )
    \/ \E i \in DOMAIN posts :
         \/ InGuard(Answers(i)) \/ InGuard(AnswerFails(i)) \/ InGuard(LinkDeletes(i))
         \/ InGuard(SpamCounts(i)) \/ InGuard(SpamWarns(i))
         \/ \E b \in BOOLEAN : InGuard(PornJudges(i, b)) \/ InGuard(WordActs(i, b))
    \/ \E f \in {"spam", "link"} : InGuard(SwitchFilter(f))
    \/ posts = <<>> /\ (InGuard(SwitchWelcome(FALSE)) \/ InGuard(TagAll(1)) \/ InGuard(TagBatch))
    \/ InGuard(GuardCrash) \/ InGuard(GuardTick)

RulesTurn ==
    \/ \E e \in Engines, r \in RuleId :
         \/ InRules(DeleteRule(e, r))
         \/ \E s \in Shapes : InRules(CreateRule(e, r, s))
         \/ \E b \in BOOLEAN : InRules(ToggleRule(e, r, b))
    \/ \E b \in BOOLEAN : InRules(SwitchNotifications(b))
    \/ \E k \in {"word", "talk"} : InRules(MessageComes(k))
    \/ \E m \in DOMAIN incoming :
         \/ InRules(ReadRules(m)) \/ InRules(ReadFails(m)) \/ InRules(RunRule(m)) \/ InRules(RuleFails(m))
    \/ InRules(RulesCrash)

TablesTurn ==
    \E c \in Clerk :
      \/ \E t \in Table, op \in Op, v \in Value, l \in Label : InTables(Asks(c, t, op, v, {l}))
      \/ InTables(Writes(c)) \/ InTables(RefreshFails(c)) \/ InTables(WriteFails(c))

SchemaTurn ==
    \/ InSchema(StartUpgrade) \/ \E r \in {0, 3, 6, 8} : InSchema(StartDowngrade(r))
    \/ InSchema(Migrate) \/ InSchema(Commit) \/ InSchema(MigrationDies)
    \/ \E t \in {"group_guard_settings", "assistant_settings"} : InSchema(Fills(t))
    \/ InSchema(Ends)

\* One command at a time, or two of stickers.
JobsTurn ==
    \/ \E w \in Worker, c \in DOMAIN Plan :
         /\ \A o \in Worker \ {w} : jobs[o].at = "idle" \/ (jobs[o].plan = "sticker" /\ c = "sticker")
         /\ InJobs(StartJob(w, c))
    \/ \E w \in Worker :
         \/ InJobs(ShowsUsage(w)) \/ InJobs(StepDone(w)) \/ InJobs(PackTaken(w)) \/ InJobs(TellsError(w))
         \/ \E landed \in BOOLEAN : InJobs(StepFails(w, landed)) \/ InJobs(TellFails(w, landed))
    \/ InJobs(JobsCrash)

GamesTurn ==
    \/ \E c \in Chat :
         \/ InGames(StartGuess(c)) \/ InGames(CancelGuess(c)) \/ InGames(Answer(c))
         \/ \E how \in {"right", "wrong", "outside"} : InGames(Guess(c, how))
         \/ \E p \in Player : InGames(AskQuiz(p, c))
    \/ \E p \in Player :
         \/ InGames(QuizFetched(p)) \/ InGames(QuizFails(p)) \/ InGames(QuizStored(p))
         \/ InGames(QuizShown(p)) \/ InGames(QuizNotShown(p)) \/ InGames(AskDie(p))
         \/ \E b \in BOOLEAN : InGames(ThrowLands(p, b)) \/ InGames(ThrowFails(p, b))
         \/ InGames(ThrowRead(p)) \/ InGames(DieDropped(p)) \/ InGames(DieStays(p))
         \/ InGames(DieGivenUp(p))
    \/ InGames(GamesCrash)

HandlersNext ==
    PluginsTurn \/ GuardTurn \/ RulesTurn \/ TablesTurn \/ SchemaTurn \/ JobsTurn \/ GamesTurn

HandlersSpec ==
    HandlersInit /\ [][HandlersNext]_<<part, envVars, pluginVars, guardVars, rulesVars,
                                       tablesVars, schemaVars, jobsVars, gamesVars>>

ASSUME HandlersAssumption == GuardAssumption

-----------------------------------------------------------------------------
\* Every variable of the parts keeps its kind of value, and what of it is tied
\* to the rest: a command that unloads has an entry to unload, a message with
\* rules left is under way.
HandlersTypes ==
    /\ EnvTypeOK
    /\ part = "plugins" => PluginsTypes
    /\ part = "guard" => GuardTypes
    /\ part = "rules" => RulesTypes
    /\ part = "tables" => TablesTypes
    /\ part = "schema" => SchemaTypes
    /\ part = "jobs" => JobsTypes
    /\ part = "games" => GamesTypes
=============================================================================
