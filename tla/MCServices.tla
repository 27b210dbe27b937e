------------------------------ MODULE MCServices ------------------------------
(***************************************************************************)
(* The services for TLC: automatic posts, the stores of settings, the      *)
(* daily digest, the clock in the name, and the statistics.  They do not   *)
(* touch each other here, so each behaviour is one of one service, chosen  *)
(* at the start, and their states add up instead of multiplying.           *)
(***************************************************************************)
EXTENDS Outgoing, Settings, Digest, ProfileClock, Stats, TLC

CONSTANTS Services,  \* the services of a run
          t1, t2,    \* two tasks; two chats, where they are all alike
          p1, p2     \* two tasks of the posts, whose chats are t1 and t2

VARIABLE part

\* The last instant of each service, within MaxTime; and how often, together, the
\* owner can command and something can fail.
Instants == [posts |-> 5, settings |-> 0, digest |-> 3, clock |-> 1, stats |-> 0]
Events   == 2

TwoTasks  == {t1, t2}
PostTasks == {p1, p2}
Alike     == Permutations(TwoTasks) \cup Permutations(PostTasks)

\* The cells the owner uses: a row and a list of the digest, whose store is built
\* like that of the posts; or one cell.
SomeScopes == {{<<"digest", "time">>, <<"digest", "a">>}}
              \cup {{c} : c \in {<<"post", "on">>, <<"post", "a">>, <<"guard", "a">>, <<"guard", "w">>,
                                 <<"font", "style">>, <<"toggles", "key">>, <<"clock", "on">>, Base}}
\* A backup with all the cells in use TRUE, and two with none, one of which names no
\* group; groups are named where their welcomes are in use.
Named   == IF scope \cap ({"guard"} \X Greeted) = {} THEN {} ELSE Greeted
Backups == {[on |-> {}, named |-> {}], [on |-> {}, named |-> Named],
            [on |-> {c \in scope : c[1] \in BackedUp}, named |-> Named]}

\* A short name, and one that base[:40] cuts at a space.
Names  == {<<"a">>, <<"b", "c", "space", "d">>}
Styles == {"default", "fullwidth"}

-----------------------------------------------------------------------------
\* A service that does not run starts, and stays, in one fixed state.
PostsStart ==
    IF part = "posts" THEN PostInit /\ post.on /\ post.text /\ post.chats = PostChat
    ELSE /\ post = [on |-> FALSE, text |-> FALSE, chats |-> {}, interval |-> MinInterval]
         /\ nextRun = 0 /\ force = FALSE /\ poster = Asleep /\ lastSend = 0
         /\ window = {} /\ passed = <<>> /\ roundEnd = 0 /\ late = << >>
         /\ postRows = post /\ postSaves = [t \in PostTask |-> Nothing] /\ loose = {}

SettingsStart ==
    IF part = "settings" THEN SettingsInit
    ELSE /\ scope = {} /\ mem = Default /\ table = Default
         /\ saver = [o \in Save |-> Idling] /\ load = LoadsOf({})
         /\ disturbed = Store /\ restore = NoRestore

DigestStart ==
    /\ DigestInit
    /\ digest.minute = 0 /\ digest.chats = DigestChat
    /\ digest.on = (part = "digest")
    /\ digest.mode = "all"

ClockStart ==
    IF part = "clock" THEN ClockInit
    ELSE /\ wish = <<>> /\ profile = <<>> /\ style = "default" /\ ticking = FALSE /\ base = {}
         /\ updater = Resting /\ lastSet = {} /\ task = [t \in ClockTask |-> AtRest]
         /\ unread = FALSE /\ crossed = TRUE

\* Nothing is stored at first; a process that follows finds what this one saved.
StatsStart == StatsInit /\ stored.total = 0

ServicesInit ==
    /\ part \in Services
    /\ EnvInit /\ PostsStart /\ SettingsStart /\ DigestStart /\ ClockStart /\ StatsStart

-----------------------------------------------------------------------------
Only(p, A) == part = p /\ A /\ now' <= Instants[p] /\ orders' + faults' <= Events

InPosts(A) == Only("posts", A)
    /\ UNCHANGED <<part, settingsVars, digestVars, clockVars, statsVars>>
InSettings(A) == Only("settings", A)
    /\ UNCHANGED <<part, postVars, digestVars, clockVars, statsVars>>
InDigest(A) == Only("digest", A)
    /\ UNCHANGED <<part, postVars, settingsVars, clockVars, statsVars>>
InClock(A) == Only("clock", A)
    /\ UNCHANGED <<part, postVars, settingsVars, digestVars, statsVars>>
InStats(A) == Only("stats", A)
    /\ UNCHANGED <<part, postVars, settingsVars, digestVars, clockVars>>

PostsTurn ==
    \/ InPosts(PostOn) \/ InPosts(PostOff) \/ InPosts(PostText) \/ InPosts(PostClear)
    \/ InPosts(PostNow) \/ InPosts(GapOver) \/ InPosts(MinuteOver) \/ InPosts(Round)
    \/ InPosts(SendOk) \/ InPosts(SendFails) \/ InPosts(SendFlood) \/ InPosts(FloodOver)
    \/ InPosts(RoundOver) \/ InPosts(PostCrash) \/ InPosts(PostTick)
    \/ \E n \in Interval :
         \/ InPosts(PostInterval(n)) \/ \E b \in BOOLEAN : InPosts(PostSwitch(b, n))
    \/ \E c \in PostChat :
         \/ InPosts(PostAdd(c)) \/ InPosts(PostRemove(c)) \/ InPosts(NextChat(c))
    \/ \E t \in PostTask : InPosts(PostSaved(t)) \/ InPosts(PostSaveFails(t))

SettingsTurn ==
    \/ \E o \in Save :
         \/ \E v \in BOOLEAN :
              \/ \E n \in PostRow : InSettings(PostSet(o, n, v))
              \/ \E n \in DigestRow : InSettings(DigestSet(o, n, v))
              \/ \E n \in FontRow : InSettings(FontSet(o, n, v))
              \/ \E n \in ClockRow \ {"base"} : InSettings(ClockSet(o, n, v))
              \/ \E n \in Listed \cup Greeted : InSettings(GuardSet(o, n, v))
              \/ InSettings(SetToggle(o, v))
              \/ \E s \in {"post", "digest", "font"} : InSettings(CentreSet(o, s, v))
         \/ \E s \in {"post", "digest"} :
              \/ \E n \in Listed : InSettings(AddChat(o, s, n)) \/ InSettings(RemoveChat(o, s, n))
              \/ InSettings(ClearChats(o, s))
         \/ \E b \in Backups : InSettings(Restore(o, b))
         \/ InSettings(RestoreNext(o)) \/ InSettings(ReadRow(o)) \/ InSettings(CommitSave(o))
         \/ InSettings(SaveFails(o)) \/ InSettings(ClockSave(o))
    \/ \E v \in BOOLEAN : InSettings(ClockBase(v))
    \/ InSettings(LoadRows) \/ InSettings(LoadItems) \/ InSettings(LoadAssign)
    \/ InSettings(SettingsCrash)

DigestTurn ==
    \/ InDigest(DigestOn) \/ InDigest(DigestOff) \/ InDigest(DigestClear)
    \/ \E m \in {"all", "custom"} : InDigest(DigestMode(m))
    \/ \E t \in 0..(Day - 1) : InDigest(DigestTime(t))
    \/ \E c \in DigestChat : InDigest(DigestAdd(c)) \/ InDigest(DigestRemove(c))
    \/ InDigest(Look) \/ InDigest(DigestNow)
    \/ \E r \in Runner :
         \/ \E c \in DigestChat : InDigest(Collect(r, c))
         \/ InDigest(Compose(r)) \/ InDigest(Deliver(r)) \/ InDigest(Mark(r))
         \/ InDigest(RunFails(r))
    \/ \E w \in Saving :
         \/ InDigest(DigestRead(w)) \/ InDigest(DigestCommit(w)) \/ InDigest(DigestSaveFails(w))
    \/ InDigest(DigestCrash) \/ InDigest(DigestTick)

ClockTurn ==
    \/ InClock(ClockLook) \/ InClock(ClockAnswer) \/ InClock(ClockLands) \/ InClock(ClockFails)
    \/ InClock(ClockCrash) \/ InClock(ClockTick)
    \/ \E b \in BOOLEAN : InClock(ClockSwitch(b))
    \/ \E n \in NewName : InClock(AppRename(n)) \/ \E t \in ClockTask : InClock(SetName(t, n))
    \/ \E t \in ClockTask :
         \/ InClock(ClockStyle(t, "star"))
         \/ InClock(ClockStyleNext(t)) \/ InClock(ApplyStyle(t)) \/ InClock(TaskAsks(t))
         \/ InClock(TaskAnswer(t)) \/ InClock(TaskLands(t)) \/ InClock(TaskFails(t))

StatsTurn ==
    \/ \E c \in StatChat : InStats(RecordMessage(c))
    \/ \E b \in BOOLEAN : InStats(StatsSwitch(b))
    \/ \E s \in Saver :
         \/ InStats(SaveBegin(s)) \/ InStats(SaveTotals(s)) \/ InStats(SaveChats(s))
         \/ InStats(SaveRow(s)) \/ InStats(SaveCommit(s)) \/ InStats(SaveRaises(s))
         \/ InStats(ResetMemory(s)) \/ InStats(ResetCommit(s))
    \/ InStats(StatsLoadTotals) \/ InStats(StatsLoad) \/ InStats(StatsCrash)

ServicesNext == PostsTurn \/ SettingsTurn \/ DigestTurn \/ ClockTurn \/ StatsTurn

ServicesSpec ==
    ServicesInit /\ [][ServicesNext]_<<part, envVars, postVars, settingsVars, digestVars,
                                        clockVars, statsVars>>

ASSUME ServicesAssumption ==
    OutgoingAssumption /\ SettingsAssumption /\ DigestAssumption /\ ClockAssumption

-----------------------------------------------------------------------------
\* Every variable of the services keeps its kind of value.
ServicesTypes ==
    /\ EnvTypeOK
    /\ part = "posts" => OutgoingTypes
    /\ part = "settings" => SettingsTypes
    /\ part = "digest" => DigestTypes
    /\ part = "clock" => ClockTypes
    /\ part = "stats" => StatsTypes
=============================================================================
