----------------------------- MODULE SchemaProofs -----------------------------
(***************************************************************************)
(* The bot starts on the tables its classes describe, by whatever way the  *)
(* database came to head: any sequence of upgrades, of downgrades to any   *)
(* revision, of rows written and of migrations that died.  Every table,    *)
(* and every column and index that comes or goes by a step of its own, has *)
(* a life: the migration it belongs to, the step that makes it and the     *)
(* step that takes it back.  The catalogue says that the steps of the      *)
(* migrations and these lives are one to one; what the tables are at any   *)
(* step of a migration then follows from who lives there.                  *)
(***************************************************************************)
EXTENDS Schema, TLAPS

\* Down to any revision, and rows in any table.
SchemaNext ==
    \/ StartUpgrade \/ \E r \in 0..Head10 : StartDowngrade(r)
    \/ Migrate \/ Commit \/ MigrationDies
    \/ \E t \in DOMAIN schema : Fills(t)
    \/ Ends

SchemaSpec == EnvInit /\ SchemaInit /\ [][SchemaNext]_<<envVars, schemaVars>>

-----------------------------------------------------------------------------
(* The lives.                                                              *)

Life(r, u, d) == [rev |-> r, up |-> u, down |-> d]

TableLife == [
    notes                      |-> Life(1, 1, 11), assistant_settings         |-> Life(1, 2, 10),
    assistant_chat_rules       |-> Life(1, 3, 9),  autopost_settings          |-> Life(1, 4, 7),
    autopost_chats             |-> Life(1, 5, 6),  font_settings              |-> Life(1, 6, 5),
    clock_settings             |-> Life(1, 7, 4),  stats_summary              |-> Life(1, 8, 3),
    stats_command_counts       |-> Life(1, 9, 2),  stats_chat_counts          |-> Life(1, 10, 1),
    scheduled_jobs             |-> Life(2, 1, 2),  group_guard_settings       |-> Life(3, 1, 1),
    inbox_items                |-> Life(5, 1, 6),  notification_rules         |-> Life(5, 2, 5),
    user_profiles              |-> Life(5, 3, 4),  ai_memory                  |-> Life(5, 4, 3),
    automation_rules           |-> Life(5, 5, 2),  settings                   |-> Life(5, 6, 1),
    hafez_poems                |-> Life(6, 1, 1),  daily_digest_settings      |-> Life(8, 1, 2),
    daily_digest_chats         |-> Life(8, 2, 1),  assistant_schedule_windows |-> Life(9, 2, 1),
    group_word_filters         |-> Life(10, 1, 5), group_user_warnings        |-> Life(10, 2, 4),
    group_warn_settings        |-> Life(10, 3, 3), group_activity_log         |-> Life(10, 4, 2),
    group_polls                |-> Life(10, 5, 1)]

TableName == DOMAIN TableLife

Part(t, n, r, u, d) == [on |-> t, name |-> n, rev |-> r, up |-> u, down |-> d]

\* Columns a later migration adds, and indexes a downgrade drops before their table.
LateColumns == {
    Part("assistant_settings", "ai_mode", 4, 1, 1),
    Part("group_guard_settings", "porn_filter_enabled", 7, 1, 2),
    Part("group_guard_settings", "spam_filter_enabled", 7, 2, 1),
    Part("assistant_settings", "schedule_enabled", 9, 1, 2)}

LooseIndexes == {
    Part("assistant_chat_rules", "ix_assistant_chat_rules_chat_id", 1, 3, 8),
    Part("scheduled_jobs", "ix_scheduled_jobs_run_at", 2, 1, 1)}

\* A table no class describes.
GroupPoll == Made({"id"}, {"chat_id", "message_id", "poll_id", "question", "options",
    "total_votes", "closed", "created_at", "updated_at"}, {},
    {"ix_group_polls_chat_id", "ix_group_polls_created_at"})

\* A table at head, and as its migration makes it.
AtHead(t) == IF t = "group_polls" THEN GroupPoll ELSE Models[t]
Born(t) ==
    CASE t = "assistant_settings"   -> [AtHead(t) EXCEPT !.must = @ \ {"ai_mode", "schedule_enabled"}]
      [] t = "group_guard_settings" -> [AtHead(t) EXCEPT !.must = @ \ {"porn_filter_enabled",
                                                                       "spam_filter_enabled"}]
      [] OTHER                      -> AtHead(t)

\* Who lives at a step of a transaction.
Here(l, m) ==
    IF m.to > m.at THEN l.rev <= m.at \/ (l.rev = m.at + 1 /\ l.up < m.step)
    ELSE l.rev < m.at \/ (l.rev = m.at /\ l.down >= m.step)

Away(parts, t, m) == {x.name : x \in {y \in parts : y.on = t /\ ~Here(y, m)}}

\* A table, and all of them, at a step of a transaction.
TableAt(t, m) ==
    [key |-> AtHead(t).key, must |-> AtHead(t).must \ Away(LateColumns, t, m),
     may |-> AtHead(t).may, named |-> AtHead(t).named \ Away(LooseIndexes, t, m)]

TablesAt(m) == [t \in {u \in TableName : Here(TableLife[u], m)} |-> TableAt(t, m)]

Settled(r) == [to |-> r, at |-> r, step |-> 1]

-----------------------------------------------------------------------------
(* The catalogue.                                                          *)

Lives(l) ==
    /\ l.rev \in 1..10 /\ l.up \in 1..Len(Ups[l.rev]) /\ l.down \in 1..Len(Downs[l.rev])

\* What the lists of steps hold, and how long they are.
LEMMA UpLists ==
    /\ Len(Ups) = 10 /\ Head10 = 10
    /\ Ups[1] = Up1 /\ Ups[2] = Up2 /\ Ups[3] = Up3 /\ Ups[4] = Up4 /\ Ups[5] = Up5
    /\ Ups[6] = Up6 /\ Ups[7] = Up7 /\ Ups[8] = Up8 /\ Ups[9] = Up9 /\ Ups[10] = Up10
    /\ Len(Up1) = 10 /\ Len(Up2) = 1 /\ Len(Up3) = 1 /\ Len(Up4) = 1 /\ Len(Up5) = 6
    /\ Len(Up6) = 1 /\ Len(Up7) = 2 /\ Len(Up8) = 2 /\ Len(Up9) = 2 /\ Len(Up10) = 5
<1>1. Len(Ups) = 10 /\ Head10 = 10  BY DEF Ups, Head10
<1>2. /\ Ups[1] = Up1 /\ Ups[2] = Up2 /\ Ups[3] = Up3 /\ Ups[4] = Up4 /\ Ups[5] = Up5
      /\ Ups[6] = Up6 /\ Ups[7] = Up7 /\ Ups[8] = Up8 /\ Ups[9] = Up9 /\ Ups[10] = Up10
  BY DEF Ups
<1>3. Len(Up1) = 10  BY DEF Up1
<1>4. Len(Up2) = 1 /\ Len(Up3) = 1 /\ Len(Up4) = 1  BY DEF Up2, Up3, Up4
<1>5. Len(Up5) = 6  BY DEF Up5
<1>6. Len(Up6) = 1 /\ Len(Up7) = 2  BY DEF Up6, Up7
<1>7. Len(Up8) = 2 /\ Len(Up9) = 2  BY DEF Up8, Up9
<1>8. Len(Up10) = 5  BY DEF Up10
<1>. QED  BY <1>1, <1>2, <1>3, <1>4, <1>5, <1>6, <1>7, <1>8

LEMMA DownLists ==
    /\ Downs[1] = Down1 /\ Downs[2] = Down2 /\ Downs[3] = Down3 /\ Downs[4] = Down4
    /\ Downs[5] = Down5 /\ Downs[6] = Down6 /\ Downs[7] = Down7 /\ Downs[8] = Down8
    /\ Downs[9] = Down9 /\ Downs[10] = Down10
    /\ Len(Down1) = 11 /\ Len(Down2) = 2 /\ Len(Down3) = 1 /\ Len(Down4) = 1 /\ Len(Down5) = 6
    /\ Len(Down6) = 1 /\ Len(Down7) = 2 /\ Len(Down8) = 2 /\ Len(Down9) = 2 /\ Len(Down10) = 5
<1>1. /\ Downs[1] = Down1 /\ Downs[2] = Down2 /\ Downs[3] = Down3 /\ Downs[4] = Down4
      /\ Downs[5] = Down5 /\ Downs[6] = Down6 /\ Downs[7] = Down7 /\ Downs[8] = Down8
      /\ Downs[9] = Down9 /\ Downs[10] = Down10
  BY DEF Downs
<1>2. Len(Down1) = 11  BY DEF Down1
<1>3. Len(Down2) = 2 /\ Len(Down3) = 1 /\ Len(Down4) = 1  BY DEF Down2, Down3, Down4
<1>4. Len(Down5) = 6  BY DEF Down5
<1>5. Len(Down6) = 1 /\ Len(Down7) = 2 /\ Len(Down8) = 2  BY DEF Down6, Down7, Down8
<1>6. Len(Down9) = 2 /\ Len(Down10) = 5  BY DEF Down9, Down10
<1>. QED  BY <1>1, <1>2, <1>3, <1>4, <1>5, <1>6

\* A table's life is that of its two steps.
Filed(t) ==
    /\ Lives(TableLife[t])
    /\ Ups[TableLife[t].rev][TableLife[t].up] = Create(t, Born(t))
    /\ Downs[TableLife[t].rev][TableLife[t].down] = Drop(t)

\* How long the migrations are.
LEMMA Lengths ==
    /\ Len(Ups[1]) = 10 /\ Len(Ups[2]) = 1 /\ Len(Ups[3]) = 1 /\ Len(Ups[4]) = 1 /\ Len(Ups[5]) = 6
    /\ Len(Ups[6]) = 1 /\ Len(Ups[7]) = 2 /\ Len(Ups[8]) = 2 /\ Len(Ups[9]) = 2 /\ Len(Ups[10]) = 5
    /\ Len(Downs[1]) = 11 /\ Len(Downs[2]) = 2 /\ Len(Downs[3]) = 1 /\ Len(Downs[4]) = 1
    /\ Len(Downs[5]) = 6 /\ Len(Downs[6]) = 1 /\ Len(Downs[7]) = 2 /\ Len(Downs[8]) = 2
    /\ Len(Downs[9]) = 2 /\ Len(Downs[10]) = 5
BY UpLists, DownLists

LEMMA FirstTables ==
    \A t \in {"notes", "assistant_chat_rules", "autopost_settings",
              "autopost_chats", "font_settings"} : Filed(t)
<1>1. /\ Born("notes") = Note /\ Born("assistant_chat_rules") = AssistantChatRule
      /\ Born("autopost_settings") = AutopostSettings /\ Born("autopost_chats") = AutopostChat
      /\ Born("font_settings") = FontSettings
  BY DEF Born, AtHead, Models
<1>2. /\ Up1[1] = Create("notes", Note)
      /\ Up1[3] = Create("assistant_chat_rules", AssistantChatRule)
      /\ Up1[4] = Create("autopost_settings", AutopostSettings)
      /\ Up1[5] = Create("autopost_chats", AutopostChat)
      /\ Up1[6] = Create("font_settings", FontSettings)
  BY DEF Up1, Note, AssistantChatRule, AutopostSettings, AutopostChat, FontSettings
<1>3. /\ Down1[11] = Drop("notes") /\ Down1[9] = Drop("assistant_chat_rules")
      /\ Down1[7] = Drop("autopost_settings") /\ Down1[6] = Drop("autopost_chats")
      /\ Down1[5] = Drop("font_settings")
  BY DEF Down1
<1>4. /\ TableLife["notes"] = Life(1, 1, 11)
      /\ TableLife["assistant_chat_rules"] = Life(1, 3, 9)
      /\ TableLife["autopost_settings"] = Life(1, 4, 7)
      /\ TableLife["autopost_chats"] = Life(1, 5, 6)
      /\ TableLife["font_settings"] = Life(1, 6, 5)
  BY DEF TableLife
<1>5. /\ Ups[1][1] = Create("notes", Born("notes"))
      /\ Ups[1][3] = Create("assistant_chat_rules", Born("assistant_chat_rules"))
      /\ Ups[1][4] = Create("autopost_settings", Born("autopost_settings"))
      /\ Ups[1][5] = Create("autopost_chats", Born("autopost_chats"))
      /\ Ups[1][6] = Create("font_settings", Born("font_settings"))
  BY <1>1, <1>2, UpLists
<1>6. /\ Downs[1][11] = Drop("notes") /\ Downs[1][9] = Drop("assistant_chat_rules")
      /\ Downs[1][7] = Drop("autopost_settings") /\ Downs[1][6] = Drop("autopost_chats")
      /\ Downs[1][5] = Drop("font_settings")
  BY <1>3, DownLists
<1>7. Filed("notes") /\ Filed("assistant_chat_rules")
  BY SMTT(30), <1>4, <1>5, <1>6, Lengths DEF Filed, Lives, Life
<1>8. Filed("autopost_settings") /\ Filed("autopost_chats")
  BY SMTT(30), <1>4, <1>5, <1>6, Lengths DEF Filed, Lives, Life
<1>9. Filed("font_settings")
  BY SMTT(30), <1>4, <1>5, <1>6, Lengths DEF Filed, Lives, Life
<1>. QED  BY <1>7, <1>8, <1>9

LEMMA NextTables ==
    \A t \in {"clock_settings", "stats_summary", "stats_command_counts",
              "stats_chat_counts"} : Filed(t)
<1>1. /\ Born("clock_settings") = ClockSettings /\ Born("stats_summary") = StatsSummary
      /\ Born("stats_command_counts") = StatsCommandCount
      /\ Born("stats_chat_counts") = StatsChatCount
  BY DEF Born, AtHead, Models
<1>2. /\ Up1[7] = Create("clock_settings", ClockSettings)
      /\ Up1[8] = Create("stats_summary", StatsSummary)
      /\ Up1[9] = Create("stats_command_counts", StatsCommandCount)
      /\ Up1[10] = Create("stats_chat_counts", StatsChatCount)
  BY DEF Up1, ClockSettings, StatsSummary, StatsCommandCount, StatsChatCount
<1>3. /\ Down1[4] = Drop("clock_settings") /\ Down1[3] = Drop("stats_summary")
      /\ Down1[2] = Drop("stats_command_counts") /\ Down1[1] = Drop("stats_chat_counts")
  BY DEF Down1
<1>4. /\ TableLife["clock_settings"] = Life(1, 7, 4)
      /\ TableLife["stats_summary"] = Life(1, 8, 3)
      /\ TableLife["stats_command_counts"] = Life(1, 9, 2)
      /\ TableLife["stats_chat_counts"] = Life(1, 10, 1)
  BY DEF TableLife
<1>5. /\ Ups[1][7] = Create("clock_settings", Born("clock_settings"))
      /\ Ups[1][8] = Create("stats_summary", Born("stats_summary"))
      /\ Ups[1][9] = Create("stats_command_counts", Born("stats_command_counts"))
      /\ Ups[1][10] = Create("stats_chat_counts", Born("stats_chat_counts"))
  BY <1>1, <1>2, UpLists
<1>6. /\ Downs[1][4] = Drop("clock_settings") /\ Downs[1][3] = Drop("stats_summary")
      /\ Downs[1][2] = Drop("stats_command_counts") /\ Downs[1][1] = Drop("stats_chat_counts")
  BY <1>3, DownLists
<1>7. Filed("clock_settings") /\ Filed("stats_summary")
  BY SMTT(30), <1>4, <1>5, <1>6, Lengths DEF Filed, Lives, Life
<1>8. Filed("stats_command_counts") /\ Filed("stats_chat_counts")
  BY SMTT(30), <1>4, <1>5, <1>6, Lengths DEF Filed, Lives, Life
<1>. QED  BY <1>7, <1>8

LEMMA MiddleTables ==
    \A t \in {"scheduled_jobs", "inbox_items", "notification_rules",
              "user_profiles"} : Filed(t)
<1>1. /\ Born("scheduled_jobs") = ScheduledJob /\ Born("inbox_items") = InboxItem
      /\ Born("notification_rules") = NotificationRule /\ Born("user_profiles") = UserProfile
  BY DEF Born, AtHead, Models
<1>2. /\ Up2[1] = Create("scheduled_jobs", ScheduledJob)
      /\ Up5[1] = Create("inbox_items", InboxItem)
      /\ Up5[2] = Create("notification_rules", NotificationRule)
      /\ Up5[3] = Create("user_profiles", UserProfile)
  BY DEF Up2, Up5, ScheduledJob, InboxItem, NotificationRule, UserProfile
<1>3. /\ Down2[2] = Drop("scheduled_jobs") /\ Down5[6] = Drop("inbox_items")
      /\ Down5[5] = Drop("notification_rules") /\ Down5[4] = Drop("user_profiles")
  BY DEF Down2, Down5
<1>4. /\ TableLife["scheduled_jobs"] = Life(2, 1, 2) /\ TableLife["inbox_items"] = Life(5, 1, 6)
      /\ TableLife["notification_rules"] = Life(5, 2, 5)
      /\ TableLife["user_profiles"] = Life(5, 3, 4)
  BY DEF TableLife
<1>5. /\ Ups[2][1] = Create("scheduled_jobs", Born("scheduled_jobs"))
      /\ Ups[5][1] = Create("inbox_items", Born("inbox_items"))
      /\ Ups[5][2] = Create("notification_rules", Born("notification_rules"))
      /\ Ups[5][3] = Create("user_profiles", Born("user_profiles"))
  BY <1>1, <1>2, UpLists
<1>6. /\ Downs[2][2] = Drop("scheduled_jobs") /\ Downs[5][6] = Drop("inbox_items")
      /\ Downs[5][5] = Drop("notification_rules") /\ Downs[5][4] = Drop("user_profiles")
  BY <1>3, DownLists
<1>7. Filed("scheduled_jobs") /\ Filed("inbox_items")
  BY SMTT(30), <1>4, <1>5, <1>6, Lengths DEF Filed, Lives, Life
<1>8. Filed("notification_rules") /\ Filed("user_profiles")
  BY SMTT(30), <1>4, <1>5, <1>6, Lengths DEF Filed, Lives, Life
<1>. QED  BY <1>7, <1>8

LEMMA MemoryTables ==
    \A t \in {"ai_memory", "automation_rules", "settings",
              "hafez_poems"} : Filed(t)
<1>1. /\ Born("ai_memory") = AIMemory /\ Born("automation_rules") = AutomationRule
      /\ Born("settings") = Setting /\ Born("hafez_poems") = HafezPoem
  BY DEF Born, AtHead, Models
<1>2. /\ Up5[4] = Create("ai_memory", AIMemory)
      /\ Up5[5] = Create("automation_rules", AutomationRule)
      /\ Up5[6] = Create("settings", Setting) /\ Up6[1] = Create("hafez_poems", HafezPoem)
  BY DEF Up5, Up6, AIMemory, AutomationRule, Setting, HafezPoem
<1>3. /\ Down5[3] = Drop("ai_memory") /\ Down5[2] = Drop("automation_rules")
      /\ Down5[1] = Drop("settings") /\ Down6[1] = Drop("hafez_poems")
  BY DEF Down5, Down6
<1>4. /\ TableLife["ai_memory"] = Life(5, 4, 3) /\ TableLife["automation_rules"] = Life(5, 5, 2)
      /\ TableLife["settings"] = Life(5, 6, 1) /\ TableLife["hafez_poems"] = Life(6, 1, 1)
  BY DEF TableLife
<1>5. /\ Ups[5][4] = Create("ai_memory", Born("ai_memory"))
      /\ Ups[5][5] = Create("automation_rules", Born("automation_rules"))
      /\ Ups[5][6] = Create("settings", Born("settings"))
      /\ Ups[6][1] = Create("hafez_poems", Born("hafez_poems"))
  BY <1>1, <1>2, UpLists
<1>6. /\ Downs[5][3] = Drop("ai_memory") /\ Downs[5][2] = Drop("automation_rules")
      /\ Downs[5][1] = Drop("settings") /\ Downs[6][1] = Drop("hafez_poems")
  BY <1>3, DownLists
<1>7. Filed("ai_memory") /\ Filed("automation_rules")
  BY SMTT(30), <1>4, <1>5, <1>6, Lengths DEF Filed, Lives, Life
<1>8. Filed("settings") /\ Filed("hafez_poems")
  BY SMTT(30), <1>4, <1>5, <1>6, Lengths DEF Filed, Lives, Life
<1>. QED  BY <1>7, <1>8

LEMMA DigestTables ==
    \A t \in {"daily_digest_settings", "daily_digest_chats", "assistant_schedule_windows"} : Filed(t)
<1>1. /\ Born("daily_digest_settings") = DailyDigestSettings
      /\ Born("daily_digest_chats") = DailyDigestChat
      /\ Born("assistant_schedule_windows") = AssistantScheduleWindow
  BY DEF Born, AtHead, Models
<1>2. /\ Up8[1] = Create("daily_digest_settings", DailyDigestSettings)
      /\ Up8[2] = Create("daily_digest_chats", DailyDigestChat)
      /\ Up9[2] = Create("assistant_schedule_windows", AssistantScheduleWindow)
  BY DEF Up8, Up9, DailyDigestSettings, DailyDigestChat, AssistantScheduleWindow
<1>3. /\ Down8[2] = Drop("daily_digest_settings") /\ Down8[1] = Drop("daily_digest_chats")
      /\ Down9[1] = Drop("assistant_schedule_windows")
  BY DEF Down8, Down9
<1>4. /\ TableLife["daily_digest_settings"] = Life(8, 1, 2)
      /\ TableLife["daily_digest_chats"] = Life(8, 2, 1)
      /\ TableLife["assistant_schedule_windows"] = Life(9, 2, 1)
  BY DEF TableLife
<1>5. /\ Ups[8][1] = Create("daily_digest_settings", Born("daily_digest_settings"))
      /\ Ups[8][2] = Create("daily_digest_chats", Born("daily_digest_chats"))
      /\ Ups[9][2] = Create("assistant_schedule_windows", Born("assistant_schedule_windows"))
  BY <1>1, <1>2, UpLists
<1>6. /\ Downs[8][2] = Drop("daily_digest_settings") /\ Downs[8][1] = Drop("daily_digest_chats")
      /\ Downs[9][1] = Drop("assistant_schedule_windows")
  BY <1>3, DownLists
<1>7. Filed("daily_digest_settings") /\ Filed("daily_digest_chats")
  BY SMTT(30), <1>4, <1>5, <1>6, Lengths DEF Filed, Lives, Life
<1>8. Filed("assistant_schedule_windows")
  BY SMTT(30), <1>4, <1>5, <1>6, Lengths DEF Filed, Lives, Life
<1>. QED  BY <1>7, <1>8

LEMMA GroupTables ==
    \A t \in {"group_word_filters", "group_user_warnings", "group_warn_settings",
              "group_activity_log", "group_polls"} : Filed(t)
<1>1. /\ Born("group_word_filters") = GroupWordFilter
      /\ Born("group_user_warnings") = GroupUserWarning
      /\ Born("group_warn_settings") = GroupWarnSettings
      /\ Born("group_activity_log") = GroupActivityLog /\ Born("group_polls") = GroupPoll
  BY DEF Born, AtHead, Models
<1>2. /\ Up10[1] = Create("group_word_filters", GroupWordFilter)
      /\ Up10[2] = Create("group_user_warnings", GroupUserWarning)
      /\ Up10[3] = Create("group_warn_settings", GroupWarnSettings)
      /\ Up10[4] = Create("group_activity_log", GroupActivityLog)
      /\ Up10[5] = Create("group_polls", GroupPoll)
  BY DEF Up10, GroupWordFilter, GroupUserWarning, GroupWarnSettings, GroupActivityLog, GroupPoll
<1>3. /\ Down10[5] = Drop("group_word_filters") /\ Down10[4] = Drop("group_user_warnings")
      /\ Down10[3] = Drop("group_warn_settings") /\ Down10[2] = Drop("group_activity_log")
      /\ Down10[1] = Drop("group_polls")
  BY DEF Down10
<1>4. /\ TableLife["group_word_filters"] = Life(10, 1, 5)
      /\ TableLife["group_user_warnings"] = Life(10, 2, 4)
      /\ TableLife["group_warn_settings"] = Life(10, 3, 3)
      /\ TableLife["group_activity_log"] = Life(10, 4, 2)
      /\ TableLife["group_polls"] = Life(10, 5, 1)
  BY DEF TableLife
<1>5. /\ Ups[10][1] = Create("group_word_filters", Born("group_word_filters"))
      /\ Ups[10][2] = Create("group_user_warnings", Born("group_user_warnings"))
      /\ Ups[10][3] = Create("group_warn_settings", Born("group_warn_settings"))
      /\ Ups[10][4] = Create("group_activity_log", Born("group_activity_log"))
      /\ Ups[10][5] = Create("group_polls", Born("group_polls"))
  BY <1>1, <1>2, UpLists
<1>6. /\ Downs[10][5] = Drop("group_word_filters") /\ Downs[10][4] = Drop("group_user_warnings")
      /\ Downs[10][3] = Drop("group_warn_settings") /\ Downs[10][2] = Drop("group_activity_log")
      /\ Downs[10][1] = Drop("group_polls")
  BY <1>3, DownLists
<1>7. Filed("group_word_filters") /\ Filed("group_user_warnings")
  BY SMTT(30), <1>4, <1>5, <1>6, Lengths DEF Filed, Lives, Life
<1>8. Filed("group_warn_settings") /\ Filed("group_activity_log")
  BY SMTT(30), <1>4, <1>5, <1>6, Lengths DEF Filed, Lives, Life
<1>9. Filed("group_polls")
  BY SMTT(30), <1>4, <1>5, <1>6, Lengths DEF Filed, Lives, Life
<1>. QED  BY <1>7, <1>8, <1>9

\* The two tables a later migration adds columns to.
LEMMA GrownTables == Filed("assistant_settings") /\ Filed("group_guard_settings")
<1>1. Up1[2] = Create("assistant_settings", Born("assistant_settings"))
  <2>1. Born("assistant_settings") =
          Made({"id"}, AssistantSettings.must \ {"ai_mode", "schedule_enabled"}, {},
               {"ck_assistant_settings_singleton"})
    BY DEF Born, AtHead, Models, AssistantSettings, Made
  <2>2. AssistantSettings.must \ {"ai_mode", "schedule_enabled"} =
          {"mode", "text", "delay_seconds", "auto_detect", "manual_enabled", "updated_at"}
    BY DEF AssistantSettings, Made
  <2>. QED  BY <2>1, <2>2 DEF Up1
<1>2. Up3[1] = Create("group_guard_settings", Born("group_guard_settings"))
  <2>1. Born("group_guard_settings") =
          Made({"chat_id"}, GroupGuardSettings.must \ {"porn_filter_enabled", "spam_filter_enabled"},
               {"welcome_text"}, {})
    BY DEF Born, AtHead, Models, GroupGuardSettings, Made
  <2>2. GroupGuardSettings.must \ {"porn_filter_enabled", "spam_filter_enabled"} =
          {"link_filter_enabled", "welcome_enabled", "updated_at"}
    BY DEF GroupGuardSettings, Made
  <2>. QED  BY <2>1, <2>2 DEF Up3
<1>3. Down1[10] = Drop("assistant_settings") /\ Down3[1] = Drop("group_guard_settings")
  BY DEF Down1, Down3
<1>4. /\ TableLife["assistant_settings"] = Life(1, 2, 10)
      /\ TableLife["group_guard_settings"] = Life(3, 1, 1)
  BY DEF TableLife
<1>5. /\ Ups[1][2] = Create("assistant_settings", Born("assistant_settings"))
      /\ Ups[3][1] = Create("group_guard_settings", Born("group_guard_settings"))
  BY <1>1, <1>2, UpLists
<1>6. Downs[1][10] = Drop("assistant_settings") /\ Downs[3][1] = Drop("group_guard_settings")
  BY <1>3, DownLists
<1>. QED  BY SMTT(30), <1>4, <1>5, <1>6, Lengths DEF Filed, Lives, Life

LEMMA TableNames ==
    TableName = {"notes", "assistant_settings", "assistant_chat_rules", "autopost_settings",
        "autopost_chats", "font_settings", "clock_settings", "stats_summary",
        "stats_command_counts", "stats_chat_counts", "scheduled_jobs", "group_guard_settings",
        "inbox_items", "notification_rules", "user_profiles", "ai_memory", "automation_rules",
        "settings", "hafez_poems", "daily_digest_settings", "daily_digest_chats",
        "assistant_schedule_windows", "group_word_filters", "group_user_warnings",
        "group_warn_settings", "group_activity_log", "group_polls"}
BY DEF TableName, TableLife

LEMMA AllFiled == \A t \in TableName : Filed(t)
BY TableNames, FirstTables, NextTables, MiddleTables, MemoryTables, DigestTables, GroupTables,
   GrownTables

\* The same of the late columns and of the loose indexes, each beside its table's life.
LEMMA ColumnsFiled ==
    \A c \in LateColumns :
      /\ Lives(c) /\ c.on \in TableName /\ c.rev > TableLife[c.on].rev
      /\ Ups[c.rev][c.up] = AddFilled(c.on, c.name)
      /\ Downs[c.rev][c.down] = DropColumn(c.on, c.name)
<1>1. /\ Up4[1] = AddFilled("assistant_settings", "ai_mode")
      /\ Up7[1] = AddFilled("group_guard_settings", "porn_filter_enabled")
      /\ Up7[2] = AddFilled("group_guard_settings", "spam_filter_enabled")
      /\ Up9[1] = AddFilled("assistant_settings", "schedule_enabled")
  BY DEF Up4, Up7, Up9
<1>2. /\ Down4[1] = DropColumn("assistant_settings", "ai_mode")
      /\ Down7[2] = DropColumn("group_guard_settings", "porn_filter_enabled")
      /\ Down7[1] = DropColumn("group_guard_settings", "spam_filter_enabled")
      /\ Down9[2] = DropColumn("assistant_settings", "schedule_enabled")
  BY DEF Down4, Down7, Down9
<1>3. /\ "assistant_settings" \in TableName /\ "group_guard_settings" \in TableName
      /\ TableLife["assistant_settings"] = Life(1, 2, 10)
      /\ TableLife["group_guard_settings"] = Life(3, 1, 1)
  BY DEF TableLife, TableName
<1>4. /\ Ups[4][1] = AddFilled("assistant_settings", "ai_mode")
      /\ Ups[7][1] = AddFilled("group_guard_settings", "porn_filter_enabled")
      /\ Ups[7][2] = AddFilled("group_guard_settings", "spam_filter_enabled")
      /\ Ups[9][1] = AddFilled("assistant_settings", "schedule_enabled")
  BY <1>1, UpLists
<1>5. /\ Downs[4][1] = DropColumn("assistant_settings", "ai_mode")
      /\ Downs[7][2] = DropColumn("group_guard_settings", "porn_filter_enabled")
      /\ Downs[7][1] = DropColumn("group_guard_settings", "spam_filter_enabled")
      /\ Downs[9][2] = DropColumn("assistant_settings", "schedule_enabled")
  BY <1>2, DownLists
<1>6. SUFFICES ASSUME NEW c \in LateColumns
               PROVE  /\ Lives(c) /\ c.on \in TableName /\ c.rev > TableLife[c.on].rev
                      /\ Ups[c.rev][c.up] = AddFilled(c.on, c.name)
                      /\ Downs[c.rev][c.down] = DropColumn(c.on, c.name)
  OBVIOUS
<1>7. CASE c = Part("assistant_settings", "ai_mode", 4, 1, 1)
  BY <1>3, <1>4, <1>5, <1>7, Lengths DEF Lives, Part, Life
<1>8. CASE c = Part("group_guard_settings", "porn_filter_enabled", 7, 1, 2)
  BY <1>3, <1>4, <1>5, <1>8, Lengths DEF Lives, Part, Life
<1>9. CASE c = Part("group_guard_settings", "spam_filter_enabled", 7, 2, 1)
  BY <1>3, <1>4, <1>5, <1>9, Lengths DEF Lives, Part, Life
<1>10. CASE c = Part("assistant_settings", "schedule_enabled", 9, 1, 2)
  BY <1>3, <1>4, <1>5, <1>10, Lengths DEF Lives, Part, Life
<1>. QED  BY <1>7, <1>8, <1>9, <1>10 DEF LateColumns

LEMMA IndexesFiled ==
    \A x \in LooseIndexes :
      /\ Lives(x) /\ x.on \in TableName
      /\ x.rev = TableLife[x.on].rev /\ x.up = TableLife[x.on].up
      /\ x.down <= TableLife[x.on].down
      /\ x.name \in AtHead(x.on).named
      /\ Downs[x.rev][x.down] = DropIndex(x.on, x.name)
<1>1. /\ Down1[8] = DropIndex("assistant_chat_rules", "ix_assistant_chat_rules_chat_id")
      /\ Down2[1] = DropIndex("scheduled_jobs", "ix_scheduled_jobs_run_at")
  BY DEF Down1, Down2
<1>2. /\ AtHead("assistant_chat_rules") = AssistantChatRule
      /\ AtHead("scheduled_jobs") = ScheduledJob
  BY DEF AtHead, Models
<1>3. /\ "ix_assistant_chat_rules_chat_id" \in AssistantChatRule.named
      /\ "ix_scheduled_jobs_run_at" \in ScheduledJob.named
  BY DEF AssistantChatRule, ScheduledJob, Made
<1>4. /\ "assistant_chat_rules" \in TableName /\ "scheduled_jobs" \in TableName
      /\ TableLife["assistant_chat_rules"] = Life(1, 3, 9)
      /\ TableLife["scheduled_jobs"] = Life(2, 1, 2)
  BY DEF TableLife, TableName
<1>5. /\ Downs[1][8] = DropIndex("assistant_chat_rules", "ix_assistant_chat_rules_chat_id")
      /\ Downs[2][1] = DropIndex("scheduled_jobs", "ix_scheduled_jobs_run_at")
  BY <1>1, DownLists
<1>6. SUFFICES ASSUME NEW x \in LooseIndexes
               PROVE  /\ Lives(x) /\ x.on \in TableName
                      /\ x.rev = TableLife[x.on].rev /\ x.up = TableLife[x.on].up
                      /\ x.down <= TableLife[x.on].down
                      /\ x.name \in AtHead(x.on).named
                      /\ Downs[x.rev][x.down] = DropIndex(x.on, x.name)
  OBVIOUS
<1>7. CASE x = Part("assistant_chat_rules", "ix_assistant_chat_rules_chat_id", 1, 3, 8)
  <2>1. /\ x.on = "assistant_chat_rules" /\ x.name = "ix_assistant_chat_rules_chat_id"
        /\ x.rev = 1 /\ x.up = 3 /\ x.down = 8
    BY <1>7 DEF Part
  <2>2. /\ TableLife[x.on].rev = 1 /\ TableLife[x.on].up = 3 /\ TableLife[x.on].down = 9
    BY <2>1, <1>4 DEF Life
  <2>3. x.name \in AtHead(x.on).named
    BY <2>1, <1>2, <1>3
  <2>4. Lives(x)
    BY <2>1, Lengths DEF Lives
  <2>. QED  BY <2>1, <2>2, <2>3, <2>4, <1>4, <1>5
<1>8. CASE x = Part("scheduled_jobs", "ix_scheduled_jobs_run_at", 2, 1, 1)
  <2>1. /\ x.on = "scheduled_jobs" /\ x.name = "ix_scheduled_jobs_run_at"
        /\ x.rev = 2 /\ x.up = 1 /\ x.down = 1
    BY <1>8 DEF Part
  <2>2. /\ TableLife[x.on].rev = 2 /\ TableLife[x.on].up = 1 /\ TableLife[x.on].down = 2
    BY <2>1, <1>4 DEF Life
  <2>3. x.name \in AtHead(x.on).named
    BY <2>1, <1>2, <1>3
  <2>4. Lives(x)
    BY <2>1, Lengths DEF Lives
  <2>. QED  BY <2>1, <2>2, <2>3, <2>4, <1>4, <1>5
<1>. QED  BY <1>7, <1>8 DEF LooseIndexes

\* The lives, one by one.
LEMMA LifeOf ==
    /\ TableLife["notes"] = Life(1, 1, 11) /\ TableLife["assistant_settings"] = Life(1, 2, 10)
    /\ TableLife["assistant_chat_rules"] = Life(1, 3, 9)
    /\ TableLife["autopost_settings"] = Life(1, 4, 7)
    /\ TableLife["autopost_chats"] = Life(1, 5, 6) /\ TableLife["font_settings"] = Life(1, 6, 5)
    /\ TableLife["clock_settings"] = Life(1, 7, 4) /\ TableLife["stats_summary"] = Life(1, 8, 3)
    /\ TableLife["stats_command_counts"] = Life(1, 9, 2)
    /\ TableLife["stats_chat_counts"] = Life(1, 10, 1)
    /\ TableLife["scheduled_jobs"] = Life(2, 1, 2)
    /\ TableLife["group_guard_settings"] = Life(3, 1, 1)
    /\ TableLife["inbox_items"] = Life(5, 1, 6)
    /\ TableLife["notification_rules"] = Life(5, 2, 5)
    /\ TableLife["user_profiles"] = Life(5, 3, 4) /\ TableLife["ai_memory"] = Life(5, 4, 3)
    /\ TableLife["automation_rules"] = Life(5, 5, 2) /\ TableLife["settings"] = Life(5, 6, 1)
    /\ TableLife["hafez_poems"] = Life(6, 1, 1)
    /\ TableLife["daily_digest_settings"] = Life(8, 1, 2)
    /\ TableLife["daily_digest_chats"] = Life(8, 2, 1)
    /\ TableLife["assistant_schedule_windows"] = Life(9, 2, 1)
    /\ TableLife["group_word_filters"] = Life(10, 1, 5)
    /\ TableLife["group_user_warnings"] = Life(10, 2, 4)
    /\ TableLife["group_warn_settings"] = Life(10, 3, 3)
    /\ TableLife["group_activity_log"] = Life(10, 4, 2)
    /\ TableLife["group_polls"] = Life(10, 5, 1)
BY ZenonT(60) DEF TableLife

LEMMA IsTable ==
    /\ "notes" \in TableName /\ "assistant_settings" \in TableName
    /\ "assistant_chat_rules" \in TableName /\ "autopost_settings" \in TableName
    /\ "autopost_chats" \in TableName /\ "font_settings" \in TableName /\ "clock_settings" \in TableName
    /\ "stats_summary" \in TableName /\ "stats_command_counts" \in TableName
    /\ "stats_chat_counts" \in TableName /\ "scheduled_jobs" \in TableName
    /\ "group_guard_settings" \in TableName /\ "inbox_items" \in TableName
    /\ "notification_rules" \in TableName /\ "user_profiles" \in TableName /\ "ai_memory" \in TableName
    /\ "automation_rules" \in TableName /\ "settings" \in TableName /\ "hafez_poems" \in TableName
    /\ "daily_digest_settings" \in TableName /\ "daily_digest_chats" \in TableName
    /\ "assistant_schedule_windows" \in TableName /\ "group_word_filters" \in TableName
    /\ "group_user_warnings" \in TableName /\ "group_warn_settings" \in TableName
    /\ "group_activity_log" \in TableName /\ "group_polls" \in TableName
BY DEF TableLife, TableName

\* What a class or a migration makes of a table is its four parts.
IsMade(x) == x = Made(x.key, x.must, x.may, x.named)

LEMMA MadeIsMade == \A a, b, c, d : IsMade(Made(a, b, c, d))
BY DEF IsMade, Made

LEMMA AllMade == \A t \in TableName : IsMade(AtHead(t))

<1>1. /\ IsMade(Note) /\ IsMade(AssistantSettings) /\ IsMade(AssistantChatRule)
      /\ IsMade(AutopostSettings) /\ IsMade(AutopostChat)
  BY MadeIsMade DEF Note, AssistantSettings, AssistantChatRule, AutopostSettings, AutopostChat
<1>2. /\ IsMade(FontSettings) /\ IsMade(ClockSettings) /\ IsMade(StatsSummary)
      /\ IsMade(StatsCommandCount) /\ IsMade(StatsChatCount)
  BY MadeIsMade DEF FontSettings, ClockSettings, StatsSummary, StatsCommandCount, StatsChatCount
<1>3. /\ IsMade(ScheduledJob) /\ IsMade(GroupGuardSettings) /\ IsMade(InboxItem)
      /\ IsMade(NotificationRule) /\ IsMade(UserProfile)
  BY MadeIsMade DEF ScheduledJob, GroupGuardSettings, InboxItem, NotificationRule, UserProfile
<1>4. /\ IsMade(AIMemory) /\ IsMade(AutomationRule) /\ IsMade(Setting) /\ IsMade(HafezPoem)
      /\ IsMade(DailyDigestSettings)
  BY MadeIsMade DEF AIMemory, AutomationRule, Setting, HafezPoem, DailyDigestSettings
<1>5. /\ IsMade(DailyDigestChat) /\ IsMade(AssistantScheduleWindow) /\ IsMade(GroupWordFilter)
      /\ IsMade(GroupUserWarning) /\ IsMade(GroupWarnSettings)
  BY MadeIsMade DEF DailyDigestChat, AssistantScheduleWindow, GroupWordFilter, GroupUserWarning, GroupWarnSettings
<1>6. /\ IsMade(GroupActivityLog) /\ IsMade(GroupPoll)
  BY MadeIsMade DEF GroupActivityLog, GroupPoll
<1>7. /\ AtHead("notes") = Note /\ AtHead("assistant_settings") = AssistantSettings
      /\ AtHead("assistant_chat_rules") = AssistantChatRule
      /\ AtHead("autopost_settings") = AutopostSettings
      /\ AtHead("autopost_chats") = AutopostChat /\ AtHead("font_settings") = FontSettings
      /\ AtHead("clock_settings") = ClockSettings /\ AtHead("stats_summary") = StatsSummary
      /\ AtHead("stats_command_counts") = StatsCommandCount
  BY DEF AtHead, Models
<1>8. /\ AtHead("stats_chat_counts") = StatsChatCount /\ AtHead("scheduled_jobs") = ScheduledJob
      /\ AtHead("group_guard_settings") = GroupGuardSettings
      /\ AtHead("inbox_items") = InboxItem /\ AtHead("notification_rules") = NotificationRule
      /\ AtHead("user_profiles") = UserProfile /\ AtHead("ai_memory") = AIMemory
      /\ AtHead("automation_rules") = AutomationRule /\ AtHead("settings") = Setting
  BY DEF AtHead, Models
<1>9. /\ AtHead("hafez_poems") = HafezPoem
      /\ AtHead("daily_digest_settings") = DailyDigestSettings
      /\ AtHead("daily_digest_chats") = DailyDigestChat
      /\ AtHead("assistant_schedule_windows") = AssistantScheduleWindow
      /\ AtHead("group_word_filters") = GroupWordFilter
      /\ AtHead("group_user_warnings") = GroupUserWarning
      /\ AtHead("group_warn_settings") = GroupWarnSettings
      /\ AtHead("group_activity_log") = GroupActivityLog /\ AtHead("group_polls") = GroupPoll
  BY DEF AtHead, Models
<1>. QED  BY <1>1, <1>2, <1>3, <1>4, <1>5, <1>6, <1>7, <1>8, <1>9, TableNames
\* What of the catalogue is about one life only.
LEMMA LivesOf ==
    /\ \A t \in TableName : Lives(TableLife[t])
    /\ \A c \in LateColumns : Lives(c)
    /\ \A x \in LooseIndexes : Lives(x)
BY AllFiled, ColumnsFiled, IndexesFiled DEF Filed

\* Every step of a migration is the first of a life, ...
Opens(k, i) ==
    \/ \E t \in TableName : TableLife[t].rev = k /\ TableLife[t].up = i
    \/ \E c \in LateColumns : c.rev = k /\ c.up = i

LEMMA UpSteps == \A k \in 1..10 : \A i \in 1..Len(Ups[k]) : Opens(k, i)
<1>1. \A i \in 1..Len(Ups[1]) : Opens(1, i)
  BY LifeOf, IsTable, Lengths DEF Opens, Life
<1>2. \A i \in 1..Len(Ups[2]) : Opens(2, i)
  BY LifeOf, IsTable, Lengths DEF Opens, Life
<1>3. \A i \in 1..Len(Ups[3]) : Opens(3, i)
  BY LifeOf, IsTable, Lengths DEF Opens, Life
<1>4. \A i \in 1..Len(Ups[4]) : Opens(4, i)
  BY Lengths DEF Opens, LateColumns, Part
<1>5. \A i \in 1..Len(Ups[5]) : Opens(5, i)
  BY LifeOf, IsTable, Lengths DEF Opens, Life
<1>6. \A i \in 1..Len(Ups[6]) : Opens(6, i)
  BY LifeOf, IsTable, Lengths DEF Opens, Life
<1>7. \A i \in 1..Len(Ups[7]) : Opens(7, i)
  BY Lengths DEF Opens, LateColumns, Part
<1>8. \A i \in 1..Len(Ups[8]) : Opens(8, i)
  BY LifeOf, IsTable, Lengths DEF Opens, Life
<1>9. \A i \in 1..Len(Ups[9]) : Opens(9, i)
  BY LifeOf, IsTable, Lengths DEF Opens, Life, LateColumns, Part
<1>10. \A i \in 1..Len(Ups[10]) : Opens(10, i)
  BY LifeOf, IsTable, Lengths DEF Opens, Life
<1>. DEFINE All(k) == \A i \in 1..Len(Ups[k]) : Opens(k, i)
<1>11. /\ All(1) /\ All(2) /\ All(3) /\ All(4) /\ All(5)
       /\ All(6) /\ All(7) /\ All(8) /\ All(9) /\ All(10)
  BY <1>1, <1>2, <1>3, <1>4, <1>5, <1>6, <1>7, <1>8, <1>9, <1>10
<1>12. \A k \in 1..10 : All(k)
  <2>. HIDE DEF All
  <2>. QED  BY <1>11
<1>. QED  BY <1>12

\* ... and every step of a downgrade the last of one.
Closes(k, i) ==
    \/ \E t \in TableName : TableLife[t].rev = k /\ TableLife[t].down = i
    \/ \E c \in LateColumns : c.rev = k /\ c.down = i
    \/ \E x \in LooseIndexes : x.rev = k /\ x.down = i

LEMMA DownSteps == \A k \in 1..10 : \A i \in 1..Len(Downs[k]) : Closes(k, i)
<1>1. \A i \in 1..Len(Downs[1]) : Closes(1, i)
  <2>1. \A i \in (1..11) \ {8} : Closes(1, i)
    BY LifeOf, IsTable DEF Closes, Life
  <2>2. Closes(1, 8)
    BY DEF Closes, LooseIndexes, Part
  <2>. QED  BY <2>1, <2>2, Lengths
<1>2. \A i \in 1..Len(Downs[2]) : Closes(2, i)
  <2>1. Closes(2, 2)
    BY LifeOf, IsTable DEF Closes, Life
  <2>2. Closes(2, 1)
    BY DEF Closes, LooseIndexes, Part
  <2>. QED  BY <2>1, <2>2, Lengths
<1>3. \A i \in 1..Len(Downs[3]) : Closes(3, i)
  BY LifeOf, IsTable, Lengths DEF Closes, Life
<1>4. \A i \in 1..Len(Downs[4]) : Closes(4, i)
  BY Lengths DEF Closes, LateColumns, Part
<1>5. \A i \in 1..Len(Downs[5]) : Closes(5, i)
  BY LifeOf, IsTable, Lengths DEF Closes, Life
<1>6. \A i \in 1..Len(Downs[6]) : Closes(6, i)
  BY LifeOf, IsTable, Lengths DEF Closes, Life
<1>7. \A i \in 1..Len(Downs[7]) : Closes(7, i)
  BY Lengths DEF Closes, LateColumns, Part
<1>8. \A i \in 1..Len(Downs[8]) : Closes(8, i)
  BY LifeOf, IsTable, Lengths DEF Closes, Life
<1>9. \A i \in 1..Len(Downs[9]) : Closes(9, i)
  <2>1. Closes(9, 1)
    BY LifeOf, IsTable DEF Closes, Life
  <2>2. Closes(9, 2)
    BY DEF Closes, LateColumns, Part
  <2>. QED  BY <2>1, <2>2, Lengths
<1>10. \A i \in 1..Len(Downs[10]) : Closes(10, i)
  BY LifeOf, IsTable, Lengths DEF Closes, Life
<1>. DEFINE All(k) == \A i \in 1..Len(Downs[k]) : Closes(k, i)
<1>11. /\ All(1) /\ All(2) /\ All(3) /\ All(4) /\ All(5)
       /\ All(6) /\ All(7) /\ All(8) /\ All(9) /\ All(10)
  BY <1>1, <1>2, <1>3, <1>4, <1>5, <1>6, <1>7, <1>8, <1>9, <1>10
<1>12. \A k \in 1..10 : All(k)
  <2>. HIDE DEF All
  <2>. QED  BY <1>11
<1>. QED  BY <1>12

\* A table is born without its late columns, and has them at head.
LEMMA BornWithout ==
    \A t \in TableName :
      Born(t) = [key |-> AtHead(t).key,
                 must |-> AtHead(t).must \ {c.name : c \in {x \in LateColumns : x.on = t}},
                 may |-> AtHead(t).may, named |-> AtHead(t).named]
<1>. SUFFICES ASSUME NEW t \in TableName
              PROVE  Born(t) = [key |-> AtHead(t).key,
                         must |-> AtHead(t).must \ {c.name : c \in {x \in LateColumns : x.on = t}},
                         may |-> AtHead(t).may, named |-> AtHead(t).named]
  OBVIOUS
<1>. DEFINE later == {c.name : c \in {x \in LateColumns : x.on = t}}
<1>0. AtHead(t) = [key |-> AtHead(t).key, must |-> AtHead(t).must, may |-> AtHead(t).may,
                   named |-> AtHead(t).named]
  BY AllMade DEF IsMade, Made
<1>1. CASE t = "assistant_settings"
  <2>1. later = {"ai_mode", "schedule_enabled"}
    <3>1. \A c \in LateColumns : c.on = t => c.name \in {"ai_mode", "schedule_enabled"}
      BY <1>1 DEF LateColumns, Part
    <3>2. \A n \in {"ai_mode", "schedule_enabled"} : \E c \in LateColumns : c.on = t /\ c.name = n
      BY <1>1 DEF LateColumns, Part
    <3>. QED  BY <3>1, <3>2
  <2>2. Born(t) = [AtHead(t) EXCEPT !.must = @ \ later]
    BY <1>1, <2>1 DEF Born
  <2>. QED  BY <1>0, <2>2
<1>2. CASE t = "group_guard_settings"
  <2>1. later = {"porn_filter_enabled", "spam_filter_enabled"}
    <3>1. \A c \in LateColumns : c.on = t => c.name \in {"porn_filter_enabled", "spam_filter_enabled"}
      BY <1>2 DEF LateColumns, Part
    <3>2. \A n \in {"porn_filter_enabled", "spam_filter_enabled"} : \E c \in LateColumns : c.on = t /\ c.name = n
      BY <1>2 DEF LateColumns, Part
    <3>. QED  BY <3>1, <3>2
  <2>2. Born(t) = [AtHead(t) EXCEPT !.must = @ \ later]
    BY <1>2, <2>1 DEF Born
  <2>. QED  BY <1>0, <2>2
<1>3. CASE t # "assistant_settings" /\ t # "group_guard_settings"
  <2>1. later = {}
    BY <1>3 DEF LateColumns, Part
  <2>2. Born(t) = AtHead(t)
    BY <1>3 DEF Born
  <2>3. AtHead(t).must \ later = AtHead(t).must
    BY <2>1
  <2>. QED  BY <1>0, <2>2, <2>3
<1>. QED  BY <1>1, <1>2, <1>3

LEMMA ColumnsAtHead ==
    \A c \in LateColumns :
      /\ c.name \in AtHead(c.on).must
      /\ \A d \in LateColumns : c.name = d.name => c = d
<1>1. AtHead("assistant_settings") = AssistantSettings
      /\ AtHead("group_guard_settings") = GroupGuardSettings
  BY DEF AtHead, Models
<1>2. /\ {"ai_mode", "schedule_enabled"} \subseteq AssistantSettings.must
      /\ {"porn_filter_enabled", "spam_filter_enabled"} \subseteq GroupGuardSettings.must
  BY DEF AssistantSettings, GroupGuardSettings, Made
<1>3. \A c \in LateColumns : c.name \in AtHead(c.on).must
  BY <1>1, <1>2 DEF LateColumns, Part
<1>4. \A c, d \in LateColumns : c.name = d.name => c = d
  BY DEF LateColumns, Part
<1>. QED  BY <1>3, <1>4

LEMMA IndexesDiffer == \A x, y \in LooseIndexes : x.name = y.name => x = y
BY DEF LooseIndexes, Part

\* The classes are the tables at head.
LEMMA ClassesAtHead ==
    /\ DOMAIN Models \subseteq TableName
    /\ \A t \in DOMAIN Models : AtHead(t) = Models[t]
<1>1. DOMAIN Models \subseteq TableName
  BY DEF Models, TableName, TableLife
<1>2. "group_polls" \notin DOMAIN Models
  BY DEF Models
<1>. QED  BY <1>1, <1>2 DEF AtHead

-----------------------------------------------------------------------------
(* The steps.                                                              *)

IsPosition(m) ==
    /\ DOMAIN m = {"to", "at", "step", "schema", "filled"}
    /\ m.to \in 0..10 /\ m.at \in 0..10 /\ m.step \in Nat \ {0}
    /\ m.to > m.at => m.step <= Len(Ups[m.at + 1])
    /\ m.to < m.at => m.step <= Len(Downs[m.at])
    /\ m.to = m.at => m.step = 1

\* Where Migrate leaves a transaction.
AfterStep(m) ==
    LET last == m.step = Len(Steps(m))
    IN  [m EXCEPT !.at = IF ~last THEN @ ELSE IF m.to > @ THEN @ + 1 ELSE @ - 1,
                  !.step = IF last THEN 1 ELSE @ + 1]

LEMMA LengthsNat == \A k \in 1..10 : Len(Ups[k]) \in Nat \ {0} /\ Len(Downs[k]) \in Nat \ {0}
<1>1. \A k \in 1..5 : Len(Ups[k]) \in Nat \ {0} /\ Len(Downs[k]) \in Nat \ {0}
  <2>1. \A k \in 1..5 : k = 1 \/ k = 2 \/ k = 3 \/ k = 4 \/ k = 5
    OBVIOUS
  <2>2. /\ Len(Ups[1]) \in Nat \ {0} /\ Len(Downs[1]) \in Nat \ {0}
        /\ Len(Ups[2]) \in Nat \ {0} /\ Len(Downs[2]) \in Nat \ {0}
        /\ Len(Ups[3]) \in Nat \ {0} /\ Len(Downs[3]) \in Nat \ {0}
        /\ Len(Ups[4]) \in Nat \ {0} /\ Len(Downs[4]) \in Nat \ {0}
        /\ Len(Ups[5]) \in Nat \ {0} /\ Len(Downs[5]) \in Nat \ {0}
    BY Lengths
  <2>. QED  BY <2>1, <2>2
<1>2. \A k \in 6..10 : Len(Ups[k]) \in Nat \ {0} /\ Len(Downs[k]) \in Nat \ {0}
  <2>1. \A k \in 6..10 : k = 6 \/ k = 7 \/ k = 8 \/ k = 9 \/ k = 10
    OBVIOUS
  <2>2. /\ Len(Ups[6]) \in Nat \ {0} /\ Len(Downs[6]) \in Nat \ {0}
        /\ Len(Ups[7]) \in Nat \ {0} /\ Len(Downs[7]) \in Nat \ {0}
        /\ Len(Ups[8]) \in Nat \ {0} /\ Len(Downs[8]) \in Nat \ {0}
        /\ Len(Ups[9]) \in Nat \ {0} /\ Len(Downs[9]) \in Nat \ {0}
        /\ Len(Ups[10]) \in Nat \ {0} /\ Len(Downs[10]) \in Nat \ {0}
    BY Lengths
  <2>. QED  BY <2>1, <2>2
<1>3. \A k \in 1..10 : k \in 1..5 \/ k \in 6..10
  OBVIOUS
<1>. QED  BY <1>1, <1>2, <1>3

\* The numbers in a life and in a position.
LEMMA LifeNumbers ==
    ASSUME NEW l, Lives(l)
    PROVE  /\ l.rev \in 1..10 /\ l.rev \in Nat
           /\ l.up \in Nat /\ l.up >= 1 /\ l.up <= Len(Ups[l.rev]) /\ Len(Ups[l.rev]) \in Nat
           /\ l.down \in Nat /\ l.down >= 1 /\ l.down <= Len(Downs[l.rev]) /\ Len(Downs[l.rev]) \in Nat
<1>1. l.rev \in 1..10 /\ l.up \in 1..Len(Ups[l.rev]) /\ l.down \in 1..Len(Downs[l.rev])
  BY DEF Lives
<1>2. Len(Ups[l.rev]) \in Nat /\ Len(Downs[l.rev]) \in Nat
  BY <1>1, LengthsNat
<1>. QED  BY <1>1, <1>2

LEMMA PositionNumbers ==
    ASSUME NEW m, IsPosition(m)
    PROVE  /\ m.to \in Nat /\ m.to <= 10 /\ m.at \in Nat /\ m.at <= 10
           /\ m.step \in Nat /\ m.step >= 1
           /\ m.to > m.at => m.at + 1 \in 1..10 /\ m.step <= Len(Ups[m.at + 1])
           /\ m.to < m.at => m.at \in 1..10 /\ m.step <= Len(Downs[m.at])
BY DEF IsPosition

LEMMA AfterFields ==
    ASSUME NEW m, IsPosition(m), m.at # m.to
    PROVE  /\ IsPosition(AfterStep(m))
           /\ AfterStep(m).to = m.to /\ AfterStep(m).schema = m.schema /\ AfterStep(m).filled = m.filled
           /\ m.to > m.at =>
                IF m.step = Len(Ups[m.at + 1]) THEN AfterStep(m).at = m.at + 1 /\ AfterStep(m).step = 1
                ELSE AfterStep(m).at = m.at /\ AfterStep(m).step = m.step + 1
           /\ m.to < m.at =>
                IF m.step = Len(Downs[m.at]) THEN AfterStep(m).at = m.at - 1 /\ AfterStep(m).step = 1
                ELSE AfterStep(m).at = m.at /\ AfterStep(m).step = m.step + 1
<1>1. /\ DOMAIN AfterStep(m) = DOMAIN m
      /\ AfterStep(m).to = m.to /\ AfterStep(m).schema = m.schema /\ AfterStep(m).filled = m.filled
      /\ AfterStep(m).at = IF m.step # Len(Steps(m)) THEN m.at ELSE IF m.to > m.at THEN m.at + 1
                       ELSE m.at - 1
      /\ AfterStep(m).step = IF m.step = Len(Steps(m)) THEN 1 ELSE m.step + 1
  BY DEF AfterStep, IsPosition
<1>2. CASE m.to > m.at
  <2>1. Steps(m) = Ups[m.at + 1] /\ m.at + 1 \in 1..10
    BY <1>2 DEF Steps, IsPosition
  <2>2. Len(Ups[m.at + 1]) \in Nat \ {0} /\ (m.to > m.at + 1 => Len(Ups[m.at + 2]) \in Nat \ {0})
    <3>1. m.to > m.at + 1 => m.at + 2 \in 1..10
      BY <1>2 DEF IsPosition
    <3>. QED  BY <2>1, <3>1, LengthsNat
  <2>3. /\ AfterStep(m).at = IF m.step = Len(Ups[m.at + 1]) THEN m.at + 1 ELSE m.at
        /\ AfterStep(m).step = IF m.step = Len(Ups[m.at + 1]) THEN 1 ELSE m.step + 1
    BY <1>1, <1>2, <2>1
  <2>4. IsPosition(AfterStep(m))
    <3>1. DOMAIN AfterStep(m) = {"to", "at", "step", "schema", "filled"}
      BY <1>1 DEF IsPosition
    <3>2. /\ m.to \in Nat /\ m.to <= 10 /\ m.at \in Nat /\ m.step \in Nat
          /\ m.step <= Len(Ups[m.at + 1])
      BY <1>2, PositionNumbers
    <3>3. CASE m.step = Len(Ups[m.at + 1])
      <4>1. /\ AfterStep(m).to = m.to /\ AfterStep(m).at = m.at + 1 /\ AfterStep(m).step = 1
        BY <1>1, <2>3, <3>3
      <4>2. m.to > m.at + 1 => Len(Ups[(m.at + 1) + 1]) >= 1
        BY <2>2, <3>2
      <4>3. m.to > m.at + 1 => AfterStep(m).step <= Len(Ups[AfterStep(m).at + 1])
        BY <4>1, <4>2
      <4>4. ~(m.to < m.at + 1) /\ m.at + 1 \in 0..10
        <5>1. m.to \in Nat /\ m.to <= 10 /\ m.at \in Nat
          BY <3>2
        <5>2. m.to >= m.at + 1
          BY <1>2, <5>1
        <5>. QED  BY <5>1, <5>2
      <4>5. ~(AfterStep(m).to < AfterStep(m).at) /\ AfterStep(m).at \in 0..10
        BY <4>1, <4>4
      <4>. QED  BY <3>1, <3>2, <4>1, <4>3, <4>4, <4>5 DEF IsPosition
    <3>4. CASE m.step # Len(Ups[m.at + 1])
      <4>1. AfterStep(m).to = m.to /\ AfterStep(m).at = m.at /\ AfterStep(m).step = m.step + 1
        BY <1>1, <2>3, <3>4
      <4>2. m.step + 1 <= Len(Ups[m.at + 1])
        BY <2>2, <3>2, <3>4
      <4>. QED  BY <1>2, <3>1, <3>2, <4>1, <4>2 DEF IsPosition
    <3>. QED  BY <3>3, <3>4
  <2>5. m.to > m.at /\ ~(m.to < m.at)
    BY <1>2, PositionNumbers
  <2>. QED  BY <1>1, <2>3, <2>4, <2>5
<1>3. CASE m.to < m.at
  <2>1. Steps(m) = Downs[m.at] /\ m.at \in 1..10
    BY <1>3 DEF Steps, IsPosition
  <2>2. Len(Downs[m.at]) \in Nat \ {0} /\ (m.to < m.at - 1 => Len(Downs[m.at - 1]) \in Nat \ {0})
    <3>1. m.to < m.at - 1 => m.at - 1 \in 1..10
      BY <1>3 DEF IsPosition
    <3>. QED  BY <2>1, <3>1, LengthsNat
  <2>3. /\ m.to < m.at /\ ~(m.to > m.at)
        /\ m.to \in Nat /\ m.at \in Nat /\ m.at <= 10 /\ m.step \in Nat
        /\ m.step <= Len(Downs[m.at])
    BY <1>3, PositionNumbers
  <2>4. /\ AfterStep(m).at = IF m.step = Len(Downs[m.at]) THEN m.at - 1 ELSE m.at
        /\ AfterStep(m).step = IF m.step = Len(Downs[m.at]) THEN 1 ELSE m.step + 1
    BY <1>1, <2>1, <2>3
  <2>5. IsPosition(AfterStep(m))
    <3>1. DOMAIN AfterStep(m) = {"to", "at", "step", "schema", "filled"}
      BY <1>1 DEF IsPosition
    <3>2. CASE m.step = Len(Downs[m.at])
      <4>1. AfterStep(m).to = m.to /\ AfterStep(m).at = m.at - 1 /\ AfterStep(m).step = 1
        BY <1>1, <2>4, <3>2
      <4>2. m.to < m.at - 1 => Len(Downs[m.at - 1]) >= 1
        BY <2>2
      <4>. QED  BY <2>3, <3>1, <4>1, <4>2 DEF IsPosition
    <3>3. CASE m.step # Len(Downs[m.at])
      <4>1. AfterStep(m).to = m.to /\ AfterStep(m).at = m.at /\ AfterStep(m).step = m.step + 1
        BY <1>1, <2>4, <3>3
      <4>2. m.step + 1 <= Len(Downs[m.at])
        BY <2>2, <2>3, <3>3
      <4>. QED  BY <2>3, <3>1, <4>1, <4>2 DEF IsPosition
    <3>. QED  BY <3>2, <3>3
  <2>. QED  BY <1>1, <2>3, <2>4, <2>5
<1>. QED  BY <1>2, <1>3, PositionNumbers

\* Going up a step begins the lives that begin there, and no other.
LEMMA UpBegins ==
    ASSUME NEW m, IsPosition(m), m.to > m.at, NEW l, Lives(l)
    PROVE  Here(l, AfterStep(m)) <=> Here(l, m) \/ (l.rev = m.at + 1 /\ l.up = m.step)
<1>1. /\ l.rev \in Nat /\ l.up \in Nat /\ l.up >= 1 /\ l.down \in Nat
      /\ m.to \in Nat /\ m.at \in Nat /\ m.at # m.to /\ m.step \in Nat
  BY LifeNumbers, PositionNumbers
<1>2. Here(l, m) <=> l.rev <= m.at \/ (l.rev = m.at + 1 /\ l.up < m.step)
  BY DEF Here
<1>3. CASE m.step = Len(Ups[m.at + 1])
  <2>1. AfterStep(m).at = m.at + 1 /\ AfterStep(m).step = 1 /\ AfterStep(m).to = m.to
    BY <1>1, <1>3, AfterFields
  <2>2. l.rev = m.at + 1 => l.up <= m.step
    BY <1>3, LifeNumbers
  <2>3. CASE m.to > m.at + 1
    <3>1. Here(l, AfterStep(m)) <=> l.rev <= m.at + 1
      BY <1>1, <2>1, <2>3 DEF Here
    <3>. QED  BY <1>1, <1>2, <2>2, <3>1
  <2>4. CASE m.to = m.at + 1
    <3>1. l.rev = m.at + 1 => l.down >= 1
      BY LifeNumbers
    <3>2. Here(l, AfterStep(m)) <=> l.rev <= m.at + 1
      BY <1>1, <2>1, <2>4, <3>1 DEF Here
    <3>. QED  BY <1>1, <1>2, <2>2, <3>2
  <2>. QED  BY <1>1, <2>3, <2>4
<1>4. CASE m.step # Len(Ups[m.at + 1])
  <2>1. AfterStep(m).at = m.at /\ AfterStep(m).step = m.step + 1 /\ AfterStep(m).to = m.to
    BY <1>1, <1>4, AfterFields
  <2>2. Here(l, AfterStep(m)) <=> l.rev <= m.at \/ (l.rev = m.at + 1 /\ l.up < m.step + 1)
    BY <2>1 DEF Here
  <2>. QED  BY <1>1, <1>2, <2>2
<1>. QED  BY <1>3, <1>4

\* Going down a step ends the lives that end there, and no other.
LEMMA DownEnds ==
    ASSUME NEW m, IsPosition(m), m.to < m.at, NEW l, Lives(l)
    PROVE  Here(l, AfterStep(m)) <=> Here(l, m) /\ ~(l.rev = m.at /\ l.down = m.step)
<1>1. /\ l.rev \in 1..10 /\ l.up \in Nat /\ l.up > 0 /\ l.down \in Nat /\ l.down > 0
      /\ m.at \in Nat /\ m.to \in Nat /\ m.at # m.to /\ m.step \in Nat
  BY LifeNumbers, PositionNumbers
<1>2. CASE m.step = Len(Downs[m.at])
  <2>1. AfterStep(m).at = m.at - 1 /\ AfterStep(m).step = 1 /\ AfterStep(m).to = m.to
    BY <1>1, <1>2, AfterFields
  <2>2. l.rev = m.at => l.down <= m.step
    BY <1>2, LifeNumbers
  <2>3. Here(l, AfterStep(m)) <=> l.rev < m.at
    BY <1>1, <2>1 DEF Here
  <2>4. Here(l, m) <=> l.rev < m.at \/ (l.rev = m.at /\ l.down >= m.step)
    BY <1>1 DEF Here
  <2>5. Here(l, m) /\ ~(l.rev = m.at /\ l.down = m.step) => l.rev < m.at
    BY <1>1, <2>2, <2>4
  <2>. QED  BY <1>1, <2>3, <2>4, <2>5
<1>3. CASE m.step # Len(Downs[m.at])
  <2>1. AfterStep(m).at = m.at /\ AfterStep(m).step = m.step + 1 /\ AfterStep(m).to = m.to
    BY <1>1, <1>3, AfterFields
  <2>2. Here(l, AfterStep(m)) <=> l.rev < m.at \/ (l.rev = m.at /\ l.down >= m.step + 1)
    BY <1>1, <2>1 DEF Here
  <2>3. Here(l, m) <=> l.rev < m.at \/ (l.rev = m.at /\ l.down >= m.step)
    BY <1>1 DEF Here
  <2>. QED  BY <1>1, <2>2, <2>3
<1>. QED  BY <1>2, <1>3

\* Before its first step a transaction finds, and after its last it leaves, the
\* tables of a revision.
LEMMA SettledHere ==
    ASSUME NEW m, m.to \in 0..10, m.at \in 0..10, m.step = 1
    PROVE  TablesAt(m) = TablesAt(Settled(m.at))
<1>1. ASSUME NEW l, Lives(l)
      PROVE  Here(l, m) <=> Here(l, Settled(m.at))
  <2>1. l.rev \in Nat /\ l.up \in Nat /\ l.up >= 1 /\ l.down \in Nat /\ l.down >= 1
    BY <1>1, LifeNumbers
  <2>2. Here(l, Settled(m.at)) <=> l.rev <= m.at
    BY <2>1 DEF Here, Settled
  <2>3. Here(l, m) <=> l.rev <= m.at
    BY <2>1 DEF Here
  <2>. QED  BY <2>2, <2>3
<1>2. \A t \in TableName : Here(TableLife[t], m) <=> Here(TableLife[t], Settled(m.at))
  BY <1>1, LivesOf
<1>3. \A t : /\ Away(LateColumns, t, m) = Away(LateColumns, t, Settled(m.at))
             /\ Away(LooseIndexes, t, m) = Away(LooseIndexes, t, Settled(m.at))
  BY <1>1, LivesOf DEF Away
<1>4. \A t : TableAt(t, m) = TableAt(t, Settled(m.at))
  BY <1>3 DEF TableAt
<1>. QED  BY <1>2, <1>4 DEF TablesAt

\* Steps that are the same name the same things.
LEMMA UpsTell ==
    /\ \A a, b, v, w : Create(a, v) = Create(b, w) => a = b
    /\ \A a, b, v, w : AddFilled(a, v) = AddFilled(b, w) => a = b /\ v = w
    /\ \A a, b, v, w : Create(a, v) # AddFilled(b, w)
<1>1. \A a, b, v, w : Create(a, v) = Create(b, w) => a = b
  BY DEF Create
<1>2. \A a, b, v, w : AddFilled(a, v) = AddFilled(b, w) => a = b /\ v = w
  BY DEF AddFilled
<1>3. \A a, b, v, w : Create(a, v) # AddFilled(b, w)
  BY DEF Create, AddFilled
<1>. QED  BY <1>1, <1>2, <1>3

LEMMA DownsTell ==
    /\ \A a, b : Drop(a) = Drop(b) => a = b
    /\ \A a, b, v, w : DropIndex(a, v) = DropIndex(b, w) => a = b /\ v = w
    /\ \A a, b, v, w : DropColumn(a, v) = DropColumn(b, w) => a = b /\ v = w
    /\ \A a, b, w : Drop(a) # DropIndex(b, w) /\ Drop(a) # DropColumn(b, w)
    /\ \A a, b, v, w : DropIndex(a, v) # DropColumn(b, w)
<1>1. \A a, b : Drop(a) = Drop(b) => a = b
  BY DEF Drop
<1>2. \A a, b, v, w : DropIndex(a, v) = DropIndex(b, w) => a = b /\ v = w
  BY DEF DropIndex
<1>3. \A a, b, v, w : DropColumn(a, v) = DropColumn(b, w) => a = b /\ v = w
  BY DEF DropColumn
<1>4. \A a, b, w : Drop(a) # DropIndex(b, w) /\ Drop(a) # DropColumn(b, w)
  BY DEF Drop, DropIndex, DropColumn
<1>5. \A a, b, v, w : DropIndex(a, v) # DropColumn(b, w)
  BY DEF DropIndex, DropColumn
<1>. QED  BY <1>1, <1>2, <1>3, <1>4, <1>5

\* Two steps that are the same are of the same life.
LEMMA OneBeginning ==
    ASSUME NEW k, NEW i
    PROVE  /\ \A t \in TableName : TableLife[t].rev = k /\ TableLife[t].up = i =>
                Ups[k][i] = Create(t, Born(t))
           /\ \A c \in LateColumns : c.rev = k /\ c.up = i => Ups[k][i] = AddFilled(c.on, c.name)
           /\ \A x \in LooseIndexes : x.rev = k /\ x.up = i => Ups[k][i] = Create(x.on, Born(x.on))
BY AllFiled, ColumnsFiled, IndexesFiled DEF Filed

LEMMA OneEnd ==
    ASSUME NEW k, NEW i
    PROVE  /\ \A t \in TableName : TableLife[t].rev = k /\ TableLife[t].down = i =>
                Downs[k][i] = Drop(t)
           /\ \A c \in LateColumns : c.rev = k /\ c.down = i => Downs[k][i] = DropColumn(c.on, c.name)
           /\ \A x \in LooseIndexes : x.rev = k /\ x.down = i => Downs[k][i] = DropIndex(x.on, x.name)
BY AllFiled, ColumnsFiled, IndexesFiled DEF Filed

\* A table whose parts live on, and no others, is as it was.
LEMMA SameTable ==
    ASSUME NEW t, NEW m, NEW n,
           \A c \in LateColumns : c.on = t => (Here(c, n) <=> Here(c, m)),
           \A x \in LooseIndexes : x.on = t => (Here(x, n) <=> Here(x, m))
    PROVE  TableAt(t, n) = TableAt(t, m)
<1>1. {y \in LateColumns : y.on = t /\ ~Here(y, n)} = {y \in LateColumns : y.on = t /\ ~Here(y, m)}
  OBVIOUS
<1>2. {y \in LooseIndexes : y.on = t /\ ~Here(y, n)} = {y \in LooseIndexes : y.on = t /\ ~Here(y, m)}
  OBVIOUS
<1>. QED  BY <1>1, <1>2 DEF TableAt, Away

MakesStep(m) == /\ Possible(Steps(m)[m.step])
            /\ Taken(Steps(m)[m.step], schema) = TablesAt(AfterStep(m))

LEMMA CreateStep ==
    ASSUME NEW m, IsPosition(m), m.to > m.at, schema = TablesAt(m),
           NEW t \in TableName, TableLife[t].rev = m.at + 1, TableLife[t].up = m.step
    PROVE  MakesStep(m)
<1>. DEFINE s == Steps(m)[m.step]
<1>0. Steps(m) = Ups[m.at + 1]
  BY DEF Steps
<1>1. s = Create(t, Born(t))
  BY <1>0, OneBeginning
<1>b. /\ \A u \in TableName : TableLife[u].rev = m.at + 1 /\ TableLife[u].up = m.step => s = Create(u, Born(u))
      /\ \A c \in LateColumns : c.rev = m.at + 1 /\ c.up = m.step => s = AddFilled(c.on, c.name)
      /\ \A x \in LooseIndexes : x.rev = m.at + 1 /\ x.up = m.step => s = Create(x.on, Born(x.on))
  BY <1>0, OneBeginning
<1>2. ~Here(TableLife[t], m)
  BY DEF Here, IsPosition
<1>3. \A u \in TableName : Here(TableLife[u], AfterStep(m)) <=> Here(TableLife[u], m) \/ u = t
  <2>1. \A u \in TableName : TableLife[u].rev = m.at + 1 /\ TableLife[u].up = m.step => u = t
    BY <1>1, <1>b, UpsTell
  <2>. QED  BY <2>1, UpBegins, LivesOf
<1>4. \A c \in LateColumns : Here(c, AfterStep(m)) <=> Here(c, m)
  <2>1. \A c \in LateColumns : ~(c.rev = m.at + 1 /\ c.up = m.step)
    BY <1>1, <1>b, UpsTell
  <2>. QED  BY <2>1, UpBegins, LivesOf
<1>5. \A x \in LooseIndexes : Here(x, AfterStep(m)) <=> Here(x, m) \/ x.on = t
  <2>1. \A x \in LooseIndexes : x.rev = m.at + 1 /\ x.up = m.step <=> x.on = t
    BY <1>1, <1>b, UpsTell, IndexesFiled
  <2>. QED  BY <2>1, UpBegins, LivesOf
<1>6. \A u \in TableName : u # t => TableAt(u, AfterStep(m)) = TableAt(u, m)
  <2>. SUFFICES ASSUME NEW u \in TableName, u # t  PROVE TableAt(u, AfterStep(m)) = TableAt(u, m)
    OBVIOUS
  <2>. QED  BY <1>4, <1>5, SameTable
<1>7. TableAt(t, AfterStep(m)) = Born(t)
  <2>1. \A c \in LateColumns : c.on = t => ~Here(c, AfterStep(m))
    <3>1. \A c \in LateColumns : c.on = t => c.rev > m.at + 1 /\ c.rev \in 1..10
      BY ColumnsFiled DEF Lives
    <3>2. \A c \in LateColumns : c.on = t => ~Here(c, m)
      BY <3>1 DEF Here, IsPosition
    <3>. QED  BY <3>2, <1>4
  <2>2. {y \in LateColumns : y.on = t /\ ~Here(y, AfterStep(m))} = {y \in LateColumns : y.on = t}
    BY <2>1
  <2>3. Away(LooseIndexes, t, AfterStep(m)) = {}
    BY <1>5 DEF Away
  <2>4. AtHead(t).named \ Away(LooseIndexes, t, AfterStep(m)) = AtHead(t).named
    BY <2>3
  <2>. QED  BY <2>2, <2>4, BornWithout DEF TableAt, Away
<1>8. Possible(s)
  BY <1>1, <1>2 DEF Possible, Create, TablesAt
<1>9. Taken(s, schema) = TablesAt(AfterStep(m))
  <2>1. Taken(s, schema) = [u \in DOMAIN schema \cup {t} |-> IF u = t THEN Born(t) ELSE schema[u]]
    BY <1>1 DEF Taken, Create
  <2>2. DOMAIN schema \cup {t} = {u \in TableName : Here(TableLife[u], AfterStep(m))}
    BY <1>3 DEF TablesAt
  <2>3. \A u \in DOMAIN schema \cup {t} :
          (IF u = t THEN Born(t) ELSE schema[u]) = TableAt(u, AfterStep(m))
    BY <1>6, <1>7 DEF TablesAt
  <2>. QED  BY <2>1, <2>2, <2>3 DEF TablesAt
<1>. QED  BY <1>8, <1>9 DEF MakesStep

LEMMA AddStep ==
    ASSUME NEW m, IsPosition(m), m.to > m.at, schema = TablesAt(m),
           NEW c \in LateColumns, c.rev = m.at + 1, c.up = m.step
    PROVE  MakesStep(m)
<1>. DEFINE s == Steps(m)[m.step]
            t == c.on
<1>0. Steps(m) = Ups[m.at + 1]
  BY DEF Steps
<1>1. s = AddFilled(t, c.name)
  BY <1>0, OneBeginning
<1>b. /\ \A u \in TableName : TableLife[u].rev = m.at + 1 /\ TableLife[u].up = m.step => s = Create(u, Born(u))
      /\ \A d \in LateColumns : d.rev = m.at + 1 /\ d.up = m.step => s = AddFilled(d.on, d.name)
      /\ \A x \in LooseIndexes : x.rev = m.at + 1 /\ x.up = m.step => s = Create(x.on, Born(x.on))
  BY <1>0, OneBeginning
<1>2. t \in TableName /\ Here(TableLife[t], m) /\ ~Here(c, m)
  <2>1. t \in TableName /\ TableLife[t].rev < m.at + 1 /\ TableLife[t].rev \in 1..10
    BY ColumnsFiled, LivesOf DEF Lives
  <2>2. m.at \in Nat /\ m.step \in Nat
    BY PositionNumbers
  <2>3. Here(TableLife[t], m)
    BY <2>1, <2>2 DEF Here
  <2>4. ~Here(c, m)
    BY <2>2 DEF Here
  <2>. QED  BY <2>1, <2>3, <2>4
<1>3. \A u \in TableName : Here(TableLife[u], AfterStep(m)) <=> Here(TableLife[u], m)
  <2>1. \A u \in TableName : ~(TableLife[u].rev = m.at + 1 /\ TableLife[u].up = m.step)
    BY <1>1, <1>b, UpsTell
  <2>. QED  BY <2>1, UpBegins, LivesOf
<1>4. \A d \in LateColumns : Here(d, AfterStep(m)) <=> Here(d, m) \/ d = c
  <2>1. \A d \in LateColumns : d.rev = m.at + 1 /\ d.up = m.step => d = c
    BY <1>1, <1>b, UpsTell, ColumnsAtHead
  <2>. QED  BY <2>1, UpBegins, LivesOf
<1>5. \A x \in LooseIndexes : Here(x, AfterStep(m)) <=> Here(x, m)
  <2>1. \A x \in LooseIndexes : ~(x.rev = m.at + 1 /\ x.up = m.step)
    BY <1>1, <1>b, UpsTell
  <2>. QED  BY <2>1, UpBegins, LivesOf
<1>6. \A u \in TableName : u # t => TableAt(u, AfterStep(m)) = TableAt(u, m)
  <2>. SUFFICES ASSUME NEW u \in TableName, u # t  PROVE TableAt(u, AfterStep(m)) = TableAt(u, m)
    OBVIOUS
  <2>. QED  BY <1>4, <1>5, SameTable
<1>7. /\ c.name \notin TableAt(t, m).must
      /\ TableAt(t, AfterStep(m)).must = TableAt(t, m).must \cup {c.name}
  <2>1. c.name \in Away(LateColumns, t, m)
    BY <1>2 DEF Away
  <2>2. \A a : a \in Away(LateColumns, t, AfterStep(m)) <=> a \in Away(LateColumns, t, m) /\ a # c.name
    BY <1>4, ColumnsAtHead DEF Away
  <2>. QED  BY <2>1, <2>2, ColumnsAtHead DEF TableAt
<1>8. TableAt(t, AfterStep(m)) = [TableAt(t, m) EXCEPT !.must = @ \cup {c.name}]
  <2>1. Away(LooseIndexes, t, AfterStep(m)) = Away(LooseIndexes, t, m)
    BY <1>5 DEF Away
  <2>2. /\ TableAt(t, m).key = TableAt(t, AfterStep(m)).key /\ TableAt(t, m).may = TableAt(t, AfterStep(m)).may
        /\ TableAt(t, m).named = TableAt(t, AfterStep(m)).named
    BY <2>1 DEF TableAt
  <2>. QED  BY <2>2, <1>7 DEF TableAt
<1>9. t \in DOMAIN schema /\ schema[t] = TableAt(t, m)
  BY <1>2 DEF TablesAt
<1>10. Possible(s)
  BY <1>1, <1>7, <1>9 DEF Possible, AddFilled
<1>11. Taken(s, schema) = TablesAt(AfterStep(m))
  <2>1. Taken(s, schema) = [schema EXCEPT ![t].must = @ \cup {c.name}]
    BY <1>1 DEF Taken, AddFilled
  <2>2. DOMAIN schema = {u \in TableName : Here(TableLife[u], AfterStep(m))}
    BY <1>3 DEF TablesAt
  <2>3. \A u \in DOMAIN schema : [schema EXCEPT ![t].must = @ \cup {c.name}][u] = TableAt(u, AfterStep(m))
    BY <1>6, <1>8, <1>9 DEF TablesAt
  <2>. QED  BY <2>1, <2>2, <2>3 DEF TablesAt
<1>. QED  BY <1>10, <1>11 DEF MakesStep

LEMMA DropStep ==
    ASSUME NEW m, IsPosition(m), m.to < m.at, schema = TablesAt(m),
           NEW t \in TableName, TableLife[t].rev = m.at, TableLife[t].down = m.step
    PROVE  MakesStep(m)
<1>. DEFINE s == Steps(m)[m.step]
<1>0. Steps(m) = Downs[m.at]
  BY DEF Steps, IsPosition
<1>1. s = Drop(t)
  BY <1>0, OneEnd
<1>b. /\ \A u \in TableName : TableLife[u].rev = m.at /\ TableLife[u].down = m.step => s = Drop(u)
      /\ \A d \in LateColumns : d.rev = m.at /\ d.down = m.step => s = DropColumn(d.on, d.name)
      /\ \A y \in LooseIndexes : y.rev = m.at /\ y.down = m.step => s = DropIndex(y.on, y.name)
  BY <1>0, OneEnd
<1>2. Here(TableLife[t], m)
  BY DEF Here, IsPosition
<1>3. \A u \in TableName : Here(TableLife[u], AfterStep(m)) <=> Here(TableLife[u], m) /\ u # t
  <2>1. \A u \in TableName : TableLife[u].rev = m.at /\ TableLife[u].down = m.step <=> u = t
    BY <1>1, <1>b, DownsTell
  <2>. QED  BY <2>1, DownEnds, LivesOf
<1>4. \A d \in LateColumns : Here(d, AfterStep(m)) <=> Here(d, m)
  <2>1. \A d \in LateColumns : ~(d.rev = m.at /\ d.down = m.step)
    BY <1>1, <1>b, DownsTell
  <2>. QED  BY <2>1, DownEnds, LivesOf
<1>5. \A y \in LooseIndexes : Here(y, AfterStep(m)) <=> Here(y, m)
  <2>1. \A y \in LooseIndexes : ~(y.rev = m.at /\ y.down = m.step)
    BY <1>1, <1>b, DownsTell
  <2>. QED  BY <2>1, DownEnds, LivesOf
<1>6. \A u \in TableName : TableAt(u, AfterStep(m)) = TableAt(u, m)
  <2>. SUFFICES ASSUME NEW u \in TableName  PROVE TableAt(u, AfterStep(m)) = TableAt(u, m)
    OBVIOUS
  <2>. QED  BY <1>4, <1>5, SameTable
<1>7. Possible(s)
  BY <1>1, <1>2 DEF Possible, Drop, TablesAt
<1>8. Taken(s, schema) = TablesAt(AfterStep(m))
  <2>1. Taken(s, schema) = [u \in DOMAIN schema \ {t} |-> schema[u]]
    <3>1. Taken(s, schema) = Restrict(schema, DOMAIN schema \ {t})
      BY <1>1 DEF Taken, Drop
    <3>. QED  BY <3>1 DEF Restrict
  <2>2. DOMAIN schema \ {t} = {u \in TableName : Here(TableLife[u], AfterStep(m))}
    BY <1>3 DEF TablesAt
  <2>3. \A u \in DOMAIN schema \ {t} : schema[u] = TableAt(u, AfterStep(m))
    BY <1>6 DEF TablesAt
  <2>. QED  BY <2>1, <2>2, <2>3 DEF TablesAt
<1>. QED  BY <1>7, <1>8 DEF MakesStep

LEMMA UnindexStep ==
    ASSUME NEW m, IsPosition(m), m.to < m.at, schema = TablesAt(m),
           NEW x \in LooseIndexes, x.rev = m.at, x.down = m.step
    PROVE  MakesStep(m)
<1>. DEFINE s == Steps(m)[m.step]
            t == x.on
<1>0. Steps(m) = Downs[m.at]
  BY DEF Steps, IsPosition
<1>1. s = DropIndex(t, x.name)
  BY <1>0, OneEnd
<1>b. /\ \A u \in TableName : TableLife[u].rev = m.at /\ TableLife[u].down = m.step => s = Drop(u)
      /\ \A d \in LateColumns : d.rev = m.at /\ d.down = m.step => s = DropColumn(d.on, d.name)
      /\ \A y \in LooseIndexes : y.rev = m.at /\ y.down = m.step => s = DropIndex(y.on, y.name)
  BY <1>0, OneEnd
<1>2. t \in TableName /\ Here(TableLife[t], m) /\ Here(x, m)
  <2>1. /\ t \in TableName /\ TableLife[t].rev = m.at /\ TableLife[t].down >= m.step
    BY IndexesFiled
  <2>2. Here(TableLife[t], m)
    BY <2>1 DEF Here, IsPosition
  <2>3. Here(x, m)
    BY DEF Here, IsPosition
  <2>. QED  BY <2>1, <2>2, <2>3
<1>3. \A u \in TableName : Here(TableLife[u], AfterStep(m)) <=> Here(TableLife[u], m)
  <2>1. \A u \in TableName : ~(TableLife[u].rev = m.at /\ TableLife[u].down = m.step)
    BY <1>1, <1>b, DownsTell
  <2>. QED  BY <2>1, DownEnds, LivesOf
<1>4. \A y \in LooseIndexes : Here(y, AfterStep(m)) <=> Here(y, m) /\ y # x
  <2>1. \A y \in LooseIndexes : y.rev = m.at /\ y.down = m.step <=> y = x
    BY <1>1, <1>b, DownsTell, IndexesDiffer
  <2>. QED  BY <2>1, DownEnds, LivesOf
<1>5. \A d \in LateColumns : Here(d, AfterStep(m)) <=> Here(d, m)
  <2>1. \A d \in LateColumns : ~(d.rev = m.at /\ d.down = m.step)
    BY <1>1, <1>b, DownsTell
  <2>. QED  BY <2>1, DownEnds, LivesOf
<1>6. \A u \in TableName : u # t => TableAt(u, AfterStep(m)) = TableAt(u, m)
  <2>. SUFFICES ASSUME NEW u \in TableName, u # t  PROVE TableAt(u, AfterStep(m)) = TableAt(u, m)
    OBVIOUS
  <2>. QED  BY <1>4, <1>5, SameTable
<1>7. /\ x.name \in TableAt(t, m).named
      /\ TableAt(t, AfterStep(m)).named = TableAt(t, m).named \ {x.name}
  <2>1. x.name \notin Away(LooseIndexes, t, m)
    BY <1>2, IndexesDiffer DEF Away
  <2>2. \A a : a \in Away(LooseIndexes, t, AfterStep(m)) <=> a \in Away(LooseIndexes, t, m) \/ a = x.name
    BY <1>4, IndexesDiffer DEF Away
  <2>. QED  BY <2>1, <2>2, IndexesDiffer, IndexesFiled DEF TableAt
<1>8. TableAt(t, AfterStep(m)) = [TableAt(t, m) EXCEPT !.named = @ \ {x.name}]
  <2>1. Away(LateColumns, t, AfterStep(m)) = Away(LateColumns, t, m)
    BY <1>5 DEF Away
  <2>2. /\ TableAt(t, m).key = TableAt(t, AfterStep(m)).key /\ TableAt(t, m).may = TableAt(t, AfterStep(m)).may
        /\ TableAt(t, m).must = TableAt(t, AfterStep(m)).must
    BY <2>1 DEF TableAt
  <2>. QED  BY <2>2, <1>7 DEF TableAt
<1>9. t \in DOMAIN schema /\ schema[t] = TableAt(t, m)
  BY <1>2 DEF TablesAt
<1>10. Possible(s)
  BY <1>1, <1>7, <1>9 DEF Possible, DropIndex
<1>11. Taken(s, schema) = TablesAt(AfterStep(m))
  <2>1. Taken(s, schema) = [schema EXCEPT ![t].named = @ \ {x.name}]
    BY <1>1 DEF Taken, DropIndex
  <2>2. DOMAIN schema = {u \in TableName : Here(TableLife[u], AfterStep(m))}
    BY <1>3 DEF TablesAt
  <2>3. \A u \in DOMAIN schema : [schema EXCEPT ![t].named = @ \ {x.name}][u] = TableAt(u, AfterStep(m))
    BY <1>6, <1>8, <1>9 DEF TablesAt
  <2>. QED  BY <2>1, <2>2, <2>3 DEF TablesAt
<1>. QED  BY <1>10, <1>11 DEF MakesStep

LEMMA SubtractStep ==
    ASSUME NEW m, IsPosition(m), m.to < m.at, schema = TablesAt(m),
           NEW c \in LateColumns, c.rev = m.at, c.down = m.step
    PROVE  MakesStep(m)
<1>. DEFINE s == Steps(m)[m.step]
            t == c.on
<1>0. Steps(m) = Downs[m.at]
  BY DEF Steps, IsPosition
<1>1. s = DropColumn(t, c.name)
  BY <1>0, OneEnd
<1>b. /\ \A u \in TableName : TableLife[u].rev = m.at /\ TableLife[u].down = m.step => s = Drop(u)
      /\ \A d \in LateColumns : d.rev = m.at /\ d.down = m.step => s = DropColumn(d.on, d.name)
      /\ \A y \in LooseIndexes : y.rev = m.at /\ y.down = m.step => s = DropIndex(y.on, y.name)
  BY <1>0, OneEnd
<1>2. t \in TableName /\ Here(TableLife[t], m) /\ Here(c, m)
  <2>1. t \in TableName /\ TableLife[t].rev < m.at /\ TableLife[t].rev \in 1..10
    BY ColumnsFiled, LivesOf DEF Lives
  <2>2. Here(TableLife[t], m)
    BY <2>1 DEF Here, IsPosition
  <2>3. Here(c, m)
    BY DEF Here, IsPosition
  <2>. QED  BY <2>1, <2>2, <2>3
<1>3. \A u \in TableName : Here(TableLife[u], AfterStep(m)) <=> Here(TableLife[u], m)
  <2>1. \A u \in TableName : ~(TableLife[u].rev = m.at /\ TableLife[u].down = m.step)
    BY <1>1, <1>b, DownsTell
  <2>. QED  BY <2>1, DownEnds, LivesOf
<1>4. \A d \in LateColumns : Here(d, AfterStep(m)) <=> Here(d, m) /\ d # c
  <2>1. \A d \in LateColumns : d.rev = m.at /\ d.down = m.step <=> d = c
    BY <1>1, <1>b, DownsTell, ColumnsAtHead
  <2>. QED  BY <2>1, DownEnds, LivesOf
<1>5. \A y \in LooseIndexes : Here(y, AfterStep(m)) <=> Here(y, m)
  <2>1. \A y \in LooseIndexes : ~(y.rev = m.at /\ y.down = m.step)
    BY <1>1, <1>b, DownsTell
  <2>. QED  BY <2>1, DownEnds, LivesOf
<1>6. \A u \in TableName : u # t => TableAt(u, AfterStep(m)) = TableAt(u, m)
  <2>. SUFFICES ASSUME NEW u \in TableName, u # t  PROVE TableAt(u, AfterStep(m)) = TableAt(u, m)
    OBVIOUS
  <2>. QED  BY <1>4, <1>5, SameTable
<1>7. /\ c.name \in TableAt(t, m).must
      /\ TableAt(t, AfterStep(m)).must = TableAt(t, m).must \ {c.name}
  <2>1. c.name \notin Away(LateColumns, t, m)
    BY <1>2, ColumnsAtHead DEF Away
  <2>2. \A a : a \in Away(LateColumns, t, AfterStep(m)) <=> a \in Away(LateColumns, t, m) \/ a = c.name
    BY <1>4, ColumnsAtHead DEF Away
  <2>. QED  BY <2>1, <2>2, ColumnsAtHead, IndexesFiled DEF TableAt
<1>8. TableAt(t, AfterStep(m)) = [TableAt(t, m) EXCEPT !.must = @ \ {c.name}]
  <2>1. Away(LooseIndexes, t, AfterStep(m)) = Away(LooseIndexes, t, m)
    BY <1>5 DEF Away
  <2>2. /\ TableAt(t, m).key = TableAt(t, AfterStep(m)).key /\ TableAt(t, m).may = TableAt(t, AfterStep(m)).may
        /\ TableAt(t, m).named = TableAt(t, AfterStep(m)).named
    BY <2>1 DEF TableAt
  <2>. QED  BY <2>2, <1>7 DEF TableAt
<1>9. t \in DOMAIN schema /\ schema[t] = TableAt(t, m)
  BY <1>2 DEF TablesAt
<1>10. Possible(s)
  BY <1>1, <1>7, <1>9 DEF Possible, DropColumn
<1>11. Taken(s, schema) = TablesAt(AfterStep(m))
  <2>1. Taken(s, schema) = [schema EXCEPT ![t].must = @ \ {c.name}]
    BY <1>1 DEF Taken, DropColumn
  <2>2. DOMAIN schema = {u \in TableName : Here(TableLife[u], AfterStep(m))}
    BY <1>3 DEF TablesAt
  <2>3. \A u \in DOMAIN schema : [schema EXCEPT ![t].must = @ \ {c.name}][u] = TableAt(u, AfterStep(m))
    BY <1>6, <1>8, <1>9 DEF TablesAt
  <2>. QED  BY <2>1, <2>2, <2>3 DEF TablesAt
<1>. QED  BY <1>10, <1>11 DEF MakesStep

\* Every step of a transaction can be taken, and leaves the tables of the next.
LEMMA StepsMake ==
    ASSUME NEW m, IsPosition(m), m.at # m.to, schema = TablesAt(m)
    PROVE  MakesStep(m)
<1>1. CASE m.to > m.at
  <2>1. m.at + 1 \in 1..10 /\ m.step \in 1..Len(Ups[m.at + 1])
    <3>1. m.at + 1 \in 1..10
      BY <1>1 DEF IsPosition
    <3>. QED  BY <1>1, <3>1, LengthsNat DEF IsPosition
  <2>2. Opens(m.at + 1, m.step)
    BY <2>1, UpSteps
  <2>. QED  BY <1>1, <2>2, CreateStep, AddStep DEF Opens
<1>2. CASE m.to < m.at
  <2>1. m.at \in 1..10 /\ m.step \in 1..Len(Downs[m.at])
    <3>1. m.at \in 1..10
      BY <1>2 DEF IsPosition
    <3>. QED  BY <1>2, <3>1, LengthsNat DEF IsPosition
  <2>2. Closes(m.at, m.step)
    BY <2>1, DownSteps
  <2>. QED  BY <1>2, <2>2, DropStep, UnindexStep, SubtractStep DEF Closes
<1>. QED  BY <1>1, <1>2 DEF IsPosition

-----------------------------------------------------------------------------
(* The invariant.                                                          *)

\* No transaction: the tables are those of the revision.
AtRevision == schema = TablesAt(Settled(revision))

\* A transaction: the tables are those of its step, and what it would go back to
\* is what it found.
InTransaction(m) ==
    /\ IsPosition(m) /\ ~serving
    /\ schema = TablesAt(m)
    /\ m.schema = TablesAt(Settled(revision)) /\ m.filled \subseteq DOMAIN m.schema

SchemaInv ==
    /\ revision \in 0..10 /\ ~raised /\ filled \subseteq DOMAIN schema
    /\ serving => revision = 10
    /\ \/ migrating = <<>> /\ AtRevision
       \/ \E m : migrating = <<m>> /\ InTransaction(m)

LEMMA RangeOfOne == Range(<<>>) = {} /\ \A m : Range(<<m>>) = {m}
<1>1. Range(<<>>) = {}
  BY DEF Range
<1>2. \A m : Range(<<m>>) = {m}
  BY DEF Range
<1>. QED  BY <1>1, <1>2

LEMMA SchemaInitInv == EnvInit /\ SchemaInit => SchemaInv
<1>. SUFFICES ASSUME SchemaInit  PROVE SchemaInv
  OBVIOUS
<1>1. \A l : Lives(l) => ~Here(l, Settled(0))
  BY DEF Lives, Here, Settled
<1>2. {u \in TableName : Here(TableLife[u], Settled(0))} = {}
  BY <1>1, LivesOf
<1>3. TablesAt(Settled(0)) = NoTables
  BY <1>2 DEF TablesAt, NoTables
<1>. QED  BY <1>3 DEF SchemaInit, SchemaInv, AtRevision

\* Where a transaction begins.
LEMMA BeganUnderway ==
    ASSUME SchemaInv, migrating = <<>>, ~serving, NEW to \in 0..10, Began(to),
           UNCHANGED <<schema, revision, filled, serving, raised>>
    PROVE  SchemaInv'
<1>1. PICK m : m = [to |-> to, at |-> revision, step |-> 1, schema |-> schema, filled |-> filled]
  OBVIOUS
<1>b. migrating' = <<m>>
  BY <1>1 DEF Began
<1>2. revision \in 0..10 /\ schema = TablesAt(Settled(revision)) /\ filled \subseteq DOMAIN schema
  BY DEF SchemaInv, AtRevision
<1>3. IsPosition(m)
  <2>1. to > revision => revision + 1 \in 1..10
    BY <1>2
  <2>2. to < revision => revision \in 1..10
    BY <1>2
  <2>3. \A k \in 1..10 : 1 <= Len(Ups[k]) /\ 1 <= Len(Downs[k])
    <3>1. \A n \in Nat \ {0} : 1 <= n
      OBVIOUS
    <3>. QED  BY <3>1, LengthsNat
  <2>4. /\ DOMAIN m = {"to", "at", "step", "schema", "filled"}
        /\ m.to = to /\ m.at = revision /\ m.step = 1
    BY <1>1
  <2>5. m.to > m.at => m.step <= Len(Ups[m.at + 1])
    BY <2>1, <2>3, <2>4
  <2>6. m.to < m.at => m.step <= Len(Downs[m.at])
    BY <2>2, <2>3, <2>4
  <2>. QED  BY <1>2, <2>4, <2>5, <2>6 DEF IsPosition
<1>4. schema = TablesAt(m)
  <2>1. m.to \in 0..10 /\ m.at \in 0..10 /\ m.step = 1 /\ m.at = revision
    BY <1>1, <1>2
  <2>. QED  BY <1>2, <2>1, SettledHere
<1>5. m.schema = TablesAt(Settled(revision)) /\ m.filled \subseteq DOMAIN m.schema
  BY <1>1, <1>2
<1>6. InTransaction(m)'
  BY <1>3, <1>4, <1>5 DEF InTransaction
<1>. QED  BY <1>b, <1>2, <1>6 DEF SchemaInv

LEMMA MigrateKeeps == ASSUME SchemaInv, Migrate  PROVE SchemaInv'
<1>1. PICK m \in Range(migrating) :
        /\ m.at # m.to
        /\ LET s == Steps(m)[m.step]
           IN  IF Possible(s)
               THEN /\ schema' = Taken(s, schema)
                    /\ filled' = filled \cap DOMAIN schema'
                    /\ migrating' = <<AfterStep(m)>>
                    /\ UNCHANGED raised
               ELSE /\ schema' = m.schema /\ filled' = m.filled /\ migrating' = <<>>
                    /\ raised' = TRUE
        /\ Calm /\ UNCHANGED <<revision, serving>>
  BY DEF Migrate, AfterStep
<1>2. InTransaction(m)
  BY RangeOfOne DEF SchemaInv
<1>3. MakesStep(m)
  BY <1>1, <1>2, StepsMake DEF InTransaction
<1>4. /\ schema' = TablesAt(AfterStep(m)) /\ filled' = filled \cap DOMAIN schema'
      /\ migrating' = <<AfterStep(m)>> /\ UNCHANGED <<raised, revision, serving>>
  BY <1>1, <1>3 DEF MakesStep
<1>5. IsPosition(AfterStep(m)) /\ AfterStep(m).schema = m.schema /\ AfterStep(m).filled = m.filled
  BY <1>1, <1>2, AfterFields DEF InTransaction
<1>6. InTransaction(AfterStep(m))'
  BY <1>2, <1>4, <1>5 DEF InTransaction
<1>. QED  BY <1>4, <1>6 DEF SchemaInv

LEMMA CommitKeeps == ASSUME SchemaInv, Commit  PROVE SchemaInv'
<1>1. PICK m \in Range(migrating) :
        /\ m.at = m.to /\ revision' = m.to /\ migrating' = <<>> /\ serving' = (m.to = Head10)
        /\ UNCHANGED <<schema, filled, raised>>
  BY DEF Commit
<1>2. InTransaction(m)
  BY RangeOfOne DEF SchemaInv
<1>3. schema = TablesAt(Settled(m.to))
  BY <1>1, <1>2, SettledHere DEF InTransaction, IsPosition
<1>4. AtRevision'
  BY <1>1, <1>3 DEF AtRevision
<1>. QED  BY <1>1, <1>2, <1>4, UpLists DEF SchemaInv, InTransaction, IsPosition

LEMMA DiesKeeps == ASSUME SchemaInv, MigrationDies  PROVE SchemaInv'
<1>1. PICK m \in Range(migrating) :
        /\ schema' = m.schema /\ filled' = m.filled /\ migrating' = <<>>
        /\ UNCHANGED <<revision, serving, raised>>
  BY DEF MigrationDies
<1>2. InTransaction(m)
  BY RangeOfOne DEF SchemaInv
<1>. QED  BY <1>1, <1>2 DEF SchemaInv, AtRevision, InTransaction

LEMMA SchemaStepInv == SchemaInv /\ [SchemaNext]_<<envVars, schemaVars>> => SchemaInv'
<1>. SUFFICES ASSUME SchemaInv, [SchemaNext]_<<envVars, schemaVars>>  PROVE SchemaInv'
  OBVIOUS
<1>1. ASSUME StartUpgrade  PROVE SchemaInv'
  BY <1>1, BeganUnderway, UpLists DEF StartUpgrade
<1>2. ASSUME NEW r \in 0..Head10, StartDowngrade(r)  PROVE SchemaInv'
  BY <1>2, BeganUnderway, UpLists DEF StartDowngrade
<1>3. CASE Migrate
  BY <1>3, MigrateKeeps
<1>4. CASE Commit
  BY <1>4, CommitKeeps
<1>5. CASE MigrationDies
  BY <1>5, DiesKeeps
<1>6. ASSUME NEW t \in DOMAIN schema, Fills(t)  PROVE SchemaInv'
  BY <1>6 DEF Fills, SchemaInv, AtRevision, InTransaction
<1>7. CASE Ends
  BY <1>7 DEF Ends, SchemaInv, AtRevision, InTransaction
<1>8. CASE UNCHANGED <<envVars, schemaVars>>
  BY <1>8 DEF schemaVars, SchemaInv, AtRevision, InTransaction
<1>. QED  BY <1>1, <1>2, <1>3, <1>4, <1>5, <1>6, <1>7, <1>8 DEF SchemaNext

\* At head every table is as its class describes it.
LEMMA HeadServes ==
    \A t \in DOMAIN Models : t \in DOMAIN TablesAt(Settled(10)) /\ TablesAt(Settled(10))[t] = Models[t]
<1>1. \A l : Lives(l) => Here(l, Settled(10))
  <2>. SUFFICES ASSUME NEW l, Lives(l)  PROVE Here(l, Settled(10))
    OBVIOUS
  <2>1. Len(Downs[l.rev]) \in Nat
    BY LengthsNat DEF Lives
  <2>. QED  BY <2>1 DEF Lives, Here, Settled
<1>2. \A t : Away(LateColumns, t, Settled(10)) = {} /\ Away(LooseIndexes, t, Settled(10)) = {}
  BY <1>1, LivesOf DEF Away
<1>3. \A t \in TableName : TableAt(t, Settled(10)) = AtHead(t)
  <2>. SUFFICES ASSUME NEW t \in TableName  PROVE TableAt(t, Settled(10)) = AtHead(t)
    OBVIOUS
  <2>1. /\ AtHead(t).must \ Away(LateColumns, t, Settled(10)) = AtHead(t).must
        /\ AtHead(t).named \ Away(LooseIndexes, t, Settled(10)) = AtHead(t).named
    BY <1>2
  <2>. QED  BY <2>1, AllMade DEF TableAt, IsMade, Made
<1>. QED  BY <1>1, <1>3, LivesOf, ClassesAtHead DEF TablesAt

\* While main.py runs every class finds its table, whatever was migrated, taken
\* back, lost half-way or written before; and no step of a migration raises.
THEOREM SchemaServesAll == SchemaSpec => []SchemaServes
<1>1. SchemaInv => SchemaServes
  <2>. SUFFICES ASSUME SchemaInv  PROVE SchemaServes
    OBVIOUS
  <2>1. serving => schema = TablesAt(Settled(10))
    BY DEF SchemaInv, AtRevision, InTransaction
  <2>. QED  BY <2>1, HeadServes DEF SchemaInv, SchemaServes
<1>. QED  BY <1>1, SchemaInitInv, SchemaStepInv, PTL DEF SchemaSpec

===============================================================================
