-------------------------------- MODULE Schema ---------------------------------
(***************************************************************************)
(* The database's schema: the ten migrations (migrations/versions), run by *)
(* "alembic upgrade head" before every start of the bot, in one transaction*)
(* however many they are, and taken back by "alembic downgrade"; and the   *)
(* tables the code of the bot is written for (bot/db/models.py,            *)
(* models_ext.py), which nothing in the repository compares with them.     *)
(*                                                                         *)
(* A table is its primary key, the other columns that must have a value    *)
(* and those that may, and the names of its constraints and indexes.  The  *)
(* types of the columns are left out.                                      *)
(***************************************************************************)
EXTENDS Environment, Functions

VARIABLES
    schema,     \* the tables: name -> table
    revision,   \* alembic_version: 0..10
    migrating,  \* the transaction: its target, its next step, what it began from
    filled,     \* tables that hold rows
    serving,    \* main.py runs
    \* -- history, read by properties only
    raised      \* a step of a migration that met a schema it cannot be taken on

schemaVars == <<schema, revision, migrating, filled, serving, raised>>

Made(key, must, may, named) == [key |-> key, must |-> must, may |-> may, named |-> named]

\* The steps of a migration.
Create(t, made)         == [op |-> "create", on |-> t, made |-> made]
Drop(t)                 == [op |-> "drop", on |-> t]
DropIndex(t, i)         == [op |-> "unindex", on |-> t, index |-> i]
AddFilled(t, c)         == [op |-> "add", on |-> t, column |-> c, default |-> TRUE]
AddUnfilled(t, c)       == [op |-> "add", on |-> t, column |-> c, default |-> FALSE]
DropColumn(t, c)        == [op |-> "subtract", on |-> t, column |-> c]

-----------------------------------------------------------------------------
(* The migrations.                                                         *)

Up1 == <<
    Create("notes", Made({"key"}, {"text", "updated_at"}, {}, {})),
    Create("assistant_settings", Made({"id"}, {"mode", "text", "delay_seconds", "auto_detect",
        "manual_enabled", "updated_at"}, {}, {"ck_assistant_settings_singleton"})),
    Create("assistant_chat_rules", Made({"id"}, {"chat_id", "rule", "updated_at"}, {},
        {"uq_assistant_chat_rules_chat_id", "ck_assistant_chat_rules_rule", "ix_assistant_chat_rules_chat_id"})),
    Create("autopost_settings", Made({"id"}, {"enabled", "interval_minutes", "text", "updated_at"}, {},
        {"ck_autopost_settings_singleton"})),
    Create("autopost_chats", Made({"chat_id"}, {"title", "added_at"}, {}, {})),
    Create("font_settings", Made({"id"}, {"enabled", "style"}, {}, {"ck_font_settings_singleton"})),
    Create("clock_settings", Made({"id"}, {"enabled", "style"}, {"base_name"}, {"ck_clock_settings_singleton"})),
    Create("stats_summary", Made({"id"}, {"commands_total", "messages_total", "autopost_ok", "autopost_fail",
        "errors", "updated_at"}, {}, {"ck_stats_summary_singleton"})),
    Create("stats_command_counts", Made({"command_name"}, {"count"}, {}, {})),
    Create("stats_chat_counts", Made({"chat_id"}, {"messages", "commands"}, {"title"}, {})) >>

Down1 == << Drop("stats_chat_counts"), Drop("stats_command_counts"), Drop("stats_summary"),
    Drop("clock_settings"), Drop("font_settings"), Drop("autopost_chats"), Drop("autopost_settings"),
    DropIndex("assistant_chat_rules", "ix_assistant_chat_rules_chat_id"), Drop("assistant_chat_rules"),
    Drop("assistant_settings"), Drop("notes") >>

Up2 == << Create("scheduled_jobs", Made({"id"}, {"chat_id", "text", "run_at", "kind", "created_at"}, {},
    {"ck_scheduled_jobs_kind", "ix_scheduled_jobs_run_at"})) >>

Down2 == << DropIndex("scheduled_jobs", "ix_scheduled_jobs_run_at"), Drop("scheduled_jobs") >>

Up3 == << Create("group_guard_settings", Made({"chat_id"},
    {"link_filter_enabled", "welcome_enabled", "updated_at"}, {"welcome_text"}, {})) >>

Down3 == << Drop("group_guard_settings") >>

Up4Text == << AddFilled("assistant_settings", "text") >>   \* variant: a column that is there

Up4 == << AddFilled("assistant_settings", "ai_mode") >>
Down4 == << DropColumn("assistant_settings", "ai_mode") >>

Up5 == <<
    Create("inbox_items", Made({"id"}, {"chat_id", "message_id", "text", "date", "read", "importance",
        "created_at"}, {"sender_id", "sender_name", "tags", "note"},
        {"uq_inbox_chat_message", "ix_inbox_items_chat_id", "ix_inbox_items_read", "ix_inbox_items_importance"})),
    Create("notification_rules", Made({"id"}, {"name", "enabled", "trigger_type", "trigger_value",
        "action_type", "created_at", "updated_at"}, {"action_value"},
        {"ck_notif_trigger_type", "ck_notif_action_type"})),
    Create("user_profiles", Made({"user_id"}, {"is_vip", "added_at", "updated_at"},
        {"username", "first_name", "last_name", "tags", "notes"},
        {"ix_user_profiles_user_id", "ix_user_profiles_tags"})),
    Create("ai_memory", Made({"id"}, {"category", "key", "value", "created_at", "updated_at"}, {},
        {"uq_ai_memory_cat_key", "ix_ai_memory_category", "ix_ai_memory_key"})),
    Create("automation_rules", Made({"id"}, {"name", "enabled", "event_type", "action_type", "action_value",
        "priority", "created_at", "updated_at"}, {"event_value", "condition"},
        {"ck_auto_event", "ck_auto_action"})),
    Create("settings", Made({"id"}, {"key", "value", "updated_at"}, {}, {"uq_settings_key"})) >>

Down5 == << Drop("settings"), Drop("automation_rules"), Drop("ai_memory"), Drop("user_profiles"),
    Drop("notification_rules"), Drop("inbox_items") >>

Up6 == << Create("hafez_poems", Made({"id"}, {"poem"}, {"interpretation", "alt_interpretation"}, {})) >>
Down6 == << Drop("hafez_poems") >>

Up7 == << AddFilled("group_guard_settings", "porn_filter_enabled"),
          AddFilled("group_guard_settings", "spam_filter_enabled") >>

Down7 == << DropColumn("group_guard_settings", "spam_filter_enabled"),
            DropColumn("group_guard_settings", "porn_filter_enabled") >>

Up8 == <<
    Create("daily_digest_settings", Made({"id"}, {"enabled", "mode", "hour", "minute", "updated_at"},
        {"last_run_date"}, {"ck_daily_digest_settings_singleton"})),
    Create("daily_digest_chats", Made({"chat_id"}, {"title", "added_at"}, {}, {})) >>

Down8 == << Drop("daily_digest_chats"), Drop("daily_digest_settings") >>

Up9 == <<
    AddFilled("assistant_settings", "schedule_enabled"),
    Create("assistant_schedule_windows", Made({"id"}, {"label", "start_minute", "end_minute", "created_at"}, {},
        {"ck_assistant_window_start_range", "ck_assistant_window_end_range"})) >>

Down9 == << Drop("assistant_schedule_windows"), DropColumn("assistant_settings", "schedule_enabled") >>

Up10 == <<
    Create("group_word_filters", Made({"id"}, {"chat_id", "word", "action", "case_sensitive", "is_regex",
        "created_at", "updated_at"}, {},
        {"uq_group_word_filters_chat_word", "ix_group_word_filters_chat_id"})),
    Create("group_user_warnings", Made({"id"}, {"chat_id", "user_id", "warn_count", "kicked", "banned",
        "created_at", "updated_at"}, {"last_warn_time", "muted_until"},
        {"uq_group_user_warnings_chat_user", "ix_group_user_warnings_chat_id"})),
    Create("group_warn_settings", Made({"chat_id"}, {"enabled", "warn_limit", "action_on_limit",
        "mute_duration_minutes", "auto_reset_days", "created_at", "updated_at"}, {},
        {"uq_group_warn_settings_chat_id"})),
    Create("group_activity_log", Made({"id"}, {"chat_id", "log_date", "messages_sent", "warnings_given",
        "messages_deleted", "members_joined", "members_left", "created_at"}, {},
        {"ix_group_activity_log_chat_id", "ix_group_activity_log_date"})),
    Create("group_polls", Made({"id"}, {"chat_id", "message_id", "poll_id", "question", "options",
        "total_votes", "closed", "created_at", "updated_at"}, {},
        {"ix_group_polls_chat_id", "ix_group_polls_created_at"})) >>

Down10 == << Drop("group_polls"), Drop("group_activity_log"), Drop("group_warn_settings"),
    Drop("group_user_warnings"), Drop("group_word_filters") >>

Ups   == <<Up1, Up2, Up3, Up4, Up5, Up6, Up7, Up8, Up9, Up10>>
Downs == <<Down1, Down2, Down3, Down4, Down5, Down6, Down7, Down8, Down9, Down10>>
Head10 == Len(Ups)

-----------------------------------------------------------------------------
(* The tables of the code.                                                 *)

Note                == Made({"key"}, {"text", "updated_at"}, {}, {})
AssistantSettings   == Made({"id"}, {"mode", "text", "delay_seconds", "auto_detect", "manual_enabled",
                            "ai_mode", "schedule_enabled", "updated_at"}, {}, {"ck_assistant_settings_singleton"})
AssistantChatRule   == Made({"id"}, {"chat_id", "rule", "updated_at"}, {}, {"uq_assistant_chat_rules_chat_id",
                            "ck_assistant_chat_rules_rule", "ix_assistant_chat_rules_chat_id"})
AssistantScheduleWindow == Made({"id"}, {"label", "start_minute", "end_minute", "created_at"}, {},
                            {"ck_assistant_window_start_range", "ck_assistant_window_end_range"})
AutopostSettings    == Made({"id"}, {"enabled", "interval_minutes", "text", "updated_at"}, {},
                            {"ck_autopost_settings_singleton"})
AutopostChat        == Made({"chat_id"}, {"title", "added_at"}, {}, {})
FontSettings        == Made({"id"}, {"enabled", "style"}, {}, {"ck_font_settings_singleton"})
ClockSettings       == Made({"id"}, {"enabled", "style"}, {"base_name"}, {"ck_clock_settings_singleton"})
StatsSummary        == Made({"id"}, {"commands_total", "messages_total", "autopost_ok", "autopost_fail",
                            "errors", "updated_at"}, {}, {"ck_stats_summary_singleton"})
StatsCommandCount   == Made({"command_name"}, {"count"}, {}, {})
StatsChatCount      == Made({"chat_id"}, {"messages", "commands"}, {"title"}, {})
GroupGuardSettings  == Made({"chat_id"}, {"link_filter_enabled", "welcome_enabled", "porn_filter_enabled",
                            "spam_filter_enabled", "updated_at"}, {"welcome_text"}, {})
DailyDigestSettings == Made({"id"}, {"enabled", "mode", "hour", "minute", "updated_at"}, {"last_run_date"},
                            {"ck_daily_digest_settings_singleton"})
DailyDigestChat     == Made({"chat_id"}, {"title", "added_at"}, {}, {})
ScheduledJob        == Made({"id"}, {"chat_id", "text", "run_at", "kind", "created_at"}, {},
                            {"ck_scheduled_jobs_kind", "ix_scheduled_jobs_run_at"})
InboxItem           == Made({"id"}, {"chat_id", "message_id", "text", "date", "read", "importance", "created_at"},
                            {"sender_id", "sender_name", "tags", "note"}, {"uq_inbox_chat_message",
                            "ix_inbox_items_chat_id", "ix_inbox_items_read", "ix_inbox_items_importance"})
NotificationRule    == Made({"id"}, {"name", "enabled", "trigger_type", "trigger_value", "action_type",
                            "created_at", "updated_at"}, {"action_value"},
                            {"ck_notif_trigger_type", "ck_notif_action_type"})
UserProfile         == Made({"user_id"}, {"is_vip", "added_at", "updated_at"},
                            {"username", "first_name", "last_name", "tags", "notes"},
                            {"ix_user_profiles_user_id", "ix_user_profiles_tags"})
AIMemory            == Made({"id"}, {"category", "key", "value", "created_at", "updated_at"}, {},
                            {"uq_ai_memory_cat_key", "ix_ai_memory_category", "ix_ai_memory_key"})
AutomationRule      == Made({"id"}, {"name", "enabled", "event_type", "action_type", "action_value", "priority",
                            "created_at", "updated_at"}, {"event_value", "condition"},
                            {"ck_auto_event", "ck_auto_action"})
Setting             == Made({"id"}, {"key", "value", "updated_at"}, {}, {"uq_settings_key"})
HafezPoem           == Made({"id"}, {"poem"}, {"interpretation", "alt_interpretation"}, {})
GroupWordFilter     == Made({"id"}, {"chat_id", "word", "action", "case_sensitive", "is_regex", "created_at",
                            "updated_at"}, {},
                            {"uq_group_word_filters_chat_word", "ix_group_word_filters_chat_id"})
GroupUserWarning    == Made({"id"}, {"chat_id", "user_id", "warn_count", "kicked", "banned", "created_at",
                            "updated_at"}, {"last_warn_time", "muted_until"},
                            {"uq_group_user_warnings_chat_user", "ix_group_user_warnings_chat_id"})
GroupWarnSettings   == Made({"chat_id"}, {"enabled", "warn_limit", "action_on_limit", "mute_duration_minutes",
                            "auto_reset_days", "created_at", "updated_at"}, {}, {"uq_group_warn_settings_chat_id"})
GroupActivityLog    == Made({"id"}, {"chat_id", "log_date", "messages_sent", "warnings_given",
                            "messages_deleted", "members_joined", "members_left", "created_at"}, {},
                            {"ix_group_activity_log_chat_id", "ix_group_activity_log_date"})

\* __tablename__ of each; bot/handlers/poll.py also imports a GroupPoll that is
\* not there.
Models == [notes |-> Note, assistant_settings |-> AssistantSettings,
    assistant_chat_rules |-> AssistantChatRule, assistant_schedule_windows |-> AssistantScheduleWindow,
    autopost_settings |-> AutopostSettings, autopost_chats |-> AutopostChat, font_settings |-> FontSettings,
    clock_settings |-> ClockSettings, stats_summary |-> StatsSummary,
    stats_command_counts |-> StatsCommandCount, stats_chat_counts |-> StatsChatCount,
    group_guard_settings |-> GroupGuardSettings, daily_digest_settings |-> DailyDigestSettings,
    daily_digest_chats |-> DailyDigestChat, scheduled_jobs |-> ScheduledJob, inbox_items |-> InboxItem,
    notification_rules |-> NotificationRule, user_profiles |-> UserProfile, ai_memory |-> AIMemory,
    automation_rules |-> AutomationRule, settings |-> Setting, hafez_poems |-> HafezPoem,
    group_word_filters |-> GroupWordFilter, group_user_warnings |-> GroupUserWarning,
    group_warn_settings |-> GroupWarnSettings, group_activity_log |-> GroupActivityLog]

-----------------------------------------------------------------------------
(* Running them.                                                           *)

NoTables == << >>

SchemaInit ==
    /\ schema = NoTables /\ revision = 0 /\ filled = {} /\ serving = FALSE /\ raised = FALSE
    /\ migrating = <<>>

\* What a step does to the tables.
Taken(s, tables) ==
    CASE s.op = "create"   -> [t \in DOMAIN tables \cup {s.on} |-> IF t = s.on THEN s.made ELSE tables[t]]
      [] s.op = "drop"     -> Restrict(tables, DOMAIN tables \ {s.on})
      [] s.op = "unindex"  -> [tables EXCEPT ![s.on].named = @ \ {s.index}]
      [] s.op = "add"      -> [tables EXCEPT ![s.on].must = @ \cup {s.column}]
      [] s.op = "subtract" -> [tables EXCEPT ![s.on].must = @ \ {s.column}]

\* What it must meet: PostgreSQL refuses a table or column that is there already,
\* one that is not, and a column no row would have a value for.
Possible(s) ==
    CASE s.op = "create"   -> s.on \notin DOMAIN schema
      [] s.op = "drop"     -> s.on \in DOMAIN schema
      [] s.op = "unindex"  -> s.on \in DOMAIN schema /\ s.index \in schema[s.on].named
      [] s.op = "add"      -> /\ s.on \in DOMAIN schema /\ s.column \notin schema[s.on].must
                              /\ s.default \/ s.on \notin filled
      [] s.op = "subtract" -> s.on \in DOMAIN schema /\ s.column \in schema[s.on].must

\* "alembic upgrade head", at every start; "alembic downgrade", by the owner.
Began(to) == migrating' = <<[to |-> to, at |-> revision, step |-> 1, schema |-> schema, filled |-> filled]>>

StartUpgrade ==
    /\ ~serving /\ migrating = <<>> /\ ~raised
    /\ Began(Head10)
    /\ Calm /\ UNCHANGED <<schema, revision, filled, serving, raised>>

StartDowngrade(to) ==
    /\ ~serving /\ migrating = <<>> /\ ~raised /\ to < revision
    /\ Began(to)
    /\ Ordered /\ UNCHANGED <<schema, revision, filled, serving, raised>>

Steps(m) == IF m.to > m.at THEN Ups[m.at + 1] ELSE Downs[m.at]

\* One step of the transaction; after its last the next migration has its turn.
Migrate ==
    \E m \in Range(migrating) :
      /\ m.at # m.to
      /\ LET s == Steps(m)[m.step]
             last == m.step = Len(Steps(m))
         IN  IF Possible(s)
             THEN /\ schema' = Taken(s, schema)
                  /\ filled' = filled \cap DOMAIN schema'
                  /\ migrating' = <<[m EXCEPT !.at = IF ~last THEN @ ELSE IF m.to > @ THEN @ + 1 ELSE @ - 1,
                                              !.step = IF last THEN 1 ELSE @ + 1]>>
                  /\ UNCHANGED raised
             ELSE /\ schema' = m.schema /\ filled' = m.filled /\ migrating' = <<>>
                  /\ raised' = TRUE
      /\ Calm /\ UNCHANGED <<revision, serving>>

\* The transaction commits, alembic_version in it; after an upgrade main.py starts.
Commit ==
    \E m \in Range(migrating) :
      /\ m.at = m.to
      /\ revision' = m.to /\ migrating' = <<>>
      /\ serving' = (m.to = Head10)
      /\ Calm /\ UNCHANGED <<schema, filled, raised>>

\* The connection or the process is lost: all of it is rolled back.
MigrationDies ==
    \E m \in Range(migrating) :
      /\ schema' = m.schema /\ filled' = m.filled /\ migrating' = <<>>
      /\ Fault /\ UNCHANGED <<revision, serving, raised>>

\* The bot writes a row, and ends.
Fills(t) ==
    /\ serving /\ t \in DOMAIN schema \ filled
    /\ filled' = filled \cup {t}
    /\ Calm /\ UNCHANGED <<schema, revision, migrating, serving, raised>>

Ends ==
    /\ serving /\ serving' = FALSE
    /\ Calm /\ UNCHANGED <<schema, revision, migrating, filled, raised>>

-----------------------------------------------------------------------------
\* While the bot runs, the table of every class of bot/db/models.py and
\* models_ext.py has the columns, the constraints and the indexes the class has,
\* the same ones nullable, by whatever way its database came to head: from any
\* revision it was taken back to, with rows in its tables, after migrations that
\* died.  And no step of a migration meets a schema it was not written for.
SchemaServes ==
    /\ serving => \A t \in DOMAIN Models : t \in DOMAIN schema /\ schema[t] = Models[t]
    /\ ~raised

SchemaTypes ==
    /\ revision \in 0..Head10 /\ Len(migrating) <= 1 /\ filled \subseteq DOMAIN schema
    /\ \A m \in Range(migrating) : m.at \in 0..Head10 /\ m.to \in 0..Head10
=============================================================================
