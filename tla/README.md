# A formal model of the self-bot

These TLA+ modules describe the parts of the bot that keep state, run in the
background, or wait on the network while other handlers run. The model checker
TLC explores small instances of them; the proof system TLAPS proves the
properties that matter most for every value of the constants.

Paths below are relative to the repository: `bot/...` stands for `src/bot/...`.

1. [How the program runs](#1-how-the-program-runs)
2. [Inventory](#2-inventory)
3. [Modules and how they correspond to the code](#3-modules-and-how-they-correspond-to-the-code)
4. [What the runs check](#4-what-the-runs-check)
5. [Fairness](#5-fairness)
6. [What is proved](#6-what-is-proved)
7. [Where the code and its own description disagree](#7-where-the-code-and-its-own-description-disagree)
8. [What is not modelled](#8-what-is-not-modelled)
9. [Plan](#9-plan)

To repeat the checks:

    tlc -config Scheduler_safety.cfg MCScheduler.tla
    tlapm SchedulerProofs.tla

`PROJECT.json` lists the runs, the mutants that show each property can fail, the
lines every definition stands for, the hazards and the theorems.

## 1. How the program runs

The bot is one Python process on one asyncio loop (`main.py`). Telethon starts
every update handler as a task of its own; the background workers are tasks too.
A task runs undisturbed from one `await` to the next. So the atomic steps of the
model are the stretches between awaits: a handler that checks a value, awaits a
database call and then assigns is three steps, and anything may happen between
them. There is no lock around a component's state; `RateLimiter` has the only one.

State lives in two places: module-level dictionaries (lost when the process
dies) and PostgreSQL tables. One call of a repository function is one
transaction (`db/engine.py:70-87`): it commits as a whole or not at all. What a
*command* does is usually several transactions.

The order of the start (`main.py:70-105`, `128`) matters to every component:

1. the client connects, and **from here on handlers answer**;
2. `load_all_persistent_state` reads each component's tables, one after the other;
3. the plugins are loaded;
4. `set_self_id` records who the owner is;
5. the workers are started.

The platform restarts a process that dies; nothing else survives but the tables.
Every module therefore has a `Crash` action that may come between any two steps,
and the start above as actions of its own.

## 2. Inventory

For each component: its **state**, its **operations**, what makes it **hard**, and
what makes it **correct**. The line-by-line hazards are in `PROJECT.json`.

### Modelled

**Scheduler** (`bot/handlers/scheduler.py`, `bot/repositories/scheduler_repo.py`)
- State: the table `scheduled_jobs`; the worker's list of due jobs.
- Operations: schedule, remind, list, cancel; `scheduler_worker`, every 15 s.
- Uses: `SELF_ID` (set late in the start), the switch `scheduler_enabled`.
- Hard: a round works on a snapshot while sends, flood waits and deletes are
  awaited; a job is sent and deleted in two steps; the process may die in between.
- Correct: nothing early, nothing lost unnoticed, a repetition only when a
  delete was lost, a cancelled job out of every later round, every job handled.

**Assistant** (`bot/handlers/assistant.py`, `bot/storage/assistant_store.py`,
`bot/repositories/assistant_repo.py`)
- State: the dictionary `assistant_state` (on/off, detection, mode, AI, rules,
  windows, who was answered); the counter of own replies in flight per chat; the
  last sign of the owner; a settings row and two tables.
- Operations: about fifteen owner commands, each saved in two transactions; one
  task per incoming message (delay, AI, reply); the activity watcher on outgoing
  updates; the status worker; window commands.
- Used by: the command router and the settings centre, which change the same
  dictionary; backup, which overwrites it.
- Hard: three sources set `enabled`; a reply's own update comes back as an
  outgoing message; saves overlap; commands may precede the load.
- Correct: no person taken on twice in a fixed-text session, the counter exact,
  the manual lock respected, memory and tables equal when nothing is under way,
  no stored rule changed unasked, detection never stuck.

**Command router** (`bot/handlers/command_router.py`) and **smart reply**
(`bot/handlers/smart_reply.py`)
- State: one proposed action, or one suggested answer, per chat, with its time of
  birth; it lives for 300 s or 120 s.
- Operations: propose (asks the AI, checks the parameters), confirm or send; cancel,
  which only the router has.
- Hard: the confirmation executes across awaits and takes the proposal out only
  afterwards (`command_router.py:574-593`, `smart_reply.py:126-134`); a proposal
  waits before its preview is written.
- Correct: carried out at most once for one word of the owner, never after it was
  cancelled, replaced or has expired; none vanishes unnoticed.

**Autopost** (`bot/handlers/autopost.py`, `bot/storage/autopost_store.py`) and the
**rate limiter** (`bot/rate_limiter.py`) it passes
- State: switch, text, chats, interval, next run, a "now" request; the last send and
  the sends of the last minute, under one lock.
- Operations: commands; `autopost_worker` walks a copy of the list and waits for
  the limiter before every send.
- Hard: list, text and switch change during a round; a flood wait skips a chat; the
  window is emptied after a wait (`rate_limiter.py:36-39`).
  A chat leaves the list in memory before its row is deleted, and a restart loads the rows.
- Correct: rounds an interval apart, sends a gap apart and a minute's budget that is
  bounded after all, one late post at most to a chat taken off the list for good.

**Settings** (`bot/storage/*_store.py`, `settings_toggles.py`,
`bot/handlers/settings_center.py`, `font.py`, `backup.py`)
- State: a dictionary per store and its rows. Operations: change and save, load,
  restore of a backup as a long sequence of changes.
- Hard: saves of one row overlap and land in the other order; the load overwrites a
  command given during it; a restore is neither atomic nor alone; the base name of the
  clock is stored and never loaded.
- Correct: memory and rows agree when nothing is under way; a restore that met
  nothing leaves what the file says.

**Daily digest** (`bot/handlers/daily_digest.py`, `bot/storage/daily_digest_store.py`)
- State: switch, mode, minute, the day last done, in memory and in its row. Operations:
  commands; a worker that looks once a minute; a run on request.
- Hard: the test is for one exact minute; a run may last past midnight; the row is
  saved by commands and runs at once, each with the day mark it read.
  The mark comes after the send, which may raise although the report arrived.
- Correct: one digest per day whose mark is kept, no day marked without one, none skipped
  without a cause.

**Profile clock** (`bot/clock.py`, `bot/handlers/profile.py`)
- State: switch, style, base name; the name shown on Telegram.
- Operations: clock, style and name commands; `clock_updater` once a minute; names
  given in another app. Hard: worker and commands read the live profile, wait, and
  write it; fifteen styles have to be recognised when read back.
- Correct: the owner's latest name survives, without a part of the clock.

**Statistics** (`bot/storage/stats_store.py`, `bot/repositories/stats_repo.py`)
- State: the counters `STATS`, shared by all handlers; totals and rows in tables.
- Operations: record, save, reset, load. Hard: the save walks the live dictionary
  with an await per row, under row locks. Correct: no total without the entries that
  account for it.

**Plugin loader** (`bot/plugin_loader.py`, `bot/handlers/plugins_cmd.py`)
- State: loaded plugins, registered callbacks, files and their backups.
- Operations: load, unload, reload, remove, install with roll-back. Hard: each may
  fail halfway, in the plugin's own code. Correct: a plugin that is not listed has no
  callbacks left; a failed install leaves the file that was there before.

**Group guard** (`bot/handlers/groupguard.py`, `bot/storage/group_guard_store.py`,
`bot/repositories/warn_repo.py`)
- State: filters per group, the admin cache (300 s), the spam window per sender,
  warnings. Operations: filter commands, four watchers on incoming messages, welcome,
  tag-all, warnings. Hard: the admin test is awaited in each watcher; a failed one
  counts, and is cached, as "admin".
- Correct: nothing deleted but by a fresh enough answer that the sender is no admin, a
  flood deleted whole, every warning counted.

**Automation** and **notifications** (`bot/automation_engine.py`,
`bot/notification_engine.py`, their handlers and repositories)
- State: rules in two tables. Operations: add, enable, disable, delete; run the
  matching rules on each message, one engine after the other. Hard: the rules are
  read once, then run with awaits in between.
- Correct: a rule acts only on what came while it was on; every rule gets its turn.

**Inbox, AI memory, user profiles, notes** (the repositories of these names)
- State: rows only. Operations: commands that read a row and then insert or update
  it. Hard: two commands of two chats on one key.
  Two repositories refresh a row after its commit, which may raise.
- Correct: the rows hold what the commands that committed were told.

**Schema** (`src/migrations`, `bot/db/models.py`, `models_ext.py`)
- State: the tables of the database and its revision. Operations: ten migrations up
  and down, in one transaction per call of alembic. Hard: nothing compares the
  migrations with the classes the code is written for; rows are there already.
- Correct: whatever way the schema came to head, the bot finds the tables it expects.

**Commands that keep nothing** (`bot/handlers/media.py`, `audio.py`, `ocr.py`, `ai.py`,
`tools.py`, `general.py`, `messages.py`, `admin.py`, `help.py`, `health.py`, `panel.py`,
`global_search.py`, and what `fun.py` answers at once)
- State: the text of the command's own message. Operations: some forty lists of
  awaited calls. Hard: each call may raise, though it took place, and each has an own idea of what then
  happens. Correct: the message tells what the command knows of its end.

**Games** (`bot/handlers/fun.py`)
- State: one guessing game and one quiz per chat, in memory, with caps; dice on their
  way. Hard: a question asked while the last one is translated; a full table; a die
  deleted and thrown again. Correct: an answer counts once, for a question that is
  shown; the oldest game gives way; no stray die.

**Start and workers** (`main.py`, `bot/db/bootstrap.py`, `bot/db/engine.py`) has no
module of its own: its order, its crashes and its transactions are in the
components they serve.

### Left aside

The **activity graph** and the **polls**: dead at this commit. `stats_graph.py` and
`poll.py` are not imported by `bot/handlers/__init__.py`, nothing calls the increments
of the activity, and the model `GroupPoll` that `poll.py` imports does not exist.
`convert.py` and `ocr_translate.py` are not imported either. The two scripts of
`src/scripts` are run by hand, with the bot stopped. `PROJECT.json` has an entry for
each.

### How the components touch each other

| From | To | By |
|---|---|---|
| start-up | every store | one load per component, in a fixed order, before the workers |
| settings centre, command router | toggles, assistant, scheduler, autopost, clock | direct calls and assignments |
| toggles | scheduler, stats, notifications | a boolean read when a round or handler begins |
| assistant | AI client | one awaited call, an answer or an error |
| autopost | rate limiter, statistics | `wait` before each send; counters after it |
| backup | assistant, autopost, notes, clock and others | overwrites memory, then saves |
| every handler | statistics | `record_*`, synchronous |
| automation, notifications | Telegram | sends on an incoming event |

## 3. Modules and how they correspond to the code

| Module | Stands for | Extends |
|---|---|---|
| `Scheduler` | commands, table and worker of the scheduler | |
| `JobPromise` | what a job is promised, without table, worker or process | |
| `Assistant` | the assistant, except its table of windows | |
| `AssistantWindows` | the table of windows, its list and commands | |
| `Proposals` | the proposals of the router and of the smart reply | |
| `Environment` | time, faults and commands, counted | |
| `Outgoing` | autopost composed with the rate limiter | `Environment` |
| `Settings` | stores, their rows, the load, the restored backup | `Environment` |
| `Digest` | the daily digest | `Environment` |
| `ProfileClock` | the clock in the profile name | `Environment` |
| `Stats` | the counters and their saves | `Environment` |
| `Plugins` | the plugin loader | `Environment` |
| `GroupGuard` | the guard of one group | `Environment` |
| `Rules` | automation and notifications | `Environment` |
| `Tables` | inbox, AI memory, profiles, notes | `Environment` |
| `Schema` | the migrations against the models | `Environment` |
| `Jobs` | the commands that keep nothing, as plans | `Environment` |
| `Games` | guess, quiz and dice | `Environment` |
| `MCScheduler` | symmetry for TLC | `Scheduler` |
| `MCAssistant` | messages, windows and modes of the instances | `Assistant` |
| `MCParts` | windows and proposals side by side | `AssistantWindows`, `Proposals` |
| `MCServices` | posts, settings, digest, clock and statistics side by side | the five modules |
| `MCHandlers` | plugins, guard, rules, tables, schema, jobs, games side by side | the seven modules |
| `SchedulerProofs`, `AssistantProofs`, `OutgoingProofs`, `DigestProofs`, `SchemaProofs` | invariants and properties, proved | the module of that name |
| `PartsProofs` | the same for windows, proposals, and both side by side | `MCParts` |
| `ServicesProofs` | the same for the services, alone and side by side | `MCServices`, `OutgoingProofs`, `DigestProofs` |
| `HandlersProofs` | the same for the handlers, alone and side by side | `MCHandlers`, `SchemaProofs` |

Conventions. Variables are grouped as *database*, *memory*, *environment* and
*history*; a `Crash` resets the second group to what a new process holds and keeps
the first. History variables are read by properties only, never by a guard of the
code's own steps. Operators marked "variant" are plausible bugs; they are used to
check that a property can fail and occur in no specification.

`Environment` counts instants, faults (a call that raises, a flood wait, the death
of the process) and commands, for the modules that share it: `Calm`, `Fault`,
`Ordered` and `Advance` say which of the three a step costs.

### Scheduler

| State | Code |
|---|---|
| `row`, `info` | a row of `scheduled_jobs` (`kind`, `chat_id`, `run_at`) |
| `savedToggle`, `enabled` | the settings row and `toggles["scheduler_enabled"]` |
| `phase` | how far `main()` has come; `SELF_ID` is known from `identified` on |
| `pc`, `cutoff`, `due`, `cur` | where `scheduler_worker` waits, its `now_utc`, its list, its job |
| `cancelling`, `writing` | cancel commands and switch changes between two awaits |

| Actions | Code |
|---|---|
| `Ask`, `Insert`, `InsertFails` | `schedule_handler`, `reminder_handler`, `create_job` |
| `CancelLookup`, `CancelDelete`, `CancelFails` | `get_job_checked`, then `delete_job` |
| `SetToggle`, `WriteToggle`, `WriteToggleFails` | `set_toggle`: memory, then the row |
| `Wake`, `SkipRound`, `ListDue`, `ListDueFails` | start of a round: the clock is read *before* the query |
| `Send`, `SendRaises`, `SendFlooded` | the three ends of `send_message` |
| `DeleteSent`, `DeleteSentFails` | `delete_job` after a send or an error |

A send that raises may or may not have reached Telegram. The list is a set: the
query orders nothing, so any order is possible. Time strings are abstracted to the
instant they denote.

`JobPromise` is the abstract specification. A job waits; a round claims all that is
due; a claim gives at most one attempt, an attempt at most one message; then the job
waits again or is gone; what is claimed can no longer be withdrawn. In the
refinement mapping the worker's copy of a job counts before its row: a job that is
cancelled while a round holds it is still the round's.

### Assistant

| State | Code |
|---|---|
| `state` | `assistant_state`; `replied` is its set of answered people |
| `inFlight` | `_auto_reply_in_flight` |
| `task`, `reply` | where each `assistant_autoreply` task waits, and what it sends |
| `phase`, `staged` | `init_assistant_state`, three reads and one assignment |
| `save`, `saved`, `table` | `save_assistant` calls, the settings row, the rules table |
| `echo` | own replies whose update has not been handled |
| `silent`, `clock` | time since `_last_self_activity`, local time of day |

| Actions | Code |
|---|---|
| `On`, `Off`, `Detect`, `Layer`, `SetMode`, `SetAi`, `SetText`, `Exclude`, `Include`, `ClearRules` | owner commands, from this handler, the router and the settings centre |
| `SaveSettings`, `DeleteRules`, `BuildRows`, `InsertRules`, `InsertCollides`, `SaveFails` | one `save_assistant`, step by step |
| `Receive`, `Ignore` | `assistant_autoreply` down to its first await |
| `Answer`, `AskAi`, `AiAnswers`, `AiFails` | after the delay: `ai_mode` is read *again* |
| `Deliver`, `ReplyReturns`, `ReplyFails` | `event.reply()` with the counter around it |
| `OwnerSpeaks`, `Echo` | `assistant_self_activity_watcher` |
| `Watch` | one turn of `assistant_status_watcher` |
| `WindowsChanged` | the end of a window command: any new list, then the signals |

`replace_chat_rules` is three steps because PostgreSQL, at its default isolation,
lets two of them interleave: each deletes the rows *its* DELETE sees, so rows
another one inserted in between stay, or collide on the unique `chat_id`
(`fresh`).

`AssistantWindows` takes the windows table apart from the rest: a command checks
against the list in memory, commits, reads the table again, and assigns the list.
`Assistant` sees only that the list may become anything when such a command
ends; so neither module has to know the other.

### Proposals

| State | Code |
|---|---|
| `pending`, `age` | `PENDING` or `_pending_replies`, and the time since `created_at` |
| `stage` | how far the command that makes a proposal has come |
| `confirming`, `effect` | each `_confirm` or `_send_reply` under way: what it holds, and whether it has taken effect |

| Actions | Code |
|---|---|
| `AskAI`, `Refuse`, `Propose`, `Show`, `ShowFails` | the command: `ask_ai`, the checks, the entry, then the preview |
| `Cancel`, `Expire` | `pop` by the owner's word, or by a confirmation that is too late |
| `Confirm`, `Execute`, `Return`, `Raise` | `_confirm` from its `get` to its `pop`; `_send_reply` likewise |

Both commands keep the same protocol, so one module stands for both: a *place* is a
chat of one of them, and `Cancel` is enabled in the router's places only. What an
action does (a row, a profile, a message) is one step, `Execute`; `Return` may come
without it, because some actions answer that there was nothing to do. `Return`
takes out whatever waits in the chat by then, as `dict.pop` does.

### Outgoing: autopost and the rate limiter

| State | Code |
|---|---|
| `post`, `nextRun`, `force` | `autopost_state`, `_autopost_next_run`, `_autopost_force_now` |
| `postRows`, `postSaves` | what the tables hold of it; the transactions of the commands under way |
| `poster` | where `autopost_worker` waits: the chats left of its copy, the chat it is about to post to |
| `lastSend`, `window` | `_last_send`, `_send_count_minute` (a set: sends that count are at different instants, a gap apart) |

| Actions | Code |
|---|---|
| `PostOn` … `PostNow`, `PostSwitch` | `autopost ...` commands; the settings centre and a restore, which leave the timer alone |
| `PostSaved`, `PostSaveFails` | the end of a command's transaction |
| `PostCrash` | the death of a process and `init_autopost_state` of the next, which takes list and values from the rows |
| `Round`, `NextChat`, `RoundOver` | the worker's round over `list(chats)` |
| `NextChat`, `GapOver`, `MinuteOver` | `RateLimiter.wait` between its two sleeps |
| `SendOk`, `SendFails`, `SendFlood`, `FloodOver` | the three ends of `send_message` |

The worker is the limiter's only caller, so its lock is never contended and needs no
variable. An instant is an instant: the worker's polls of five seconds may fall on any.
A command changes the list at once and its row when its transaction commits. `late` counts the
posts to a chat the owner took off; the chat leaves it when a command puts it on again, or
when a restart finds its row because the last command on it failed, was cut off or met
another save of that chat (`loose`, `Pending`): `autopost_store.py:20-30, 47-56`. What a
command meets while the rows are being loaded is in `Settings`.

### Settings

A *cell* is one value of a store, true or false. `mem` and `table` hold all cells;
`saver` the tasks that save; `load` how far `load_all_persistent_state` has come.

| Actions | Code |
|---|---|
| `PostSet` … `CentreSet`, `AddChat`, `RemoveChat`, `ClearChats` | a handler assigns in memory and begins a save of the whole row, or of one item |
| `ReadRow`, `CommitSave`, `SaveFails` | the transaction: the ORM reads the row, then writes only the attributes that differ from what *it read*; inserts and deletes of items are blind |
| `LoadRows`, `LoadItems`, `LoadAssign` | one store after the other: queries, then the assignment |
| `Restore`, `RestoreNext` | `backup.py:88-174` as the sequence of changes and saves it is |

What a save writes is fixed when it begins; what it overwrites depends on what it
read. This is why two saves of one row can leave a mixture no command asked for.

The base name of the clock (`Base`) is saved with its row and never loaded
(`clock.py:191-199`); `ClockBase` is a name that is set in memory and saved later or never
(`219`, `229`), `ClockSave` a later save. A restore sets the base name only when the file has one.
Of the groups, a file holds the link filters that were on, which a restore turns on, and the
welcomes it names, which a restore turns on or off (`Greeting`, `backup.py:171`).

### Digest, ProfileClock, Stats

`Digest`: `Look` is one turn of the worker, `Collect`, `Compose`, `Deliver`, `Mark` a
run, for the worker's and the owner's alike; a run that fails at its send (`RunFails`), or
dies there, may have delivered its report, and its day is then `excused`; `DigestRead`, `DigestCommit` save the
whole row, day mark included, for each of three savers. A day has `Day` minutes.
All `now` commands under way are one run of the owner's.

`ProfileClock`: a name is a sequence of tokens and the fifteen styles are sequences of
them, so `Cut` and `Stripped` are what the regular expression and the trimming do, not
an identity. The fifteen styles are ones the pattern finds; a name of the owner's that
itself ends in a time would be cut by it, so `ClockAssumption` asks for names that do
not (`Timeless`). `SentKey` is what the worker compares before it sends. `ClockLook`, `ClockAnswer`, `ClockLands` are the worker between its two
awaits; `TaskAsks` … `TaskLands` the commands; `AppRename` another app.

`Stats`: `SaveBegin` reads the row of the totals and `SaveTotals` takes those of memory; the
walk of the commands comes next, if there are any (`SaveChats` ends it), and only then does
that of the chats begin, over the dictionary there is by then (`stats_repo.py:57-64`). `SaveRow`
and `SaveCommit` go through it in any order of its keys (`WalksOn`), with an await per row. `View` says which dictionary the walk sees: the live one, until a
reset puts a new one in its place. Row locks are `MayFlush` and `MayWrite`; adding a key
during a walk raises, as it does in Python, and rolls everything back. A save whose totals
have not changed writes no row of theirs and so locks none: another may pass it (`Meets`).

### Plugins

`file`, `bak`, `shipped` are the disk; `entry` is `_loaded_plugins`, `hooked` the callbacks
the client calls. A *version* of the plugin says where it fails: nowhere, in its code, in
its startup. Install, reload and removal are lists of stages (`shutdown`, `exec`,
`startup`, ...) with other commands in between; `RollBack` puts the old file back and
loads it again.

### GroupGuard

A message is a task that goes through four `Stages`: `asks` for the sender's
permissions, or finds them in `cache`, then `acts`. `Onward` finds the next watcher that
has to do with it. `Learns` is the answer, `AnswerFails` the failure that is kept as "is
an admin". `SpamCounts` adds to `tracker`, the deque of the sender (the set of his counted
messages, each with its instant and text: the code counts and compares them; a full one,
`SpamDeque`, loses an oldest entry), and deletes. `doomed` are the messages delete was called
for: the call may fail, and no watcher looks again. The word filters are an external table:
the module that keeps them is not in the repository (section 7). `AddWarn` is `add_warn` as it runs: the row is made,
the count is changed on an object of a closed session, and the refresh raises.

### Rules, Tables

`Rules`: a message (`incoming`) is in the first engine, the second, or done; `ReadRules`
takes the enabled rules that match, `RunRule` carries out the next, `RuleFails` catches.
`Tables`: a command (`desk`) reads the row of its key in `Asks` and writes in `Writes`;
`Merge` writes the columns that differ from what was read, `InsertConflicts` and
`UpdateMisses` are a unique constraint and a row gone meanwhile. `WriteFails` is an error up to the
commit; `RefreshFails` one after it: the row is written and the command reports an error
(`ai_memory_repo.py:26-27, 31-32`, `user_profile_repo.py:22-23, 56-57`).

### Schema

`Up1` … `Up10` and `Down1` … `Down10` are the migrations, step by step; `Models` is what
the classes of the code ask for. `StartUpgrade` runs before every start of the bot,
`StartDowngrade` is the operator's; `Migrate` takes a step, `Commit` or `MigrationDies`
ends the transaction, `Fills` puts rows into a table so that a step that needs a default
for them can fail (`Possible`).

### Jobs, Games

`Jobs`: `Plan` gives each command as a list of calls, each with what follows if it
raises; `StepDone`, `StepFails`, `TellsError`, `TellFails` run a plan. A call that raises may have
taken place all the same (`landed`): what it left in the pack, among the saved messages or on
the status line is then there (`Lands`, `Status`). Two commands meet
only at the owner's sticker pack (`PackTaken`).

`Games`: a game in `guesses` has the number of its key, `born`: `Older` and `Newer` are
the order of the dictionary's keys, on which eviction depends (`Room`); a quiz is fetched, translated, *stored* and then shown; `ThrowLands`,
`ThrowRead`, `DieDropped` are the die that is thrown until it shows what was asked for.

`MCParts`, `MCServices` and `MCHandlers` run components side by side. They do not interact
there, so every behaviour is one of one component, chosen at the start, and TLC's
states add instead of multiplying. They define nothing about the code.

## 4. What the runs check

| Run | Instance | Distinct states |
|---|---|---|
| `scheduler_safety` | 2 jobs, 2 chats, 2 instants, 2 faults | 470,000 |
| `scheduler_liveness` | 2 jobs, 1 chat, 2 instants, 1 fault, 1 use of the switch | 310,000 |
| `assistant_replies` | 2 messages of one person in a group, 2 modes, 1 command, 1 fault | 620,000 |
| `assistant_store` | 2 chats, 2 commands, 1 fault | 1,450,000 |
| `assistant_signals` | 1 message, a day of 3 instants, a window over midnight, 1 command | 370,000 |
| `parts_safety` | windows: 3, a cap of 2, 2 commands at once, 2 faults; proposals: 2 in one chat, 1 instant of life, 2 confirmations at once, 1 fault | 1,040,000 |
| `services_safety` | posts, settings, digest, clock, statistics: below | 400,000 |
| `handlers_safety` | plugins, guard, rules, tables, schema, commands, games: below | 470,000 |

*Faults* are failed calls, flood waits and crashes together. Four more runs find
behaviours that contradict a sentence of the repository: section 7.

**`scheduler_safety`** shows, through every interleaving: a job is sent again only
for each delete that failed or was cut off (`DuplicateNeedsLostDelete`); none is
early though the clock is read before the query (`NeverEarly`); none leaves the
table without having been sent, recorded as an error, or cancelled
(`NothingSilentlyLost`); a cancelled job enters no later round
(`CancelledNeverReturns`); and the whole implements `JobPromise` (`KeepsPromise`).
Two jobs are needed so that one is handled while the other waits in the list; two
faults so that a flood wait or a lost delete is followed by a crash.

**`scheduler_liveness`**: once the bot stays up with the switch on, every stored
job leaves the table (`EveryJobIsHandled`). A job that is skipped must be found by a
later round, though its exact instant has passed.

**`assistant_replies`**: nobody is taken on twice in a fixed-text session
(`OneClaimPerSession`), and the counter of replies in flight is exact
(`InFlightIsExact`) with overlapping, failing and cut-off replies. Two messages of
one person are the smallest instance with a race. One command is enough to
switch the AI, the mode or the session while both are on their way; signals, which
also end sessions, are not bounded.

**`assistant_store`**: an undisturbed process has stored what it holds whenever
nothing is under way (`SavedWhenQuiet`), whatever an earlier process left half
written; no signal moves a locked assistant (`LockHolds`); a stored rule changes
only for a chat some command has named (`RulesChangeOnRequest`), even when saves
overlap, fail, collide or are cut off. Two chats let a save keep one rule and lose
another; two commands overlap; one fault cuts a save off or restarts.

**`assistant_signals`**: with detection on, the assistant is again and again what
silence and the windows ask for (`FollowsSignals`). Three instants and a window
from 2 to 0 make a window that passes midnight and includes both its ends.

**`parts_safety`**, the windows: undisturbed, list and table agree (`AgreesWhenQuiet`) and the
cap holds (`CapWhenSerial`); always, only a window that was named, or all at a
clear, disappears (`OnlyAskedIsRemoved`). Three windows and a cap of two reach the
cap and go over it when two additions overlap.

The proposals: one takes effect twice only if it was confirmed again while it was
carried out, or raised and was tried again (`OnceUnlessOverlapped`); none that was
cancelled, expired, replaced or lost is ever taken up (`WithdrawnStaysOut`); and one
put before the owner waits, or was carried out, or was withdrawn, or was made while
another of its chat was being carried out (`NoProposalVanishes`). Two proposals
replace each other, two confirmations overlap on one or on both, and the fault is
an execution that raises, a preview that fails or a crash. The two exceptions in
these properties are what the code really does: confirming twice executes twice,
and the first execution to end takes out a newer proposal. So the simple promise
"at most once" is not one the code keeps, and no abstract specification of it is
implemented.

*Undisturbed* is a history variable: in the present process no two commands
overlapped each other or the load, and none failed. It is what the code really
assumes; without it these properties are false, and `assistant_early` (section 7)
shows one way. The process may start on anything a disturbed one left behind.

**`services_safety`**, one service per behaviour; two commands, or one command and one fault
(commands on settings are not counted):

| Service | Instance | Why it is enough |
|---|---|---|
| posts | 2 chats, 6 instants, 2 saves at once, 2 sends per 4 instants | a third send meets a full window, waits, forgets it, and more sends follow; a chat comes off, its deletion commits, fails or is cut off, a restart loads |
| settings | 2 tasks that save, one of eight cells of the six stores, or a row and a list of the digest | two saves of one row, of one item, of a row and an item, a restore against a command, each against the load; files that name a group's welcome, on or off, and files that do not; a restore that goes through several stores is left to the proof |
| digest | 1 chat, days of 2 minutes, 4 instants | a run can pass midnight and the next day's minute |
| clock | 2 names, 2 first styles and a third to choose, 2 tasks, 2 instants | a short name and one that the limit cuts at a space; worker and command overlap |
| statistics | 2 chats, 2 tasks that save or reset, nothing stored at first | a walk that meets a new key, another walk, a reset; a restart loads what was saved |

- `PacedSends`: sends are a gap apart; the window is forgotten after a wait, so a minute
  can hold more than its budget, but never twice as many.
- `RoundsApart`: a round nobody forced starts the shortest interval after the last one
  ended, whatever commands, floods and restarts came between.
- `OneLatePost`: a chat taken off the list gets one more post at most, in this process and the
  next ones, until a command puts it on again or a restart finds its row. The second needs
  a deletion that failed, was cut off or met another save of that chat; the chat then is posted to
  as before, though the owner took it off.
- `StoresAgree`: a loaded store nobody is saving holds what is stored, if its last
  saves neither overlapped nor failed; `RestoreExact`: a restore nothing else met left
  memory and rows as the file says, welcomes it names turned on or off included. Link filters
  are only turned on. Both leave out the base name of the clock, which memory and row need not
  agree on.
- `DigestEachDay`: no day has two reports of the worker but one that stayed without its mark
  (its send raised or was cut off though it arrived, the process died before the mark was
  saved, or an older run put an older mark back), and none is left out on which the digest was
  on and the worker free at midnight, and nothing failed or was changed since: a run that
  crosses midnight takes the next day out; `MarkMeansSent`: no day is marked
  without a report.
- `NameKept`: the name on Telegram, without its clock, is the owner's last one, up to
  its 40 first characters and the spaces at their end, which the trimming takes. Left out
  are names that end in a time, which the pattern cuts off as its own, changes that met each other, and a name given in another app before the bot has
  read it: a style applied then overwrites it, though `clock.py:210-216` says otherwise.
- `CountsCovered`: no total, in memory or stored, exceeds what its entries add up to, until a
  save has met a reset, the load, or a save that leaves the totals as they are and so takes no
  lock on them; after that nothing is said. The reverse is false without any of these: the
  save is one transaction, as `stats_repo.py:7-10` and `stats_store.py:38` say, but its entries may
  be of later instants than its totals.

**`handlers_safety`**, one part per behaviour, one fault each (three for the commands; in the
guard and the rules a fault takes the place of a message or a command):

| Part | Instance | Why it is enough |
|---|---|---|
| plugins | 2 commands at a time, 3 in all, 4 versions | install over a running version, fail in code or startup, roll back, meet a removal |
| guard | 1 member, 3 messages, a limit of 2, a deque of 3, a cache of 1 instant | a flood, a promotion between question and answer, an entry that goes stale |
| rules | 2 of each engine, 2 commands | one rule fails or goes off while a message still has another |
| tables | 2 commands at a time, 3 in all, 2 labels | two inserts, two updates, an update against a deletion |
| schema | 2 runs of alembic, from an empty database or any of four revisions | up, filled, down, up again |
| commands | each plan alone, two stickers together, 3 faults | any calls of a plan fail together, and telling the error fails too |
| games | 3 chats, a table of 2, dice of 2 throws | a full table gives way; a question replaces one under way |

- `PluginsAgree`: at rest the callbacks the client calls are those of the plugin that
  is listed, and the file is that of the last command that succeeded.
- `AdminsSpared`: delete is called only by a task that began to ask about the sender within
  the lifetime of the cache of his plain membership. From the answer to the call there may be a
  download, a question to the AI or a search (`groupguard.py:403-415, 737-743`), and nobody asks
  again: the property bounds the age of the answer, not the time after it.
- `SpamCaught`: if a flood fits into the deque of 50, then of what was counted in a window no
  more than the limit is left that no delete was called for, in whatever order the checks of the
  sender end. Limits of 50 or more, which `config.py:134-135` takes from the environment as they
  are, are never exceeded.
- `RulesHaveTheirTurn`: no rule acts on a message that came after it went off, and none
  that a message has read is skipped because another one failed.
- `RowsAsTold`: rows hold what the commands that committed were asked for, also when the
  refresh after it raised and the owner was told of a failure. Left out are
  two commands at once on one column: the later one takes the other's back
  (`user_profile_repo.py:91-121`).
- `SchemaServes`: while the bot runs, its tables are those its classes expect.
- `JobsTell`: a command that no exception ended says what it knows of its end: no "error" after
  a call it was made for has returned, no result without all of them. It may say "error" of a file
  that was sent before the answer was lost. A panel that can
  be neither edited nor deleted is the exception: both failures are swallowed, and the old
  text stays (`panel.py:539-548`).
- `GamesHold`: guesses give way in order, an answer counts once and for a question that
  is or will be shown, and no die is left that nobody asked for.

In these two runs a part stops when its commands are used up, so they allow deadlock;
everywhere else it is checked.

## 5. Fairness

`FairSpec` of the scheduler: weak fairness of the start, of the worker and of time.
The loop runs every ready task, the awaits of the worker end (a call returns or
raises; a sleep is 15 s, or what a flood wait says), and `main()` goes on. Nothing is
assumed of the owner: no command ever has to come. Faults are bounded, so calls do
not fail for ever.

`FairSpec` of the assistant: the same for the start, the watcher, time, and the
steps of each reply; a reply in flight makes the watcher ignore the owner, so it
must end. Neither commands, nor updates, nor saves are fair.

The other runs check safety only, under no fairness.

Both liveness properties assume that the process stays up and the switch, or
detection, stays on from some time on (`<>[]`); the bounded faults let that happen.

## 6. What is proved

All theorems hold for every value of the constants: any number of jobs, chats,
people, messages, windows, faults. They rest only on the named assumptions of the
modules (`SchedulerAssumption`, `NobodyIsNoJob`, `AssistantAssumption`, `WindowsAssumption`,
`NotWindowIsNone`, `ProposalsAssumption`, `OutgoingAssumption`, `SettingsAssumption`,
`DigestAssumption`, `ClockAssumption`, `GuardAssumption`, `GamesAssumption`), all of which
TLC evaluates in the runs: those that are definitions are what the module of a run
assumes (`PartsAssumption`, `ServicesAssumption`, `HandlersAssumption`), and hypotheses
of the theorems. They say that bounds are numbers, that a limit is at least one or a
table of games at least two, that the items listed are finitely many, and that names do
not end in a time. Where a module has no specification of its own, because `MCServices` or
`MCHandlers` composes it, its proofs state one: the same actions, without the bounds of
the run, and with any backup file, any style, any number of commands where the run has a
few.

Every safety property of the passing runs is proved; what TLC alone answers for is liveness.
The three composed runs differ from what the theorems on their components say in one thing:
which component runs is chosen at the start. Their types are proved of the composition
itself (`PartsKeepTypes`, `ServicesKeepTypes`, `HandlersKeepTypes`): a step of the composition
is a step of the component that runs, and keeps that component's invariant.

**`SchedulerProofs`.** `IInv` is inductive. The properties alone are not: that a job is
sent at most once plus once per lost delete says nothing of a job *about* to be
sent. `IInv` adds
- `HoldsRows`: what the worker holds are rows that exist or existed;
- `HoldsDue`: all of it was due at `cutoff`, which has passed;
- `SendsCounted`: what may still be sent was sent no more often than its deletes
  were lost, which is the bound one step earlier;
- `AttemptKnown`: a job about to be deleted was sent or recorded as an error;
- `CancelsRows`: an answered cancel has removed its row.

From it: `TypeCorrect`, `DuplicatesExplained`, `NoneEarly`, `NoneSilentlyLost`,
`CancelledStaysOut`, and `ImplementsPromise`: each step maps to a step of
`JobPromise` or to a stutter.

**`AssistantProofs`.**
- `AlwaysTypeOK`: the types, the range of the reply counter included, which rests on
  `FlightInv`.
- `CounterAlwaysExact`: `FlightInv` adds that the replies in flight are finitely many at
  any instant, though nothing bounds the messages; a reply that starts or ends adds one to
  the set, or takes one, and the counter with it.
- `LockAlwaysHolds`: every step that is neither a command nor a step of the start
  leaves `enabled` alone while detection is off. `OwnerEffect` and `SignalEffect`
  say once what all the steps of the owner and of the signals have in common.
- `AlwaysOneClaim`: `ClaimInv` adds `Marked`: whoever has been taken on in this
  session is in `replied`. A message can only be taken on unmarked; a session that
  ends empties `replied` and makes all claims old in one step.
- `RulesAlwaysOnRequest`: `RulesInv` says that for a chat no command has named, the
  memory, what the start has read and the rows about to be inserted agree with
  the table, and that nothing is saved before the load. Each save may then write
  all rules without changing that one. Without the second part a save of the
  defaults would break it, which is what `assistant_early` shows.
- `AlwaysSavedWhenQuiet`: `StoreInv` says of an undisturbed process that one save at most
  is under way and that it is `Faithful`: what it still has to write, or has written,
  brings back what the memory holds now, and no row of another save is in its way. A
  recomputation while it runs changes nothing that is stored (`SameChoices`).

**`PartsProofs`** has a part for windows and one for proposals. `WInv` is inductive: `Shape` (what each stage of a
command holds), `RemovesAsked`, and `Serial`: undisturbed, there is one command at
most, it began on an agreeing list with room for what it adds, and what it is
about to assign is the table. From it: `QuietAgrees`, `RemovedWereAsked`, `CapKept`.

Of the proposals, `IInv` is inductive: `Fresh` (a proposal not yet made has left no
trace), `Current` (what waits was not withdrawn), `Singly` (one that was never
confirmed again and never raised is held by one confirmation at most, has no effect
before that one's, and none while it only waits) and `Crossing` (what waits in
the place of a running confirmation is what it carries out, or was made
meanwhile). "At most one effect" alone is not inductive: it is `Singly` that says
that a step `Execute` finds none. From it: `AtMostOnce`, `NoneVanishes`,
`WithdrawnStayOut`.

`PartsKeepTypes`: of the windows `Numbered` is added (what an add is about to insert has its
number given out); of the proposals `IInv` has it all but the
ages and the count of mishaps.

**`OutgoingProofs`.** `OInv` is inductive: `Timed` (the timer was set when the last
round ended, or later), `Copied` (a chat off the list is not in memory's, and one that the round still has in its
copy had no post yet, and is in that copy once), `Deleted` (the row of a chat off the list,
whose last command met no other and did not fail, is gone or about to go, and nobody is
about to store it) and `Spaced` (whoever is past the first sleep of `wait` is a gap after the
last send). "One late post" alone is not inductive: the second post is excluded by the chat
having left the copy, and in the next process by `Deleted`. From it:
`RoundsKeepApart`, `OneLatePostOnly`. `BInv` counts on top of it: `Past` (sends in order, a
gap apart), `Budget` (the window holds the latest sends, no more than the budget, and of
those it has forgotten fewer than the budget are of the last minute), `Awaited` (who waits
for the budget waits until some send of the window is a minute old). So of
`2 * PerMinute` sends the last is a minute after the first (`TwiceAtMost`). From it:
`SendsArePaced`.

**`DigestProofs`.** `DInv` is inductive: `Dates` (no date lies ahead), `Marks` (whatever
is a mark, is about to be one, or is in the hands of a save has its report), `Once`
(a day the worker has reported is excused, marked, or about to be marked; a report that
arrives by a send that raises excuses its day: `ArrivedExcused`) and `OnTime`
(on a steady day the worker is on time, and done when it has looked). The lemma
`Calendar` carries days and minutes over an instant. From it: `MarksMeanReports`,
`OneDigestEachDay`, for every length of a day.

**`ServicesProofs`** has three parts, each with its specification and invariant.
- Settings: `SInv` says of a store nothing has disturbed that one saver at most is at work
  for it, that what the load has read is what is stored, and that memory and rows differ
  only in what that saver still writes (`Alone`, `ReadWell`, `CellSettled`, `Moving`), of all cells
  but the base name of the clock (`Firm`). From it: `SettingsAgree`. `Told` follows a restore through its changes: each cell the file says
  something about is as the file says, or will be set so by what is left of the sequence, and
  nothing left sets it otherwise (`WillBe`); what the file says is off is `OffIn`. From it:
  `RestoresExactly`.
- Statistics: `StatsInv`. A sum is the number of single messages, so that sums compare as
  sets do (`SumsAreNumbers` and the lemmas after it). A save under way knows a total that
  the entries it has written and those still ahead of its walk make up (`WalkCovers`), and before its walk of the chats begins, a total that memory covers
  (`Taken`); an entry that grows meanwhile only adds to them. From it: `CountsAlwaysCovered`, from
  any of the stored counts the module allows, where TLC starts with none.
- The clock: first the texts, by lemmas on `SubSeq` alone. Each of the fifteen styles is a
  text the pattern takes for a time (`StylesAreWorn`); a name, a bar and such a text
  are cut exactly before the bar (`CutOfWearing`), because no end of the name that contains
  the bar is a time (`NoneBefore`); `Stripped` gives the name (`ShownStripped`). Then the
  protocol: `ClockInv` says that while no change has met another, one task at most is
  changing the name (`InTurn`), and whatever is shown, remembered, read or about to be
  written tells the owner's last wish (`AllTell`). From it: `NameAlwaysKept`.

**`HandlersProofs`** has one part per module.
- The guard: `GInv` is inductive: what the cache says of a plain member was true at its
  instant or later, and no question was asked in the future. `OnwardIsFair` is the one
  place where an answer is used; `DeletesFairly` follows it to the calls of delete, of messages of
  the same sender (`SameMessages`, `Sorted`). From it: `AdminsAreSpared`. `MInv`: the deque of a sender is
  within the limits, and each message counted and not deleted is in it as long as it
  matters (`Remembered`); a deque with room for a flood drops none of them (`RoomForAll`), so what
  is left is no more than it holds (`ImagesAreFewer`). From it: `SpamIsCaught`, for limits below the
  length of the deque.
- The rules: `RInv` follows a message through both engines: each rule it has read has had
  its turn, is among those left (`Awaits`), or the message was lost with the process. From it:
  `RulesAlwaysHaveTheirTurn`.
- The tables: `TInv` says of a row no two commands clashed on that it is what was told, and
  what each command under way has read of its own columns is still there (`Orderly`), whether the
  commit then returns or is followed by a raise (`CommitsInv`). From it: `RowsAreAsTold`.
- The plugins: `PInv` says that no version but the listed one, or the one being loaded, has
  callbacks (`NoStrayCallbacks`), and of commands that do not overlap what disk, backup and
  list hold at each stage (`OneByOne`). From it: `PluginsAlwaysAgree`.
- The games: three invariants, for guesses (an evicted game has half a table of younger ones
  beside it), for quizzes (numbers are not given twice; what is stored is unanswered) and for
  dice (each die on the screen is its command's present throw, or was kept). From them:
  `GamesAlwaysHold`.
- The types: the invariants above hold what the properties need, and a few facts more make
  them strong enough for the types. A table has one row because a command makes one at most of
  the row it has read (`MakesOne`, `LeavesOne`); a chat has one game because one begun anew takes
  the place of the old (`OneEachStays`); a task is at its shutdown only with the entry it took
  (`EntryTInv`); a message is past the last watcher exactly if it is done (`OnwardGoes`); a throw
  is read or taken back only by a command with an attempt left (`HasAttempts`). From them:
  `HandlersKeepTypes`.
- The commands: `Sound` is what a plan needs for a truthful end: what a call does if it
  raises is named, nothing "in progress" follows the last word, a failure that is told comes
  before any call that had an effect returned. `PlansAreSound` proves it of the plans; `JobInv` follows one command
  through any sound plan, past calls that raised and took place (`LandedGoes`, `RaisedGoes`), and `JInv` adds the pack and the copies of others (`Placed`,
  `Copied`). From it: `JobsAlwaysTell`, for any number of commands and faults.

**`SchemaProofs`.** The migrations are ten lists of steps up and ten down. The catalogue
`TableLife`, with `LateColumns` and `LooseIndexes`, says of each table, added column and separate
index in which step of which migration it begins and in which it ends. `UpLists`, `DownLists`
and the lemmas after them read it off the lists, and `UpSteps`, `DownSteps` show that every step
begins, or ends, exactly one such life; so no step can find its table there already, or missing
(`UpBegins`, `DownEnds`). `TablesAt(m)` is then the database at a step of a transaction, and
`StepsMake` says that the step can be taken and leaves the tables of the next. `SchemaInv` is
inductive: outside a transaction the tables are those of the revision (`AtRevision`), inside one
they are those of its step, and what it would go back to is what it found (`InTransaction`). At
head that is what the classes describe (`ClassesAtHead`). From it: `SchemaServesAll`, from any
revision, down to any revision, with rows in any table, where the run takes a few.

The proofs corrected two properties and two definitions. `JobsTell` left out the
panel that can be neither edited nor deleted, which two failures of one command reach.
`NameKept` compared names with the spaces at the limit of 40 characters, which the code
takes off. The key the clock compares was the name alone; it is style, cut base name and
minute. The counts stored when `Stats` starts were of one chosen chat; the definition takes any.

**Only model-checked.** `EveryJobIsHandled` and `FollowsSignals` are liveness properties,
out of the prover's reach. Induction over data is out of reach as such, but much of it
can be replaced: by the least counterexample (`FirstPlace`, from the well-foundedness of
the naturals), by cardinalities of sets, and by recursion that is shown to have a fixed
point (`StripOfFix`).

## 7. Where the code and its own description disagree

Each of these runs checks one sentence of the repository and finds a behaviour that
contradicts it.

| Run | Sentence | What happens |
|---|---|---|
| `scheduler_restart` | after a restart nothing is duplicated (`bot/db/bootstrap.py:10-13`) | a crash between `send_message` and `delete_job` sends the job again |
| `assistant_echo` | the counter closes the race window completely (`bot/handlers/assistant.py:66-67`) | the update of a reply, handled after `event.reply()` returned, counts as the owner |
| `assistant_early` | everything goes on from what is stored (`bot/db/bootstrap.py:10-13`) | a command given before the load saves the defaults over the stored rules |
| `guard_warnings` | `add_warn` adds a warning (`bot/repositories/warn_repo.py:31`) | it changes an object of a closed session, and the refresh raises: no warning is counted |

Seen while modelling, and visible in the models without a run of their own:

- A cancelled job that the present round has read is still sent after the owner was
  told it is cancelled (`bot/handlers/help.py:195`).
- Switching the AI off while two messages of one person wait answers both with the
  fixed text, though everyone is answered once per session (the repository's
  `README.md:372`).
- A proposal waits before its preview is written, so a confirmation handled in between
  carries out what was not shown (`bot/handlers/command_router.py:6-7`).
- Until `SELF_ID` is set, a reminder is stored for the chat it was typed in
  (`Destination` in `Scheduler`), though `bot/handlers/scheduler.py:5` says it goes to
  Saved Messages.
- After a wait the limiter forgets its window (`bot/rate_limiter.py:36-39`).
- `groupguard.py:55-61` imports `storage/word_filter_store`, which is not in the repository, and
  `handlers/__init__.py` imports `groupguard`: at this commit `bot/handlers` cannot be imported, and
  the bot does not start. Everything here is about the code as it is once that module is there.
- A chat whose row outlived its removal from the autopost list is posted to again after a
  restart (`PostCrash`); the limits of the spam filter can be set to where it never acts
  (`config.py:134-135`, `groupguard.py:601`); a command can report as failed what it has written, or
  sent (`RefreshFails`, `StepFails`); and a digest whose send raised after it arrived is sent again
  when the owner moves the minute later that day (`RunFails`, `DigestTime`).
- `groupguard.py:813` uses `dt`, which it does not import: muting always ends in the
  handler's own error. `remove_warn` never finds a count above zero, because none is
  ever counted, and changing the settings of the warnings raises like `add_warn`.
- A fresh plugin whose startup raises stays listed, with its callbacks, although its
  file was deleted; a `.bak` that a crash left behind can bring a removed plugin back.
- `_MAX_QUIZ_GAMES` and `_MAX_QUIZ_SCORES` (`bot/handlers/fun.py`) are never used. A
  guessing game that is started again in its chat keeps its old place among the keys,
  and is the first to give way.
- Asking the AI about a voice message does not catch the recogniser's error
  (`bot/handlers/ai.py:60-75`): the command stays "in progress".
- Automation accepts the actions guard, backup and autopost, for which the engine has no
  handler.
- `main.py` sets an event on SIGTERM that nothing awaits.

## 8. What is not modelled

- Of the scheduler: the syntax of times, and the list command, which changes nothing.
- Of the assistant: the conversation history given to the AI, the values of text
  and delay, the restore of its section of a backup.
- Of the router and the smart reply: which action the AI proposes and with which
  parameters; what each action does, beyond that it takes effect.
- Of the settings: the values beyond true and false; the conversion of outgoing texts
  by the font, one edit each; bio and photo of the profile. What a restored base name does to the
  name on Telegram: `Settings` has the restore of the clock's row (`backup.py:144-150`), `ProfileClock`
  has not, and its `NameKept` speaks of processes in which no backup is restored.
- Of the guard: what makes a text a link or a picture indecent; the commands that list
  warnings and set their limit (`groupguard.py:864-923`), and reports (`929-983`).
- Of the statistics: the other totals and the texts of the report.
- Of the tables: searches, the marks read and unread of the inbox, the deletion of a
  whole category of memories.
- Of the schema: the types of columns. Of the commands: texts, pictures and sounds.
- The plugins' own code, beyond where it fails and that it registers callbacks.
- Telegram and PostgreSQL beyond what the code sees: a call returns, raises, asks to
  wait, or is cut off by the death of the process. A commit is atomic.
- The second client of the panel, which only shows texts and forwards toggles.
- Everything listed under *left aside* in section 2.

## 9. Plan

*Proofs.* A refinement of `Settings` to a store that is simply assigned, for the
behaviours nothing disturbs, from `SInv`; the same of `Tables` to a table whose commands
take effect at once, from `TInv`.

*Liveness.* `digest` and `posts` have workers of the same shape as the scheduler's: under
the fairness of section 5 a round that has begun ends, whatever floods it meets.

*Composition.* The switch `Scheduler` carries itself is a cell of `Settings`; the
assistant's section of a backup is a sequence of `Assistant`'s own commands.
