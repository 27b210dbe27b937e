\* Plugins: two commands at a time, three in all; the guard: one member, whose
\* three messages exceed a limit of two; rules: two of each engine; tables: two
\* commands at a time, three in all; the schema: two runs of alembic; the commands
\* that keep nothing: each alone, and two stickers at once; the games: three chats
\* with a table of two games, dice of two throws.  One fault each, but three
\* for the commands that keep nothing, whose calls may fail one after the other; in
\* the guard and the rules the fault takes the place of a message or a command.
SPECIFICATION HandlersSpec
CONSTANTS
    Parts = {"plugins", "guard", "rules", "tables", "schema", "jobs", "games"}
    t1 = t1
    t2 = t2
    MaxTime = 2
    MaxFaults = 3
    MaxOrders = 3
    Manager <- TwoTasks
    Member = {"m1"}
    CacheTTL = 1
    SpamWindow = 1
    SpamMax = 2
    SpamRepeats = 2
    SpamCooldown = 1
    SpamDeque = 3
    RuleId = {1, 2}
    Clerk <- TwoTasks
    Label = {1, 2}
    Worker <- TwoTasks
    Chat = {"c1", "c2", "c3"}
    Player <- TwoTasks
    MaxGames = 2
    Throws = 2
SYMMETRY Alike
CHECK_DEADLOCK FALSE
INVARIANTS
    PluginsAgree
    SpamCaught
    RulesHaveTheirTurn
    RowsAsTold
    SchemaServes
    JobsTell
    GamesHold
    HandlersTypes
PROPERTIES
    AdminsSpared
