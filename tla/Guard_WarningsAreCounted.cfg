\* The guard alone, with one member and one command.
SPECIFICATION HandlersSpec
CONSTANTS
    Parts = {"guard"}
    t1 = t1
    t2 = t2
    MaxTime = 0
    MaxFaults = 0
    MaxOrders = 1
    Manager <- TwoTasks
    Member = {"m1"}
    CacheTTL = 1
    SpamWindow = 1
    SpamMax = 2
    SpamRepeats = 2
    SpamCooldown = 1
    SpamDeque = 3
    RuleId = {1, 2}
    Clerk <- TwoTasks
    Label = {1, 2}
    Worker <- TwoTasks
    Chat = {"c1", "c2", "c3"}
    Player <- TwoTasks
    MaxGames = 2
    Throws = 2
CHECK_DEADLOCK FALSE
PROPERTIES
    WarningsAreCounted
