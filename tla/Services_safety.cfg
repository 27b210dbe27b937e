\* Posts: two chats, a budget of two sends per four instants, so that the window
\* fills; the digest: days of two minutes, so that a run can meet midnight; the
\* clock: two of the fifteen styles to start with, and a third to choose; the
\* statistics: two chats, two tasks that save.  One fault each, and two commands,
\* or one with the fault; the settings are of one store at a time.
SPECIFICATION ServicesSpec
CONSTANTS
    Services = {"posts", "settings", "digest", "clock", "stats"}
    t1 = t1
    t2 = t2
    p1 = p1
    p2 = p2
    MaxTime = 6
    MaxFaults = 1
    MaxOrders = 2
    PostChat <- TwoTasks
    PostTask <- PostTasks
    Interval = {1}
    MinInterval = 1
    Gap = 1
    Minute = 4
    PerMinute = 2
    Save <- TwoTasks
    Listed = {"a"}
    Greeted = {"w"}
    Scopes <- SomeScopes
    DigestChat = {"c1"}
    Day = 2
    NewName <- Names
    FirstStyle <- Styles
    Longest40 = 3
    ClockTask <- TwoTasks
    StatChat <- TwoTasks
    Saver <- TwoTasks
SYMMETRY Alike
CHECK_DEADLOCK FALSE
INVARIANTS
    PacedSends
    OneLatePost
    StoresAgree
    RestoreExact
    DigestEachDay
    MarkMeansSent
    NameKept
    CountsCovered
    ServicesTypes
PROPERTIES
    RoundsApart
