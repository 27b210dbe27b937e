\* Two chats, so that a save can keep one rule and lose another; two commands, so
\* that their saves overlap; one fault, to cut a save off or restart.
SPECIFICATION Spec
CONSTANTS
    home = home
    ann = ann
    Chat = {home, away}
    Person = {ann}
    Msg <- None
    Mode <- None
    Window <- None
    Day = 1
    Threshold = 1
    MaxCommands = 2
    MaxFaults = 1
INVARIANTS
    SavedWhenQuiet
PROPERTIES
    LockHolds
    RulesChangeOnRequest
