\* A day of three instants with a window over midnight, silence after two, one
\* message whose reply the bot sees again, one command.
SPECIFICATION FairSpec
CONSTANTS
    home = home
    ann = ann
    Chat = {home}
    Person = {ann}
    Msg <- OneMsg
    Mode <- None
    Window <- NightWindow
    Day = 3
    Threshold = 2
    MaxCommands = 1
    MaxFaults = 0
PROPERTIES
    FollowsSignals
