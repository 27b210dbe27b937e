\* Two messages of one person, one command, one fault: sessions end and the AI
\* or the mode is switched while both messages are on their way.
SPECIFICATION Spec
CONSTANTS
    home = home
    ann = ann
    Chat = {home}
    Person = {ann}
    Msg <- GroupPair
    Mode <- TwoModes
    Window <- None
    Day = 1
    Threshold = 1
    MaxCommands = 1
    MaxFaults = 1
INVARIANTS
    TypeOK
    InFlightIsExact
    OneClaimPerSession
