SPECIFICATION Spec
CONSTANTS
    home = home
    ann = ann
    Chat = {home}
    Person = {ann}
    Msg <- OneMsg
    Mode <- None
    Window <- None
    Day = 1
    Threshold = 1
    MaxCommands = 1
    MaxFaults = 0
PROPERTIES
    OwnReplyIsNotActivity
