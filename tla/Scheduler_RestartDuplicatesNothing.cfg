SPECIFICATION Spec
CONSTANTS
    Job = {j1}
    Chat = {group, saved}
    SavedMessages = saved
    MaxTime = 1
    MaxFaults = 1
    MaxFlips = 0
INVARIANT
    RestartDuplicatesNothing
