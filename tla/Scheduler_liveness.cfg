\* Two jobs and one fault of each kind are enough for one job to be skipped
\* while the other is handled; no symmetry, since the property is temporal.
SPECIFICATION FairSpec
CONSTANTS
    Job = {j1, j2}
    Chat = {saved}
    SavedMessages = saved
    MaxTime = 1
    MaxFaults = 1
    MaxFlips = 1
PROPERTIES
    EveryJobIsHandled
