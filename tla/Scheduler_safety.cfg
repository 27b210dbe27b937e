\* Two jobs, two chats, two instants, two faults: cancel, crash and flood
\* wait meet every step of a round, and a job can be due in two rounds.
SPECIFICATION Spec
CONSTANTS
    Job = {j1, j2}
    Chat = {group, saved}
    SavedMessages = saved
    MaxTime = 1
    MaxFaults = 2
    MaxFlips = 0
SYMMETRY JobSymmetry
INVARIANTS
    TypeOK
    DuplicateNeedsLostDelete
    NeverEarly
    NothingSilentlyLost
PROPERTIES
    KeepsPromise
    CancelledNeverReturns
