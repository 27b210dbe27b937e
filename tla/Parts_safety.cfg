\* The windows: three and a cap of two, so that the cap is met; two commands at
\* once; two faults, so that a process can start on what a cut-off one left.
\* The proposals: two sentences in one chat, whose proposals live for one instant;
\* two confirm commands at once; one fault.
SPECIFICATION PartsSpec
CONSTANTS
    Parts = {"windows", "proposals"}
    Window = {w1, w2, w3}
    Op = {o1, o2}
    Cap = 2
    MaxFaults = 2
    Place = {"chat"}
    Routed = {"chat"}
    Proposal <- Sentences
    Confirmation = {o1, o2}
    Life <- OneInstant
    MaxMishaps = 1
INVARIANTS
    TypesOK
    AgreesWhenQuiet
    OnceUnlessOverlapped
    NoProposalVanishes
PROPERTIES
    CapWhenSerial
    OnlyAskedIsRemoved
    WithdrawnStaysOut
