CONSTANTS
    a1 = a1
    a2 = a2
    N = 2
    App <- OneApp
    Ops <- Starter
    Freqs = {1}
    StartAlone = TRUE
    SteadyFaults = TRUE
    MaxRecover = 1
    MaxErrors = 2
    MaxEp0Faults = 0
    MaxUnplugs = 0
    MaxLate = 0
SPECIFICATION FairSpec
INVARIANTS NoSilentStream
PROPERTIES StallServed PauseEnds
