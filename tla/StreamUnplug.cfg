CONSTANTS
    a1 = a1
    a2 = a2
    N = 1
    App <- OneApp
    Ops <- Owner
    Freqs = {1}
    StartAlone = TRUE
    SteadyFaults = FALSE
    MaxRecover = 1
    MaxErrors = 0
    MaxEp0Faults = 0
    MaxUnplugs = 1
    MaxLate = 1
SPECIFICATION FairSpec
INVARIANTS WindowExclusive
PROPERTIES GoneServed CallsReturn
