CONSTANTS
    a1 = a1
    a2 = a2
    N = 3
    App <- TwoApps
    Ops <- OwnerAndStopper
    Freqs = {1, 2}
    StartAlone = TRUE
    SteadyFaults = FALSE
    MaxRecover = 1
    MaxErrors = 0
    MaxEp0Faults = 0
    MaxUnplugs = 0
    MaxLate = 2
SPECIFICATION Spec
INVARIANTS TypeOK NoFreeInFlight LiveExact StreamingIsReal IdleHasNoBulk
