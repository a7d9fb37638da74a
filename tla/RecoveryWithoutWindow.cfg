CONSTANTS
    a1 = a1
    a2 = a2
    N = 2
    App <- OneApp
    Ops <- Owner
    Freqs = {1}
    StartAlone = TRUE
    SteadyFaults = TRUE
    MaxRecover = 1
    MaxErrors = 1
    MaxEp0Faults = 0
    MaxUnplugs = 0
    MaxLate = 0
SPECIFICATION Spec
INVARIANTS NoFreeInFlight

CHECK_DEADLOCK FALSE
