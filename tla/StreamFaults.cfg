CONSTANTS
    a1 = a1
    a2 = a2
    N = 2
    App <- TwoApps
    Ops <- StarterAndTuner
    Freqs = {1, 2}
    StartAlone = TRUE
    SteadyFaults = FALSE
    MaxRecover = 1
    MaxErrors = 0
    MaxEp0Faults = 2
    MaxUnplugs = 0
    MaxLate = 2
SPECIFICATION FairSpec
INVARIANTS Ep0Quiet
PROPERTIES  RetuneServed
