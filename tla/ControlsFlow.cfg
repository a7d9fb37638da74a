CONSTANTS
    Tasks = {s, t}
    Gains = {1, 2}
    Widths = {0, 5}
    Quick = TRUE
    TakeTurns = TRUE
    OneTuner = TRUE
    MaxOps = 4
    MaxFaults = 1
SPECIFICATION Spec
INVARIANTS  BiasOffStopped
CHECK_DEADLOCK FALSE
