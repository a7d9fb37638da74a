CONSTANTS
    h1 = h1
    h2 = h2
    h3 = h3
    Handles <- Pair
    Slots = {1, 2}
    NoSlot = NoSlot
    Nobody = Nobody
    Externals = {FALSE, TRUE}
    MaxFaults = 1
    Threshold = 2
    MaxStreak = 3
SPECIFICATION Spec
SYMMETRY Alike
INVARIANTS JoinedHostRuns RefsExact LatchEarned CrashLoopEnds
PROPERTIES LatchSticks
