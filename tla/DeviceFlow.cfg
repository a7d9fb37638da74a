CONSTANTS
    h1 = h1
    h2 = h2
    Handles <- Pair
    Addrs = {1, 2}
    TableSize = 2
    QueueDepth = 2
    Nobody = Nobody
    BindAny = BindAny
    AppOps = {"select", "refresh", "hub"}
    AppAlone = TRUE
    EventAtAnswer = FALSE
    MaxPlugs = 2
    MaxCalls = 1
SPECIFICATION Spec
SYMMETRY Alike
INVARIANTS NoSharing ClaimHasReason DeadIsKnown
CHECK_DEADLOCK FALSE
