CONSTANTS
    Freqs = {1, 2, 3}
    Low = {1}
    Widths = {0, 5, 8}
    LowWidths = {0, 5}
    Boards = {"v4", "nooelec", "e4000"}
    Passes = 2
    CrossFaults = FALSE
    None = None
    MaxFaults = 2
    MaxOps = 5
SPECIFICATION Spec
INVARIANTS ShadowSound WidthHonest LabelIsTrue
CHECK_DEADLOCK FALSE
