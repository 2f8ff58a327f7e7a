SPECIFICATION Spec
CONSTANTS
    Keys <- Keys4
    Values = {v1}
    NoValue = NoValue
    LastPage = 7
    LeafCap = 3
    MergeCap = 3
    InternalCap = 4
    InternalSplits = FALSE
    Holes = TRUE
    Emptied = FALSE
INVARIANTS AssertsHold
CHECK_DEADLOCK FALSE
