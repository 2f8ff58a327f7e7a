SPECIFICATION Spec
CONSTANTS
    Keys <- Keys6
    Values = {v1}
    NoValue = NoValue
    LastPage = 10
    LeafCap = 2
    MergeCap = 2
    InternalCap = 2
    InternalSplits = TRUE
    Holes = TRUE
    Emptied = TRUE
PROPERTIES InsertKeepsOthers
CHECK_DEADLOCK FALSE
