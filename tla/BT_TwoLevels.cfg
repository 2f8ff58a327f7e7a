SPECIFICATION Spec
CONSTANTS
    Keys <- Keys5
    Values = {v1}
    NoValue = NoValue
    LastPage = 8
    LeafCap = 3
    MergeCap = 3
    InternalCap = 4
    InternalSplits = FALSE
    Holes = FALSE
    Emptied = FALSE
INVARIANTS TypeOK ScanAgrees PagesAccounted AssertsHold
PROPERTIES MapKept
CHECK_DEADLOCK FALSE
