CONSTANTS
    Keys <- Keys4
    ValueSizes = {0, 1, 62}
    PageSize = 22
    HeaderSize = 4
    RecordHeader = 1
    SlotSize = 2
    Width = 64
    NoValue = NoValue
SPECIFICATION Spec
INVARIANTS Layout PageIsMap
CHECK_DEADLOCK FALSE
