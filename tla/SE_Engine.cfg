CONSTANTS
    Width = 17
    Names = {t1}
    Schemas <- SomeSchemas
    Rows <- SomeRows
    Keys <- SomeKeys
    Values <- SomeValues
    RawValues <- RowOne
    NoValue = NoValue
    NoTable = NoTable
    Broken = Broken
    Blank = Blank
    Unknown = Unknown
    MaxPage = 3
    MaxFaults = 1
SPECIFICATION Spec
INVARIANTS ScanShowsRows RootAllocated
PROPERTIES TablesKept
