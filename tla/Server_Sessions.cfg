CONSTANTS
    d1 = d1
    t1 = t1
    None = None
    NoDb = NoDb
    MaxConns = 2
    Dbs = {d1}
    Tables = {t1}
    Lines <- AllLines
    MaxLines = 2
    RespLen = 2
    MaxRemovals = 1
SPECIFICATION Spec
INVARIANTS TypeOK OneOutstanding PointerValid BufferHoldsPartialLine
PROPERTIES SessionsKept Served
CHECK_DEADLOCK FALSE
