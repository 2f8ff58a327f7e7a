CONSTANTS
    d1 = d1
    t1 = t1
    None = None
    NoDb = NoDb
    MaxConns = 1
    Dbs = {d1}
    Tables = {t1}
    Lines <- PipelineLines
    MaxLines = 2
    RespLen = 1
    MaxRemovals = 0
SPECIFICATION Spec
INVARIANTS BufferHoldsPartialLine
CHECK_DEADLOCK FALSE
