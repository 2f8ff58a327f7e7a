CONSTANTS
    Dbs = {d1, d2}
    Names = {t1, t2, t3}
    Columns = {}
    Schemas = {s1, s2}
    Huge = Huge
    None = None
    NSlots = 2
    FlushFirst = TRUE
    MaxFiles = 3
    MaxIds = 1
SPECIFICATION Spec
INVARIANTS IndexConsistent PagesAgree
PROPERTIES StoreKept
CHECK_DEADLOCK FALSE
SYMMETRY Symmetry
