SPECIFICATION Spec
CONSTANTS
    Pages = {p1, p2, p3}
    PoolSize = 2
    Handles = {h1, h2}
    Values = {v1}
    Fresh = Fresh
    Zero = Zero
    Torn = Torn
    NoPage = NoPage
    FreeWhilePinned = FALSE
    MaxLosses = 1
SYMMETRY Symmetry
INVARIANTS TypeOK CachedOnce PinsCounted PointerValid CleanIsOnDisk EvictableUnlessFailed
PROPERTIES NewPageIsFresh CloseKeeps PageStoreKept
