SPECIFICATION Spec
CONSTANTS
    Callers = {c1, c2}
    KnownTTL = 3
    UnknownTTL = 1
    MemoryTTL = 1
    MaxTime = 3
    MaxLookups = 2
    MaxFailures = 1
SYMMETRY MCSymmetry
INVARIANTS InvalidationHolds ReportsRemembered ListingTakesEffect
CHECK_DEADLOCK FALSE
