CONSTANTS
    Threads = {"t1", "t2"}
    Groups = {0, 1}
    MaxGets = 2
SPECIFICATION CacheSpec
INVARIANT OneLiveObject
PROPERTIES NoReadWhileHeld EagerGroupStays ImplementsSharedObjects GetReturns
CHECK_DEADLOCK FALSE
