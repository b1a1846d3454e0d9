\* One thread, no device errors: cache contents, undo and recovery.
SPECIFICATION Spec
CONSTANTS
    DevSize = 3
    Requests <- NestedRequests
    DataWords = {0, 1}
    CacheSlots = 2
    Threads = {t1}
    Faults = {}
    MaxPos = 14
INVARIANTS
    TypeOK
    WiderFirst
    CacheServesDevice
    AlignedUndo
    RecoveryIdempotent

