\* Two threads, failing reads, writes, log appends and mounts.
SPECIFICATION Spec
CONSTANTS
    DevSize = 2
    Requests <- TinyRequests
    DataWords = {0, 1}
    CacheSlots = 2
    Threads = {t1, t2}
    Faults = {"read", "write", "log", "recovery"}
    MaxPos = 5
INVARIANTS
    CacheNeverInvents
