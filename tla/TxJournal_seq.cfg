\* One operation after another, with a journal or without, with failing device writes.
SPECIFICATION Spec
CONSTANTS
    b1 = b1
    b2 = b2
    b3 = b3
    t1 = t1
    t2 = t2
    Magic = Magic
    Escaped = Escaped
    Threads = {t1}
    Blocks = {b1, b2, b3}
    BlocksOf <- AllBlocks
    Data = {0}
    Writes <- AllWrites
    JournalKinds = {"jbd2", "other"}
    S_maxlen = 6
    MaxTags = 2
    MaxTx = 2
    MaxWrites = 3
    Faults = TRUE
SYMMETRY BlockSymmetry
INVARIANTS
    TypeOK
    ReadsOwnWrites
    SuccessIsOnDevice
    FailureLeavesDevice
