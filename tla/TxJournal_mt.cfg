\* Two operations at a time on one fs.dev.
SPECIFICATION FairSpec
CONSTANTS
    b1 = b1
    b2 = b2
    b3 = b3
    t1 = t1
    t2 = t2
    Magic = Magic
    Escaped = Escaped
    Threads = {t1, t2}
    Blocks = {b1, b2}
    BlocksOf <- OwnBlock
    Data = {0}
    Writes <- TwoWrites
    JournalKinds = {"jbd2"}
    S_maxlen = 8
    MaxTags = 2
    MaxTx = 2
    MaxWrites = 1
    Faults = TRUE
INVARIANTS
    WriteAhead
PROPERTIES
    OperationsEnd
