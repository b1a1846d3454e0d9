\* Files without holes: writes start inside the file or at its end.
SPECIFICATION Spec
CONSTANTS
    Files = {1, 2}
    Paths = {"a", "b"}
    InodeOf <- TwoFiles
    BlockCount = 6
    BlockWords = 2
    RootMax = 2
    LeafMax = 3
    MaxLen = 2
    MaxSize <- ThreeBlocks
    MaxBuf = 2
    MaxCuts = 1
    Sparse = FALSE
    CommitErrors = TRUE
INVARIANTS
    TypeOK
    DataIntact
    BlocksOwned
    DataReclaimed
    HandlesFollow
