\* Attributes of two files that move between tail and block.
SPECIFICATION Spec
CONSTANTS
    Inodes = {1, 2}
    Tailed = {1}
    Names <- TwoNames
    Values <- SmallValues
    TailWords = 13
    BlockWords = 22
    Blocks = {1, 2}
INVARIANTS
    TypeOK
    AttrsListed
    AclBlocksOwned
