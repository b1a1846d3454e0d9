\* All operations, with one failing device write in any of them; names are interchangeable.
SPECIFICATION Spec
CONSTANTS
    Names = {a, b}
    Inodes = {1, 2, 3}
    MaxDepth = 2
    Words = {"x"}
    InlineMax = 1
    MaxSize = 2
    DataBlocks = {1, 2}
    MaxLinks = 2
    Linear = TRUE
    Faulty = {2, 4}
    Beyond = {}
SYMMETRY NameSymmetry
CONSTRAINT NotListed
INVARIANTS
    TypeOK
    NamesSound
    PathCacheCurrent
    DataIntact
PROPERTIES
    ImplementsNameMaps
