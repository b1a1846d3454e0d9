\* Are items still there after the next mount?
SPECIFICATION Spec
CONSTANTS
    Keys = {1, 2, 3, 4, 5, 6}
    Sizes = {3, 4}
    MetaBlocks = {1, 2, 3, 4, 5, 6, 7, 8, 9}
    DataBlocks = {10, 11}
    LeafCap = 10
    PtrCap = 3
    Extents = 1
    MountAfterSplit = TRUE
PROPERTIES
    ItemsSurviveMount
