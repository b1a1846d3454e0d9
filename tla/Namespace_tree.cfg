SPECIFICATION Spec
CONSTANTS
    Names = {"a", "b"}
    NameLen <- TwoNames
    BlockWords = 9
    Inodes = {1, 2, 3}
    Blocks = {1, 2, 3, 4, 5}
    MaxDepth = 2
    Targets = {}
    MaxSymlinks = 1
    MaxLinks = 4
    Spare = 1
    Faults = {}
    Calls = {"create", "link", "mkdir", "unlink", "rmdir", "rename"}
    Listed = {}
INVARIANTS
    TypeOK
    EntriesSound
    FileLinksExact
    DirCacheCurrent
PROPERTIES
    ImplementsNameMaps
