\* One directory, symbolic links to it, a full device, I/O errors, failed commits.
SPECIFICATION Spec
CONSTANTS
    Names = {"a", "b"}
    NameLen <- TwoNames
    BlockWords = 9
    Inodes = {1, 2, 3}
    Blocks = {1, 2, 3}
    MaxDepth = 2
    Targets <- TheRoot
    MaxSymlinks = 1
    MaxLinks = 2
    Spare = 0
    Faults = {"io", "commit"}
    Calls = {"create", "symlink", "link", "unlink", "rename"}
    Listed <- TheRoot
CONSTRAINT NotUndone
INVARIANTS
    BlocksIntact
    DirCacheCurrent
    ListingHasNoGhosts
