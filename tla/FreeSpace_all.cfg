\* Failing operations, device errors inside calls, crashes and fsck --fix.
SPECIFICATION Spec
CONSTANTS
    GroupCount = 2
    PerGroup = 2
    FirstInode = 1
    InitUsed <- MCInitUsed
    MaxCalls = 2
    MaxFailures = 1
    IoErrors = TRUE
INVARIANTS
    TypeOK
    NothingLostOrShared
    CountsExact
