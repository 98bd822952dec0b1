CONSTANTS
    Procs = {p1, p2}
    Sizes = {0, 1, 40}
    HeapSize = 192
SPECIFICATION Spec
INVARIANTS
    TypeOK
    LiveMemoryIsExclusive
    BlocksTileTheHeap
    LockIsExclusive
    OutOfMemoryIsHonest
    FullyCoalesced
    AllFreedRestoresTheHeap
PROPERTIES
    LockIsReleased
