CONSTANTS
    NProcs = 2
    NFrames = 16
    Fanout = 6
    PageBytes = 2
    HeapMax = 28
    StackPage = 35
    MmapAddrs = {0, 80}
    MmapLengths = {3}
    FaultPages = {}
    Leftovers = {5}
    Preemptive = TRUE
SPECIFICATION Spec
INVARIANTS
    EveryFrameHasOneOwner
CHECK_DEADLOCK FALSE
