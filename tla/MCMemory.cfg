CONSTANTS
    NProcs = 2
    NFrames = 15
    Fanout = 6
    PageBytes = 2
    HeapMax = 28
    StackPage = 35
    MmapAddrs = {0, 14, 440}
    MmapLengths = {3}
    FaultPages = {40}
    Leftovers = {5}
    Preemptive = FALSE
SPECIFICATION Spec
INVARIANTS
    EveryFrameHasOneOwner
    WalksStayInTheTree
    GrantedMemoryIsMapped
PROPERTIES
    OnlyTheMappedPageChanges
    CallsReturn
CHECK_DEADLOCK FALSE
