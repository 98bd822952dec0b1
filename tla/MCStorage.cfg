CONSTANTS
    DiskSizes = {0, 1, 2, 3, 4, 5, 6, 9, 12}
    VirtualSectors = 16
    HeapSectors = 4
    LbaStart = 2
    DefaultSectors = 8
    PartSizes = {1, 5, 6, 9}
    BlockSectors = 2
    MetaBlocks = 3
    MaxCrashes = 3
SPECIFICATION BootSpec
INVARIANTS
    FoundDataAreKept
    WritesStayInsideThePartition
    FreshMountIsComplete
PROPERTY BootFinishes
CHECK_DEADLOCK FALSE
