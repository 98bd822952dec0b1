CONSTANTS
    AddrSpace = 2048
    KernelBase = 1024
    BlockSize = 3
    SlotsPerBlock = 8
    SlotsInside = 7
    NDirect = 3
    NameField = 2
    ComponentMax = 3
    PageSize = 4
    LoadAddr = {8, 9, 10, 11, 12, 13, 14, 15, 16, 17, 18, 19, 20, 21, 22, 23}
    Volumes <- MCVolumes
    HeaderOf <- MCHeaderOf
    Bytes = {"NUL", "NL", "/", "a", "b", "c", "d", "e", "f", "g", "h", "p", "q", "r", "s", "t", "u",
             "v", "w", "x", "aligned", "shifted", "shared", "wild", "dynamic"}
    Paths <- MCPaths
    Texts <- MCTexts
    Pointers <- MCPointers
    Sizes <- MCSizes
    WriteMax = 4
    ReadMax = 7
    PathMax = 256
    ListMax = 7
    EntriesMax = 2
    IpcMax = 256
    QueueMax = 2
    IntMax = 2147483647
    HelloDigits = {10}
    MaxFrames = 5
SPECIFICATION Spec
CHECK_DEADLOCK FALSE
INVARIANTS
    PathsNameFiles
    FilesAreShownAsStored
    CopiesStayInBounds
    ExecLoadsAndReleases
