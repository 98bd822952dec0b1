CONSTANTS
    MaxProcs = 4
    BootProcs = 5
    Quantum = 3
    Word = 16
    SetsCurrent = TRUE
SPECIFICATION Spec
INVARIANTS
    TypeOK
    RunningOwnsRsp0
    RingHasEveryProcess
    WaitIsBounded
PROPERTIES
    ZombiesStayDead
    WaitersStayOffTheCpu
    NoStarvation
