CONSTANTS
    MaxProcs = 3
    BootProcs = 3
    Quantum = 2
    Word = 16
    SetsCurrent = FALSE
SPECIFICATION Spec
PROPERTY SchedulerStarts
