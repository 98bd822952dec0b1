CONSTANTS
    a = a
    b = b
    c = c
    Procs = {a, b, c}
    Callers = {a}
SPECIFICATION Spec
INVARIANTS
    RunsAsItself
    WaitingFramesAreIntact
    StacksAreBounded
