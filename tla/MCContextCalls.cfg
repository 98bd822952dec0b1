CONSTANTS
    a = a
    b = b
    Procs = {a, b}
    Callers = {a, b}
SPECIFICATION Spec
INVARIANT RunsAsItself
