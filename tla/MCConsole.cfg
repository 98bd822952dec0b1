CONSTANTS
    Width = 2
    Height = 2
    Lines = 2
    Tab = 8
    Word = 16
    Writers = {process, irq}
    Interrupts = {irq}
    MaxCalls = 6
SPECIFICATION Spec
INVARIANTS
    CursorComesBack
    HistoryIsTheLastLines
PROPERTY ArrowsMoveByOneLine
CHECK_DEADLOCK FALSE
