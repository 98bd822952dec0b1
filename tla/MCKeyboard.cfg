CONSTANTS
    Size = 3
    KeySets = {{"a", "ENTER", "BACKSPACE", "UP"}, {"l", "LCTRL"}, {"l", "LSHIFT", "CAPSLOCK"}, {"ESC", "TAB", "BACKSPACE"}}
    Readers = {r1, r2}
    Counts = {0, 2}
SPECIFICATION Spec
INVARIANTS
    EchoIsWhatIsRead
    ReadsReturnLines
PROPERTIES
    RingIsAQueue
    NoSleepOnInput
