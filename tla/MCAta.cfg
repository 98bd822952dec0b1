CONSTANTS
    Byte = 2
    Nibble = 2
    Words = 2
    Values = {0, 1}
    Size = 12
    Tried = {5, 11, 12}
    Limit = 2
    DriveErrors = TRUE
SPECIFICATION Spec
PROPERTIES
    IsASectorDisk
    OperationsReturn
