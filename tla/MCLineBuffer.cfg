\* Three bytes of storage, five bytes stored: the range can be full, run
\* empty in the middle and at the end of the array, and be filled again.
CONSTANTS
    BUFFER_SIZE = 3
    Byte = {nl, nul, a, b}
    NL = nl
    NUL = nul
    MaxStored = 5
SPECIFICATION LBSpec
INVARIANTS
    LBTypeOK
    EmptyIsAllFree
    NothingLost
PROPERTY ImplementsQueue
