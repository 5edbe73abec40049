\* A line of three bytes needs two loads of the two-byte buffer and fits the
\* kernel pipe only next to one other byte; a string of four may be split and
\* interrupted after every byte.  w1 writes like operator()(data...), w2 is a
\* program that need not end its last line.
CONSTANTS
    nl = nl
    nul = nul
    a = a
    b = b
    w1 = w1
    w2 = w2
    BUFFER_SIZE = 2
    Byte = {nl, nul, a, b}
    NL = nl
    NUL = nul
    Writers = {w1, w2}
    VbWriters = {w1}
    Scripts <- MCScripts
    CAPACITY = 4
    PIPE_BUF = 3
    PollInAtEof = TRUE
SPECIFICATION FairSpec
INVARIANT BytesInOrder
PROPERTIES
    ImplementsLines
    ReadEndClosedOnlyAtEof
    CallReturns
    AllDelivered
