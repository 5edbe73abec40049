\* echo prints one line and exits; nothing but the iteration uses the object.
CONSTANTS
    nl = nl
    nul = nul
    a = a
    b = b
    child = child
    BUFFER_SIZE = 2
    Byte = {nl, nul, a, b}
    NL = nl
    NUL = nul
    Writers = {child}
    VbWriters = {}
    Scripts <- MCScripts
    CAPACITY = 8
    PIPE_BUF = 3
    PollInAtEof = FALSE
    ExitCode = 3
    BodyCalls = {}
    Errors = {0}
    ERR_LINES = 2
SPECIFICATION ESpec
INVARIANT AllOutputSeen
