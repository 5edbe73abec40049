\* The kernel pipe is smaller than the output, so the child blocks until the
\* parent reads; behind the first line the rest fits, so the body may wait.
CONSTANTS
    nl = nl
    nul = nul
    a = a
    b = b
    child = child
    BUFFER_SIZE = 2
    Byte = {nl, nul, a, b}
    NL = nl
    NUL = nul
    Writers = {child}
    VbWriters = {}
    Scripts <- MCScripts
    CAPACITY = 4
    PIPE_BUF = 3
    PollInAtEof = FALSE
    ExitCode = 3
    BodyCalls = {"status", "wait", "done", "err"}
    Errors = {0, 1, 3}
    ERR_LINES = 2
SPECIFICATION EFairSpec
INVARIANTS
    YieldsAPrefix
    StatusOnce
    SecondStreamUnseen
PROPERTIES
    Finishes
    ExitBeforeCallLosesNothing
