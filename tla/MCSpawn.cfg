\* Two objects used in any order, so that a program inherits ends of the other
\* object's pipes in every state those can be in; with nested use both programs
\* read their input to the end.  The process may lack its standard input.
CONSTANTS
    Objects = {o1, o2}
    Redirections = {{0, 1}, {2}}
    Missing = {{}, {0}}
    MaxFd = 10
    MaxExecutes = 2
    Filters = {o1, o2}
    None = None
SPECIFICATION Spec
INVARIANTS
    ExactlyOwnEnds
    OnlyFirstExecute
    OutputEnds
PROPERTY WaitReturns
\* The program stops when every object is gone.
CHECK_DEADLOCK FALSE
