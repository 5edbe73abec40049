\* Two objects at a time and a third to move into, on a table with room for
\* the standard streams, two pipes and two redirections.
CONSTANTS
    Objects = {p1, p2, p3}
    MaxFd = 7
    Inherited = {0, 1, 2}
    Targets = {0, 1, 2}
    MaxRedirects = 2
SYMMETRY Symmetry
SPECIFICATION Spec
INVARIANTS
    TypeOK
    OwnEnds
    NoLeak
\* The program stops when every object is gone.
CHECK_DEADLOCK FALSE
