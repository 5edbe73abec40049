\* A pipe redirected onto standard input.
CONSTANTS
    Objects = {p1}
    MaxFd = 5
    Inherited = {0, 1, 2}
    Targets = {0}
    MaxRedirects = 1
SPECIFICATION Spec
INVARIANT DirectionIsOpenEnds
