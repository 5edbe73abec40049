\* Two directories that may disappear, two error numbers. Programs stop: exec
\* replaces the process, and a destructor may terminate it.
CONSTANTS
    home = home
    a = a
    Threads = {t1, t2}
    Guards = {t1, t2, g1, g2}
    Dirs = {home, a}
    Home = home
    MaxLive = 2
    Requests <- MCRequests
    Strings = {"/bin/ls", "./run", "ls", "x"}
    Programs <- MCPrograms
    Absolute = {"/bin/ls"}
    Bare = {"ls"}
    Codes = {2, 11}
SYMMETRY Symmetric
SPECIFICATION Spec
CHECK_DEADLOCK FALSE
INVARIANTS
    DirectoryRestored
    StartsAsAsked
    
