\* Three loops that alternate over one coroutine, which returns or throws after
\* up to four values.
CONSTANTS
    Loops = {a, b, c}
    Length = 4
SYMMETRY Symmetry
SPECIFICATION Spec
INVARIANTS
    TypeOK
    InOrderOnce
    LostToTheEnd
    ThrownOnce
