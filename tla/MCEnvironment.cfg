\* Imports by a definition make values of up to three pieces.
CONSTANTS
    A = A
    B = B
    Empty = Empty
    Names = {A, B}
    Values <- MCValues
    Raws <- MCRaws
SPECIFICATION Spec
INVARIANTS
    TypeOK
    QueriesAgree
PROPERTY ImplementsMap
