\* Two objects on two process ids: an id is reused by the other object, or by
\* the same one that executes again; waits before execute are among the steps.
CONSTANTS
    Executions = {e1, e2}
    Pids = {1, 2}
    Codes = {0, 3}
SPECIFICATION RFairSpec
INVARIANTS
    RTypeOK
    OwnStatus
    NoEchild
    NoZombieLeft
PROPERTIES
    EventuallyReaped
