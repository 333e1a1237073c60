SPECIFICATION Spec
CONSTANTS
    Request = {r1, r2}
    Limit = 2
    SeenLimit = 100
    MaxPerBlock = 1
    MaxTime = 2
    MaxRestarts = 0
INVARIANT NoPileUp
CHECK_DEADLOCK FALSE
