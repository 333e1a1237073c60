SPECIFICATION Spec
CONSTANTS
    Request = {r1, r2}
    Limit = 2
    SeenLimit = 1
    MaxPerBlock = 1
    MaxTime = 3
    MaxRestarts = 0
INVARIANT HandledOnce
CHECK_DEADLOCK FALSE
