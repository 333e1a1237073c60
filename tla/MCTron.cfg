SPECIFICATION FairSpec
CONSTANTS
    Request = {r1, r2}
    Limit = 2
    SeenLimit = 100
    MaxPerBlock = 2
    MaxTime = 3
    MaxRestarts = 1
INVARIANTS NothingSkipped HandledOnce
CHECK_DEADLOCK FALSE
PROPERTY EventsArrive
