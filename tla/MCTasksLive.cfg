\* One task, two concurrent invocations, one crash: no symmetry, and no second
\* turn, because a turn is queued and ends like the first.
CONSTANTS
    Task = {t1}
    A2ATask = {}
    Worker = {w1, w2}
    Lease = 1
    Retry = 1
    MaxTurn = 0
    MaxVersion = 3
    MaxCalls = 1
    MaxCrashes = 1
SPECIFICATION FairSpec
PROPERTIES QueuedIsTaken RunningEnds
CHECK_DEADLOCK FALSE
