\* One conversation of two turns, two concurrent invocations, one crash.
CONSTANTS
    Task = {t1}
    A2ATask = {t1}
    Worker = {w1, w2}
    Lease = 1
    Retry = 1
    MaxTurn = 1
    MaxVersion = 8
    MaxCalls = 1
    MaxCrashes = 1
SYMMETRY Invocations
SPECIFICATION Spec
INVARIANTS TypeOK OneStartPerTurn SweepableIffLive HistoryFollowsTurn LateTurnsNeverStart
PROPERTIES ImplementsTaskSpec
CHECK_DEADLOCK FALSE
