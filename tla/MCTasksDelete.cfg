\* The deletion of an agent against one worker.
CONSTANTS
    Task = {t1}
    A2ATask = {}
    Worker = {w1}
    Lease = 1
    Retry = 1
    MaxTurn = 0
    MaxVersion = 3
    MaxCalls = 1
    MaxCrashes = 0
SPECIFICATION Spec
INVARIANT DeletionClearsRecords
CHECK_DEADLOCK FALSE
