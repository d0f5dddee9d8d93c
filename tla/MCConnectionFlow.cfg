\* The grant a connected connection uses, when the owner starts a second flow
\* before the first one came back.
CONSTANTS
    Process = {p1, p2}
    MaxFlows = 2
    MaxTurns = 2
    MaxVersion = 5
    MaxLease = 6
    MaxFaults = 1
SPECIFICATION Spec
INVARIANT CallbackOfNewFlow
CHECK_DEADLOCK FALSE
