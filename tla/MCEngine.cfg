\* Two turns of a conversation with at most three model requests each.
CONSTANTS
    t1 = t1
    t2 = t2
    c1 = c1
    c2 = c2
    Tool = {t1, t2}
    Connectors <- Both
    ConnectorOf <- Hosts
    Id = {i1, i2, i3}
    MaxRounds = 3
    MaxMessages = 7
    MaxBatch = 2
    MaxTurns = 2
    MaxVersion = 2
    MaxChanges = 1
SYMMETRY Alike
SPECIFICATION Spec
INVARIANTS SendsWhatWasShown ExecutedOnce CheckpointKeepsActions NothingUnreported ReservedOnce
PROPERTY UncertaintyStops
CHECK_DEADLOCK FALSE
