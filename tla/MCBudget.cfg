\* Three callers, two of them with the same reservation id; one reservation
\* fits the limit beside another only if both are small.
CONSTANTS
    c1 = c1
    c2 = c2
    c3 = c3
    i1 = i1
    i2 = i2
    Caller = {c1, c2, c3}
    Id = {i1, i2}
    IdOf <- Shared
    LastMonth = 1
    Amount = {2, 3}
    Cost = {2, 4}
    Limit = 5
    MaxTries = 2
SYMMETRY Alike
SPECIFICATION Spec
INVARIANTS LedgerBalances WithinLimit OneCallPerReservation UncertainKeepsReservation
PROPERTY ImplementsBudgetSpec
CHECK_DEADLOCK FALSE
