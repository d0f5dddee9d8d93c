\* Three rows in pages of one row, two runs, and one that fails.
CONSTANTS
    Row = {r1, r2, r3}
    Run = {d1, d2}
    DueLimit = 1
    MaxFaults = 1
SPECIFICATION FairSpec
INVARIANT DrainedWhenQuiet
PROPERTY DueIsServed
CHECK_DEADLOCK FALSE
