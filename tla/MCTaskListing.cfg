\* Three tasks of two callers in two seconds; one row a query, a scan that
\* the third takes to its limit, and one task a page.
CONSTANTS
    MaxTasks = 3
    Caller = {c1, c2}
    Owner = owner
    Principal = {c1, owner}
    QueryLimit = 1
    ScanLimit = 3
    PageSize = 1
    MaxTime = 1
SPECIFICATION Spec
INVARIANT NothingSkipped
CHECK_DEADLOCK FALSE
