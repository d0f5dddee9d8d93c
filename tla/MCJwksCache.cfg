\* Two requests and two keys; the intervals in the order of 5, 30 and 300
\* seconds, and time for two lives of the cache.
CONSTANTS
    Request = {r1, r2}
    Kid = {k1, k2}
    MaxKeys = 1
    Ttl = 3
    Cooldown = 2
    Timeout = 1
    MaxTime = 7
SYMMETRY Alike
SPECIFICATION Spec
INVARIANTS FetchesBounded AcceptedWasPublished RefusalsHaveCause
CHECK_DEADLOCK FALSE
