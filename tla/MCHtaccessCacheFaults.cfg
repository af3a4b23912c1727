\* Every allocation and read may fail, locations with and without
\* htaccess_cache, and as many lost pools as there are. Liveness: no symmetry.
CONSTANTS
    Paths = {p1, p2}
    Rules = {r1}
    Stamps = {s1, s2}
    Pools = {q1, q2}
    MaxEntries = 1
    CacheFlags = {TRUE, FALSE}
    Faults = {"pool", "entry", "io"}
    Nil = Nil
    Malformed = Malformed
    Free = Free
SPECIFICATION Spec
INVARIANTS
    PoolsOwnedOnce
PROPERTIES
    PoolsNotLost
    LoadGetsOn
    LoadReturns
