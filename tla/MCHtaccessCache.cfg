\* Two files, a cache of two entries, no failure: one entry may be a stale
\* duplicate, so both the tail and a hit below the head occur.
CONSTANTS
    Paths = {p1, p2}
    Rules = {r1, r2}
    Stamps = {s1, s2, s3}
    Pools = {q1, q2, q3}
    MaxEntries = 2
    CacheFlags = {TRUE}
    Faults = {}
    Nil = Nil
    Malformed = Malformed
    Free = Free
SYMMETRY Symmetry
SPECIFICATION Spec
INVARIANTS
    TypeOK
    CacheBounded
    PoolsOwnedOnce
    StampFaithful
    ResultIsMostRecent

    
