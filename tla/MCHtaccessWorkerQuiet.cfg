\* Three files, any of which may be missing or malformed, and a cache of two:
\* entries are evicted all the time, yet a walk never needs more than two.
CONSTANTS
    root = root
    sub = sub
    other = other
    Paths <- SitePaths
    Chains <- SiteChains
    Rules = {r1, r2}
    Stamps = {s1}
    Pools = {q1, q2, q3}
    MaxEntries = 2
    CacheFlags = {TRUE}
    Faults = {}
    MaxRedirects = 2
    MaxReplies = 1
    Nil = Nil
    Malformed = Malformed
    Free = Free
SPECIFICATION QuietSpec
INVARIANTS
    WorkerTypeOK
    MergedRulesLive
    AppliedAreTheSites
PROPERTIES
    RequestEnds
