\* A site at rest with one file more than the cache has entries.
CONSTANTS
    root = root
    sub = sub
    other = other
    Paths <- SitePaths
    Chains <- SiteChains
    Rules = {r1}
    Stamps = {s1}
    Pools = {q1, q2, q3}
    MaxEntries = 2
    CacheFlags = {TRUE}
    Faults = {}
    MaxRedirects = 1
    MaxReplies = 1
    Nil = Nil
    Malformed = Malformed
    Free = Free
SPECIFICATION QuietSpec
INVARIANTS
    HeadersSentAsSet
