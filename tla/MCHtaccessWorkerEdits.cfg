\* Edits at any instant, and no more room than a walk of two files needs.
CONSTANTS
    root = root
    sub = sub
    other = other
    Paths <- TwoPaths
    Chains <- TwoChains
    Rules = {r1}
    Stamps = {s1, s2}
    Pools = {q1, q2, q3}
    MaxEntries = 2
    CacheFlags = {TRUE}
    Faults = {}
    MaxRedirects = 1
    MaxReplies = 0
    Nil = Nil
    Malformed = Malformed
    Free = Free
SPECIFICATION WorkerSpec
PROPERTIES
    OnlyStaleLookupsDestroy
    
    HandlerGetsOn
