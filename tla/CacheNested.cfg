SPECIFICATION FairSpec
CONSTANTS
    r1 = r1
    r2 = r2
    hello = hello
    index = index
    good = good
    better = better
    bad = bad
    NoText = NoText
    Requests = {r1, r2}
    Views = {hello, index}
    Above <- NestedAbove
    Contents = {good, bad}
    Broken = {bad}
    CacheModes = {TRUE}
    Stamping = {"fresh"}
    KeptStamp <- MCKeptStamp
    MaxTime = 3
INVARIANTS
    TypeOK
    NeverStale
PROPERTIES
    ImplementsViewStore
    CacheSettles
