SPECIFICATION Spec
CONSTANTS
    r1 = r1
    r2 = r2
    hello = hello
    index = index
    good = good
    better = better
    bad = bad
    NoText = NoText
    Requests = {r1, r2}
    Views = {hello}
    Above <- FlatAbove
    Contents = {good, better}
    Broken = {}
    CacheModes = {TRUE}
    Stamping = {"kept"}
    KeptStamp <- MCKeptStamp
    MaxTime = 2
INVARIANT RunsUnderItsTime
