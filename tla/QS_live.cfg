CONSTANTS
    s1 = s1
    c1 = c1
    c2 = c2
    c3 = c3
    None = None
    Subscribers = {s1}
    Users = {}
    Cells = {c1, c2, c3}
    MayStall = {s1}
    SlowClone = FALSE
    IntervalMayHold = FALSE
    NSetValue = 1
    NMutateSet = 0
    NMutate = 1
    NAbsolute = 0
    NAppend = 0
    MaxSent <- MCMaxSent
SPECIFICATION FairSpec
INVARIANTS NothingLost
PROPERTIES EventuallyPublished EventuallyShown
