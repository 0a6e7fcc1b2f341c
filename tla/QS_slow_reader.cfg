CONSTANTS
    s1 = s1
    c1 = c1
    c2 = c2
    c3 = c3
    c4 = c4
    None = None
    Subscribers = {s1}
    Users = {}
    Cells = {c1, c2, c3, c4}
    MayStall = {}
    SlowClone = TRUE
    IntervalMayHold = FALSE
    NSetValue = 0
    NMutateSet = 0
    NMutate = 3
    NAbsolute = 0
    NAppend = 0
    MaxSent <- MCMaxSent
SPECIFICATION Spec
SYMMETRY Symmetry
INVARIANTS NothingLost
