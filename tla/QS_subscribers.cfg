CONSTANTS
    s1 = s1
    s2 = s2
    c1 = c1
    c2 = c2
    c3 = c3
    c4 = c4
    None = None
    Subscribers = {s1, s2}
    Users = {}
    Cells = {c1, c2, c3, c4}
    MayStall = {}
    SlowClone = TRUE
    IntervalMayHold = FALSE
    NSetValue = 1
    NMutateSet = 1
    NMutate = 1
    NAbsolute = 0
    NAppend = 0
    MaxSent <- MCMaxSent
SPECIFICATION Spec
SYMMETRY Symmetry
INVARIANTS NoLostWakeup DeferralEnds
PROPERTIES FrozenUnderGuard ArcImmutable
