CONSTANTS
    u1 = u1
    c1 = c1
    c2 = c2
    c3 = c3
    None = None
    Subscribers = {}
    Users = {u1}
    Cells = {c1, c2, c3}
    MayStall = {u1}
    SlowClone = FALSE
    IntervalMayHold = TRUE
    NSetValue = 1
    NMutateSet = 0
    NMutate = 2
    NAbsolute = 1
    NAppend = 1
    MaxSent <- MCMaxSent
SPECIFICATION Spec
SYMMETRY Symmetry
INVARIANTS TypeOK BuffersAgree AppliedInOrder
PROPERTIES SnapshotSpec
