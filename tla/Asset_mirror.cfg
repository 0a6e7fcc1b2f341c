CONSTANTS
    h1 = h1
    h2 = h2
    a1 = a1
    a2 = a2
    NoId = NoId
    Hooks = {h1, h2}
    Ids = {a1, a2}
    Scenarios <- MCScenarios
SPECIFICATION FairSpec
INVARIANTS TypeOK CountedAreUsed Converged
PROPERTIES BevyChangesKept EventuallyBound EventuallyShown MutationsArrive
