CONSTANTS
    Hooks = {h1, h2}
    MaxBevy = 2
    MaxSet = 1
    MaxMutate = 2
SPECIFICATION FairSpec
INVARIANTS TypeOK BevyChangesKept Converged NoEcho
PROPERTIES MutationsArrive
