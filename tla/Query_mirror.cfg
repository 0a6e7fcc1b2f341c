CONSTANTS
    h1 = h1
    h2 = h2
    q1 = q1
    q2 = q2
    e1 = e1
    Hooks = {h1, h2}
    Queries = {q1, q2}
    Entities = {e1}
    QueryOf <- MCQueryOf
    MaxMount = 3
    MaxToggle = 1
    MaxBevy = 1
    MaxMutate = 1
SPECIFICATION Spec
INVARIANTS TypeOK ListedAreLive BevyChangesKept Converged
