CONSTANTS
    h1 = h1
    h2 = h2
    p1 = p1
    p2 = p2
    Hooks = {h1, h2}
    Places = {p1, p2}
    Scenarios <- MCQuery
SPECIFICATION FairSpec
PROPERTIES QueriesShown
