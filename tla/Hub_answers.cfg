CONSTANTS
    h1 = h1
    h2 = h2
    h3 = h3
    Hooks = {h1, h2}
    Types = {"a", "b"}
    TypeOf <- MCTypeOf
    MaxRegister = 2
    MaxRequest = 3
SPECIFICATION FairSpec
INVARIANTS TypeOK AnsweredIfRegisteredFirst
PROPERTIES FetchingEnds WritesDrained
CHECK_DEADLOCK FALSE
