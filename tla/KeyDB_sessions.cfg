SPECIFICATION Spec
CONSTANTS
    p1 = p1
    v1 = v1
    nulval = nulval
    Procs = {p1}
    KeyOrder <- MCKeyOrder
    NulKey = "nul"
    Vals = {v1}
    NulVal = nulval
    Policies <- Sessions
    Calls <- SessionCalls
    MaxChunks = 4
    MaxOpens = 2
    P = p1
PROPERTY ImplementsKVStore
PROPERTY CleanClose
