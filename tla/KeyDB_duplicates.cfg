SPECIFICATION Spec
CONSTANTS
    p1 = p1
    v1 = v1
    v2 = v2
    nulval = nulval
    Procs = {p1}
    KeyOrder <- MCKeyOrder
    NulKey = "nul"
    Vals = {v1, v2}
    NulVal = nulval
    Policies <- Fast
    Calls <- CrashCalls
    MaxChunks = 6
    MaxOpens = 1
PROPERTY DuplicatesHandled
