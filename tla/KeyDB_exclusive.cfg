SPECIFICATION Spec
CONSTANTS
    p1 = p1
    p2 = p2
    v1 = v1
    nulval = nulval
    Procs = {p1, p2}
    KeyOrder <- OneKey
    NulKey = "nul"
    Vals = {v1}
    NulVal = nulval
    Policies <- Fast
    Calls <- LockCalls
    MaxChunks = 2
    MaxOpens = 2
INVARIANT LockIsExclusive
SYMMETRY ProgramsAlike
