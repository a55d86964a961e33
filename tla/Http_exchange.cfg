SPECIFICATION Spec
CONSTANTS
    c1 = c1
    c2 = c2
    Clients = {c1, c2}
    Kinds <- PostPostMissing
    NonBlockingAccept = TRUE
    MaxConnections = 2
    MaxRequests = 2
    MaxStarts = 2
SYMMETRY Symmetry
INVARIANT TypeOK
INVARIANT AnswerMatches
INVARIANT RequestsAreServedOnce
