SPECIFICATION FairSpec
CONSTANTS
    c1 = c1
    c2 = c2
    Clients = {c1, c2}
    Kinds <- JustPost
    NonBlockingAccept = TRUE
    MaxConnections = 2
    MaxRequests = 2
    MaxStarts = 1
PROPERTY RequestAnswered
