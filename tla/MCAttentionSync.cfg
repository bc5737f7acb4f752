\* Two panes of which the ledger keeps one, two starts of the server.
CONSTANTS
    None = None
    Clients = {c1}
    Panes = {p1, p2}
    IdentityCap = 1
    UnreadCap = 1
    MaxAttempts = 2
    MaxSeq = 2
    MaxRevision = 2
    MaxEpoch = 2
    MaxRequests = 1
    MaxLinks = 2
    MaxOutbox = 1
    MaxQueue = 2
SPECIFICATION Spec
SYMMETRY PaneSymmetry
INVARIANTS
    TypeOK
    UnreadIffBehind
PROPERTIES
    ReadOnlySeen
    ReadStaysRead
CHECK_DEADLOCK FALSE
