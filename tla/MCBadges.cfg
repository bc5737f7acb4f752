\* Two panes, one server that stays up; nothing is marked as read.
CONSTANTS
    None = None
    Clients = {c1}
    Panes = {p1, p2}
    IdentityCap = 2
    UnreadCap = 2
    MaxAttempts = 1
    MaxSeq = 2
    MaxRevision = 2
    MaxEpoch = 1
    MaxRequests = 0
    MaxLinks = 1
    MaxOutbox = 2
    MaxQueue = 3
SPECIFICATION Spec
INVARIANT BadgesArrive
CHECK_DEADLOCK FALSE
