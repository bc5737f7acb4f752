\* One client, under fairness.
CONSTANTS
    Clients = {c1}
    Fresh = {}
    SyncUse <- StartUse
    MaxChunks = 2
    Capacity = 4
    BufferLimit = 2
    MaxResizes = 0
    Peer = Peer
    Nobody = Nobody
SPECIFICATION FairSpec
PROPERTIES
    SyncIsBounded
    PendingEnds
CHECK_DEADLOCK FALSE
