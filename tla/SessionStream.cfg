\* One client and the resizes of another one: order, completeness, transactions.
CONSTANTS
    Clients = {c1}
    Fresh = {}
    SyncUse <- AnyUse
    MaxChunks = 2
    Capacity = 4
    BufferLimit = 2
    MaxResizes = 1
    Peer = Peer
    Nobody = Nobody
SPECIFICATION Spec
INVARIANTS
    TypeOK
    InOrder
    NothingMissing
    NoWedge
CHECK_DEADLOCK FALSE
