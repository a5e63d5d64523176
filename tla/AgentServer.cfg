SPECIFICATION SafetySpec
CONSTANTS
    Node = n1
    Conns = {c1, c2, c3}
    Joins = {j1}
    Deletes = {d1}
    NoConn = NoConn
    NoJoin = NoJoin
    Nodes <- MCNodes
    NodeOf <- MCNodeOf
SYMMETRY Symmetry
CHECK_DEADLOCK FALSE
INVARIANTS
    TypeOK
    MapHoldsLiveHandlers
    OpenIsRegisteredOrEvicted
    OfflineWhenAllGone
    PendingIsInProgress
    NobodyWaitsOnDeadSession
