SPECIFICATION Spec
CONSTANTS
    Node = n1
    Conns = {c1, c2, c3}
    Joins = {j1}
    Deletes = {}
    NoConn = NoConn
    NoJoin = NoJoin
    Nodes <- MCNodes
    NodeOf <- MCNodeOf
CHECK_DEADLOCK FALSE
PROPERTIES
    RemovesDisconnected
