SPECIFICATION Spec
CONSTANTS
    Node = n1
    Conns = {c1, c2}
    Joins = {j1}
    Deletes = {d1}
    NoConn = NoConn
    NoJoin = NoJoin
    Nodes <- MCNodes
    NodeOf <- MCNodeOf
CHECK_DEADLOCK FALSE
PROPERTIES
    DispatchEnds
    StatusRecovers
