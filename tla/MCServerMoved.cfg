SPECIFICATION DaemonSpec
CONSTANTS
    e1 = e1
    e2 = e2
    f1 = f1
    Clients = {c1}
    Conns = {k1}
    Endpoints = {e1, e2}
    V6 = {}
    Setups <- MCMoving
    OneName = TRUE
    TORN_WRITES = FALSE
INVARIANTS
    FollowsServer
