SPECIFICATION DaemonSpec
CONSTANTS
    e1 = e1
    e2 = e2
    f1 = f1
    Clients = {c1}
    Conns = {k1}
    Endpoints = {e1, f1}
    V6 = {f1}
    Setups <- MCOtherFamily
    OneName = TRUE
    TORN_WRITES = FALSE
INVARIANTS
    RoutesRestored
