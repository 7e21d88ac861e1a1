SPECIFICATION DaemonSpec
CONSTANTS
    e1 = e1
    e2 = e2
    f1 = f1
    Clients = {c1, c2}
    Conns = {k1, k2}
    Endpoints = {e1, e2, f1}
    V6 = {f1}
    Setups <- MCSetups
    OneName = TRUE
    TORN_WRITES = FALSE
INVARIANTS
    HostRestored
    FailClosed
    EndpointPhysical
    OneOwner
PROPERTIES
    ResolverRestored
    Reconnects
    DisconnectAnswered
