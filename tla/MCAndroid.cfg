SPECIFICATION AndroidSpec
CONSTANTS
    TUNNELS = 2
INVARIANTS
    TunnelExact
PROPERTIES
    DisconnectEnds
