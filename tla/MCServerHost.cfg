SPECIFICATION Spec
CONSTANTS
    RULES = 1
    DnsConfigs = {"off", "a", "b"}
    MAX_SESSIONS = 2
    LAST_DAY = 1
    RETENTION = 1
    MAX_PACKETS = 2
    Setups <- MCSetups
    MAX_FAULTS = 2
INVARIANTS
    ServerHostRestored
    DnsInStep
    UsageExact
PROPERTIES
    HistoryDurable
    ShutdownCompletes
