SPECIFICATION FairTunnelSpec
CONSTANTS
  p1 = p1
  p2 = p2
  e1 = e1
  e2 = e2
  Me = p1
  Peers <- MCPeers
  CertPeers = {}
  Endpoints = {e1, e2}
  Configs <- MCConfigs
  InitialConfig <- MCInitialConfig
  MAX_PENDING = 8
  MIN_PER_SOURCE = 8
  RETRY_LIMIT = 2
  MAX_HS = 14
  MAX_FAULTS = 2
  MAX_REKEYS = 1
  MAX_INITS = 6
INVARIANTS
  Agreement
PROPERTIES
  ClientKeysAdvance
  Recovers

CHECK_DEADLOCK FALSE
