SPECIFICATION FairSpec
CONSTANTS
  p1 = p1
  c1 = c1
  e1 = e1
  e2 = e2
  Peers <- MCPeers
  CertPeers <- MCCertPeers
  Endpoints <- MCEndpoints
  Configs <- MCConfigs
  InitialConfig <- MCInitialConfig
  MAX_PENDING = 3
  MIN_PER_SOURCE = 1
  RETRY_LIMIT = 2
  MAX_HS = 4
INVARIANT
  RxRateFollowsConfig
