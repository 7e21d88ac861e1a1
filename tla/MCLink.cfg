SPECIFICATION FairSpec
CONSTANTS
  TARGET_MTU = 10
  MINIMUM_MTU = 8
  FAILURE_THRESHOLD = 5
  SUCCESS_THRESHOLD = 2
  PROBE_SUCCESS_THRESHOLD = 2
  MIN_CHANGE_INTERVAL = 1
  PROBE_EVALUATION_WINDOW = 1
  SHORTEST_INTERVAL = 1
  LONGEST_INTERVAL = 2
  TIMEOUT = 4
  PathMtus <- MCPathMtus
  BulkEnds <- MCBulkEnds
INVARIANTS
  LinkHeard
PROPERTIES
  MtuPaced
  DeadLinkFound
  MtuFollowsPath
