SPECIFICATION QueueSpec
CONSTANTS
  Keys = {k1, k2, k3}
  Sizes = {1, 3}
  QUANTUM = 2
  CAPACITY = 3
  PER_PEER = 2
  MAX_TRACKED = 2
  MAX_SIZE = 3
  MAX_DEFICIT = 4
  Rates = {0, 3}
  IDLE = 1
INVARIANTS
  QueuesExact
  FairShare
  WithinRate
PROPERTY
  Drains
