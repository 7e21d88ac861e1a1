SPECIFICATION DataPlaneSpec
CONSTANTS
  WORDS = 3
  BITS = 2
  MAX_SEQ = 12
  WINDOW_SIZE = 2
  SEQ_LIMIT = 3
  MAX_PHASE = 1
  GRACE = TRUE
  laptop = laptop
  phone = phone
  tablet = tablet
  a1 = a1
  a2 = a2
  a3 = a3
  Names = {laptop, phone, tablet}
  Sessions = {1, 2, 3, 4}
  Addresses = {a1, a2, a3}
  Macs = {m1, m2, m3}
  Configs <- MCSymmetric
  InitialConfig <- MCInitial
  MAX_MACS = 2
INVARIANTS
  ClearsExactly
  DeliveredOnce
  NonceUnique
  WindowsGenuine
  ServerGraceHonoured
  MacsExact
  RoutesByPolicy
PROPERTIES
  ImplementsPromise
  ImplementsWindow
  MacKept
