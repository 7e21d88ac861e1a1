SPECIFICATION Spec
CONSTANTS
  laptop = laptop
  phone = phone
  tablet = tablet
  a1 = a1
  a2 = a2
  a3 = a3
  Names = {laptop, phone, tablet}
  Sessions = {1, 2, 3, 4}
  Addresses = {a1, a2, a3}
  Macs = {m1, m2, m3}
  Configs <- MCDirected
  InitialConfig <- MCInitial
  MAX_MACS = 2
INVARIANTS
  RoutesByPolicy
