\* Terms: clients, scopes, DPoP keys and time.
CONSTANTS
  Codes = {c1}
  Tokens = {t1, t2, t3}
  Requests = {r1}
  Clients = {cl1, cl2}
  Scopes = {s1, s2}
  Keys = {k1, k2}
  NoCode = NoCode
  NoToken = NoToken
  NoKey = NoKey
  CodeTTL = 1
  AccessTTL = 2
  RefreshTTL = 3
  GrantExpiries = {2}
  DenylistOn = TRUE
  MaxTime = 3
SYMMETRY Symmetry
SPECIFICATION Spec
INVARIANTS RotationNarrowsGrant GrantNeverOutlived
 
CHECK_DEADLOCK FALSE
