\* Concurrency: three requests in flight on one code and the family it starts.
CONSTANTS
  Codes = {c1}
  Tokens = {t1, t2, t3, t4}
  Requests = {r1, r2, r3}
  Clients = {cl1}
  Scopes = {s1}
  Keys = {}
  NoCode = NoCode
  NoToken = NoToken
  NoKey = NoKey
  CodeTTL = 1
  AccessTTL = 1
  RefreshTTL = 1
  GrantExpiries = {}
  DenylistOn = TRUE
  MaxTime = 0
SYMMETRY Symmetry
SPECIFICATION Spec
INVARIANTS OneLivePerFamily RedeemedOnce CleanRevocationIsFinal CleanReplayIsFinal
CHECK_DEADLOCK FALSE
