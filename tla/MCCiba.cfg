SPECIFICATION Spec
CONSTANTS
  AuthReqs = {g1}
  Clients = {c1}
  Users = {u1, u2}
  Polls = {p1, p2}
  Callbacks = {k1, k2}
  NoAuthReq = NoAuthReq
  NoClient = NoClient
  NoUser = NoUser
  NoPoll = NoPoll
  Storages = {"sqlite", "memory", "custom"}
  Overlapping = {"sqlite"}
  DefaultExpiry = 2
  MaxRequestedExpiry = 2
  RequestedExpiries = {0, 1}
  DefaultInterval = 1
  MinPollInterval = 1
  MaxTime = 3
SYMMETRY Symmetry
PROPERTY TypedAndImplements
CHECK_DEADLOCK FALSE
