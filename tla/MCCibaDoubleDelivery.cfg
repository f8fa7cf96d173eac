SPECIFICATION Spec
CONSTANTS
  AuthReqs = {g1}
  Clients = {c1}
  Users = {u1}
  Polls = {p1, p2}
  Callbacks = {k1, k2}
  NoAuthReq = NoAuthReq
  NoClient = NoClient
  NoUser = NoUser
  NoPoll = NoPoll
  Storages = {"memory"}
  Overlapping = {"memory"}
  DefaultExpiry = 2
  MaxRequestedExpiry = 2
  RequestedExpiries = {0}
  DefaultInterval = 1
  MinPollInterval = 1
  MaxTime = 3
SYMMETRY Symmetry
INVARIANTS DeliveredOnce
CHECK_DEADLOCK FALSE
