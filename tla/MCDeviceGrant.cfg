SPECIFICATION Spec
CONSTANTS
  Devices = {d1, d2}
  UserCodes = {k1}
  Clients = {c1}
  Users = {u1}
  Polls = {p1, p2}
  Decisions = {q1, q2}
  NoDevice = NoDevice
  NoCode = NoCode
  NoClient = NoClient
  NoUser = NoUser
  ExpiresIn = 2
  Interval = 1
  SlowDownStep = 1
  CleanupAge = 0
  MaxTime = 3
  MaxInterval = 2
SYMMETRY Symmetry
INVARIANTS LiveCodesDistinct
PROPERTY ImplementsApprovalGrant
CHECK_DEADLOCK FALSE
