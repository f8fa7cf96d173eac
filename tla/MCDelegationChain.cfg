SPECIFICATION Spec
CONSTANTS
  s1 = s1
  s2 = s2
  NoUser = NoUser
  NoAgent = NoAgent
  NoGrant = NoGrant
  NoToken = NoToken
  Users = {u1}
  Agents = {a1, a2}
  Scopes = {s1, s2}
  Grants = {g1, g2}
  Tokens = {t1, t2, t3}
  Requests = {p1}
  Operators = {q1}
  RootScopes <- BareScopes
  GrantScopes <- AllScopes
  SelfScopes = {}
  Durations = {3}
  AgentExpiries = {2}
  GrantExpiries = {0}
  AccessTTL = 3
  DelegatedTTL = 2
  MaxChainDepth = 3
  UniqueLive = FALSE
  MaxTime = 1
  StatusChanges = {}
SYMMETRY Symmetry
INVARIANTS NarrowsFromRoot EveryActorAuthorized
