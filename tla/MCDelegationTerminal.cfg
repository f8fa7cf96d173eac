SPECIFICATION Spec
CONSTANTS
  s1 = s1
  s2 = s2
  NoUser = NoUser
  NoAgent = NoAgent
  NoGrant = NoGrant
  NoToken = NoToken
  Users = {u1}
  Agents = {a1}
  Scopes = {s1}
  Grants = {g1}
  Tokens = {t1}
  Requests = {p1}
  Operators = {q1}
  RootScopes <- OneScope
  GrantScopes <- OneScope
  SelfScopes <- OneScope
  Durations = {3}
  AgentExpiries = {0}
  GrantExpiries = {0}
  AccessTTL = 3
  DelegatedTTL = 2
  MaxChainDepth = 3
  UniqueLive = TRUE
  MaxTime = 1
  StatusChanges = {"suspended", "revoked"}
PROPERTY RevokedIsTerminal
