SPECIFICATION Spec
CONSTANTS
  s1 = s1
  s2 = s2
  NoUser = NoUser
  NoAgent = NoAgent
  NoGrant = NoGrant
  NoToken = NoToken
  Users = {u1, u2}
  Agents = {a1}
  Scopes = {s1}
  Grants = {g1, g2}
  Tokens = {t1}
  Requests = {p1}
  Operators = {q1, q2}
  RootScopes <- OneScope
  GrantScopes <- OneScope
  SelfScopes <- OneScope
  Durations = {3}
  AgentExpiries = {2, 3}
  GrantExpiries = {2}
  AccessTTL = 3
  DelegatedTTL = 2
  MaxChainDepth = 3
  UniqueLive = TRUE
  MaxTime = 2
  StatusChanges = {"suspended", "revoked"}
SYMMETRY Symmetry
INVARIANTS  NoMintUnderRevoked CascadeVoids
