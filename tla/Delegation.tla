----------------------------- MODULE Delegation -----------------------------
(***************************************************************************)
(* Agents, delegation grants and token exchange: internal/agent/service.go *)
(* and cascade.go (lifecycle), internal/delegation/service.go (grants) and *)
(* internal/as/token_v34.go (client_credentials and RFC 8693 exchange).    *)
(* Every storage call is one step, so status changes, grant changes and    *)
(* exchanges interleave between the reads and the writes of one another.   *)
(* One protected resource: a grant's tuple is its user and its agent.      *)
(* Times are numbers; 0 is Go's zero time, "no expiry".                    *)
(***************************************************************************)
EXTENDS Integers, Sequences, FiniteSets

CONSTANTS Users, Agents, Scopes,
          Grants,       \* delegation grant ids (ULIDs, never reused)
          Tokens,       \* access token ids (jti, never reused)
          Requests,     \* concurrent token endpoint calls
          Operators,    \* concurrent calls of the agent and the delegation service
          NoUser, NoAgent, NoGrant, NoToken,
          RootScopes,   \* the scope sets a user's own access token may carry
          GrantScopes,  \* the scope sets users delegate
          SelfScopes,   \* the scope sets an agent's client_credentials token may carry
          Durations,    \* MaxDurationSeconds users choose
          AgentExpiries,\* expiries given to agents, 0 for none
          GrantExpiries,\* expiries given to grants, 0 for none
          AccessTTL,    \* Config.AccessTokenTTL
          DelegatedTTL, \* AgentPolicy.DefaultDelegatedTokenTTL
          MaxChainDepth,\* AgentPolicy.MaxChainDepth
          UniqueLive,   \* TRUE: SQLite, Postgres and memory; FALSE: MySQL, which has no unique index
          MaxTime,      \* bound: the clock
          StatusChanges \* bound: the statuses operators set, of suspended and revoked

ASSUME DelegationTimesAssumption ==
  /\ AccessTTL \in Nat \ {0}
  /\ DelegatedTTL \in Nat \ {0}
  /\ MaxChainDepth \in Nat
  /\ MaxTime \in Nat
  /\ Durations \subseteq Nat \ {0}
  /\ AgentExpiries \subseteq Nat
  /\ GrantExpiries \subseteq Nat
  /\ UniqueLive \in BOOLEAN
  /\ StatusChanges \subseteq {"suspended", "revoked"}

ASSUME DelegationSetsAssumption ==
  /\ RootScopes \subseteq SUBSET Scopes
  /\ GrantScopes \subseteq SUBSET Scopes
  /\ SelfScopes \subseteq SUBSET Scopes
  /\ {} \notin GrantScopes
  /\ Users \cap Agents = {}
  /\ NoUser \notin Users
  /\ NoAgent \notin Users \cup Agents
  /\ NoGrant \notin Grants
  /\ NoToken \notin Tokens

VARIABLES now,
          agents,   \* agents[a]: the stored status and expiry
          longest,  \* history: the latest expiry a ever had, 0 once it had none
          grants,   \* grants[g]: the delegation_grants row
          tokens,   \* tokens[t]: the claims of an issued access token
          req,      \* req[p]: where a token endpoint call is, and what it read
          oper      \* oper[q]: where an operator's call is

vars == <<now, agents, longest, grants, tokens, req, oper>>

Statuses == {"active", "suspended", "revoked"}

Agent == [status : Statuses, expires : Nat]

\* A revoked row has RevokedAt set; rows are never deleted.
Grant ==
  [state : {"none", "live", "revoked"}, user : Users \cup {NoUser},
   agent : Agents \cup {NoAgent}, scope : SUBSET Scopes, duration : Nat, expires : Nat]

\* chain lists the act claim innermost first.  root is history: the user token the chain of
\* exchanges started from; parent is the subject token of the exchange.
Token ==
  [issued : BOOLEAN, sub : Users \cup Agents \cup {NoUser}, chain : Seq(Agents),
   scope : SUBSET Scopes, exp : Nat, grant : Grants \cup {NoGrant},
   parent : Tokens \cup {NoToken}, root : Tokens \cup {NoToken}]

\* at and seen are the two instants the call takes from the clock; bound is the expiry of the
\* calling agent as read, capped by those of the actors walked so far.  dead is history: the
\* grants already revoked when the call began.
Request ==
  [pc : {"idle", "subject", "walk", "mint", "self"}, agent : Agents \cup {NoAgent},
   subject : Tokens \cup {NoToken}, want : SUBSET Scopes, at : Nat, seen : Nat,
   bound : Nat, next : Nat, grant : Grants \cup {NoGrant}, scope : SUBSET Scopes, exp : Nat,
   dead : SUBSET Grants]

\* todo lists the grants a cascade has yet to revoke; due is history: those live when the status
\* was written; failed records an error the cascade collected.  row is the grant to insert.
Operator ==
  [pc : {"idle", "resume", "list", "cascade", "select", "insert"},
   agent : Agents \cup {NoAgent}, todo : SUBSET Grants, due : SUBSET Grants,
   failed : BOOLEAN, row : Grant]

NoRow ==
  [state |-> "none", user |-> NoUser, agent |-> NoAgent, scope |-> {}, duration |-> 0,
   expires |-> 0]

NoClaims ==
  [issued |-> FALSE, sub |-> NoUser, chain |-> <<>>, scope |-> {}, exp |-> 0,
   grant |-> NoGrant, parent |-> NoToken, root |-> NoToken]

IdleRequest ==
  [pc |-> "idle", agent |-> NoAgent, subject |-> NoToken, want |-> {}, at |-> 0, seen |-> 0,
   bound |-> 0, next |-> 0, grant |-> NoGrant, scope |-> {}, exp |-> 0, dead |-> {}]

IdleOperator ==
  [pc |-> "idle", agent |-> NoAgent, todo |-> {}, due |-> {}, failed |-> FALSE, row |-> NoRow]

(***************************************************************************)
(* Time and liveness.                                                      *)
(***************************************************************************)
\* The earlier of two times that are not zero, zero when both are; the code folds it over a list.
TightenDuration(out, c) ==
  IF c = 0 THEN out ELSE IF out = 0 \/ c < out THEN c ELSE out

AgentExpired(ag, at) == ag.expires # 0 /\ at >= ag.expires
AgentLive(ag, at) == ag.status = "active" /\ ~ AgentExpired(ag, at)

\* delegation.Active.
Active(row, at) == row.state = "live" /\ (row.expires = 0 \/ at < row.expires)

Revoked == {g \in Grants : grants[g].state = "revoked"}

(***************************************************************************)
(* The grant table.                                                        *)
(***************************************************************************)
RowsFor(u, a) == {g \in Grants : grants[g].state # "none" /\ grants[g].user = u /\ grants[g].agent = a}
LiveFor(u, a) == {g \in RowsFor(u, a) : grants[g].state = "live"}

\* What DelegationGrantByUserAgentResource may return: the live row when the store prefers it,
\* any row of the tuple on MySQL.
LookupGrant(u, a) ==
  IF UniqueLive /\ LiveFor(u, a) # {} THEN LiveFor(u, a) ELSE RowsFor(u, a)

\* Whether InsertDelegationGrant's statement succeeds.  The index covers live rows only; MySQL
\* has none and checked in an earlier statement.
InsertAllowed(u, a) == UniqueLive => LiveFor(u, a) = {}

(***************************************************************************)
(* Scope narrowing.                                                        *)
(***************************************************************************)
\* Mutant: a request is checked against the grant only.
NarrowToGrant(want, subject, granted) ==
  IF want = {} THEN granted ELSE IF want \subseteq granted THEN want ELSE {}

\* Mutant: a defaulted request takes the whole scope of the subject token.
NarrowToSubject(want, subject, granted) ==
  IF want = {} THEN (IF subject = {} THEN granted ELSE subject)
  ELSE IF want \subseteq subject THEN want
  ELSE {}

\* delegation.NarrowScope; a refused request is the empty scope, which ExchangeToken refuses too.
\* A subject token without any scope falls back to the grant's.
NarrowScope(want, subject, granted) ==
  IF want = {} THEN (IF subject = {} THEN granted ELSE subject) \cap granted
  ELSE IF want \subseteq subject /\ want \subseteq granted THEN want
  ELSE {}

\* The agent gate may drop scopes of a defaulted request, and refuses an explicit one it would
\* have to narrow.
Gated(want, scope) == IF want = {} THEN (SUBSET scope) \ {{}} ELSE {scope} \ {{}}

(***************************************************************************)
(* The clock, and the user's own tokens.                                   *)
(***************************************************************************)
Tick ==
  /\ now < MaxTime
  /\ now' = now + 1
  /\ UNCHANGED <<agents, longest, grants, tokens, req, oper>>

\* A user token from any of the user facing grants.
IssueUserToken(t, u, scope) ==
  /\ ~ tokens[t].issued
  /\ tokens' = [tokens EXCEPT ![t] =
       [issued |-> TRUE, sub |-> u, chain |-> <<>>, scope |-> scope, exp |-> now + AccessTTL,
        grant |-> NoGrant, parent |-> NoToken, root |-> t]]
  /\ UNCHANGED <<now, agents, longest, grants, req, oper>>

(***************************************************************************)
(* The token endpoint.  A call that fails at any point stops (Refuse).     *)
(***************************************************************************)
\* client_credentials: the agent is read and found live ...
SelfBegin(p, a) ==
  /\ req[p].pc = "idle"
  /\ AgentLive(agents[a], now)
  /\ req' = [req EXCEPT ![p] =
       [IdleRequest EXCEPT !.pc = "self", !.agent = a, !.bound = agents[a].expires]]
  /\ UNCHANGED <<now, agents, longest, grants, tokens, oper>>

\* Mutant: the agent's own token ignores the agent's expiry.
SelfExpUncapped(at, bound) == at + AccessTTL

SelfExp(at, bound) == TightenDuration(at + AccessTTL, bound)

\* ... and a token of its own is minted, capped by the expiry read.
SelfMint(p, t, scope) ==
  /\ req[p].pc = "self"
  /\ ~ tokens[t].issued
  /\ tokens' = [tokens EXCEPT ![t] =
       [issued |-> TRUE, sub |-> req[p].agent, chain |-> <<>>, scope |-> scope,
        exp |-> SelfExp(now, req[p].bound), grant |-> NoGrant,
        parent |-> NoToken, root |-> t]]
  /\ req' = [req EXCEPT ![p] = IdleRequest]
  /\ UNCHANGED <<now, agents, longest, grants, oper>>

\* ExchangeToken, step 1: the requesting agent is live, and the subject token verifies.
ExchangeBegin(p, a, t, want) ==
  /\ req[p].pc = "idle"
  /\ AgentLive(agents[a], now)
  /\ tokens[t].issued
  /\ now < tokens[t].exp
  /\ req' = [req EXCEPT ![p] =
       [IdleRequest EXCEPT !.pc = "subject", !.agent = a, !.subject = t, !.want = want,
                           !.at = now, !.bound = agents[a].expires, !.dead = Revoked]]
  /\ UNCHANGED <<now, agents, longest, grants, tokens, oper>>

\* Steps 2 to 6: the denylist is read (TokenGrant models it; a denied subject token is a
\* refusal), and the root must be a user.
ExchangeSubject(p) ==
  /\ req[p].pc = "subject"
  /\ tokens[req[p].subject].sub \in Users
  /\ req' = [req EXCEPT ![p].pc = "walk", ![p].next = 1, ![p].seen = now]
  /\ UNCHANGED <<now, agents, longest, grants, tokens, oper>>

\* resolveSubjectPrincipal reads the existing actors one by one.
ExchangeWalk(p) ==
  LET chain == tokens[req[p].subject].chain
      ag == agents[chain[req[p].next]]
  IN  /\ req[p].pc = "walk"
      /\ req[p].next <= Len(chain)
      /\ AgentLive(ag, req[p].seen)
      /\ req' = [req EXCEPT ![p].next = @ + 1,
                            ![p].bound = TightenDuration(@, ag.expires)]
      /\ UNCHANGED <<now, agents, longest, grants, tokens, oper>>

\* chain.Depth of the chain with the requesting agent prepended; the root counts.
NewDepth(chain) == Len(chain) + 2

\* Step 10: the earliest of every bound.
PolicyExp(subjectExp, at, row, bound) ==
  TightenDuration(TightenDuration(TightenDuration(subjectExp, at + DelegatedTTL),
                                  TightenDuration(at + row.duration, at + AccessTTL)),
                  bound)

\* Mutant: the grant row is used without looking at its revocation or expiry.
GrantUsableAlways(row, at) == row.state # "none"

\* Step 8's check of the row found.
GrantUsable(row, at) == Active(row, at)

\* Steps 7 to 10: depth, the grant of (root user, agent), scope and expiry.
ExchangeGrant(p, g, scope) ==
  LET r == req[p]
      subject == tokens[r.subject]
      row == grants[g]
      exp == PolicyExp(subject.exp, r.at, row, r.bound)
  IN  /\ r.pc = "walk"
      /\ r.next > Len(subject.chain)
      /\ NewDepth(subject.chain) <= MaxChainDepth
      /\ g \in LookupGrant(subject.sub, r.agent)
      /\ GrantUsable(row, r.at)
      /\ scope \in Gated(r.want, NarrowScope(r.want, subject.scope, row.scope))
      /\ exp > r.at
      /\ req' = [req EXCEPT ![p].pc = "mint", ![p].grant = g, ![p].scope = scope,
                            ![p].exp = exp]
      /\ UNCHANGED <<now, agents, longest, grants, tokens, oper>>

\* Step 11: the requesting agent is prepended and the token signed.
ExchangeMint(p, t) ==
  LET r == req[p]
      subject == tokens[r.subject]
  IN  /\ r.pc = "mint"
      /\ ~ tokens[t].issued
      /\ tokens' = [tokens EXCEPT ![t] =
           [issued |-> TRUE, sub |-> subject.sub, chain |-> <<r.agent>> \o subject.chain,
            scope |-> r.scope, exp |-> r.exp, grant |-> r.grant, parent |-> r.subject,
            root |-> subject.root]]
      /\ req' = [req EXCEPT ![p] = IdleRequest]
      /\ UNCHANGED <<now, agents, longest, grants, oper>>

Refuse(p) ==
  /\ req[p].pc # "idle"
  /\ req' = [req EXCEPT ![p] = IdleRequest]
  /\ UNCHANGED <<now, agents, longest, grants, tokens, oper>>

(***************************************************************************)
(* The agent service.  changeAgentStatus reads the row for its audit event *)
(* only, writes the status whatever it was, and then cascades.             *)
(***************************************************************************)
LiveOf(a) == {g \in Grants : grants[g].agent = a /\ grants[g].state = "live"}

\* SuspendAgent and RevokeAgent write the status, whatever it was, and go on to the cascade.
ChangeStatus(q, a, status) ==
  /\ oper[q].pc = "idle"
  /\ agents' = [agents EXCEPT ![a].status = status]
  /\ oper' = [oper EXCEPT ![q] =
       [IdleOperator EXCEPT !.pc = "list", !.agent = a, !.due = LiveOf(a)]]
  /\ UNCHANGED <<now, longest, grants, tokens, req>>

\* ResumeAgent refuses an agent it reads as revoked ...
ResumeRead(q, a) ==
  /\ oper[q].pc = "idle"
  /\ agents[a].status # "revoked"
  /\ oper' = [oper EXCEPT ![q] = [IdleOperator EXCEPT !.pc = "resume", !.agent = a]]
  /\ UNCHANGED <<now, agents, longest, grants, tokens, req>>

\* ... and writes active in a later, unconditional call.  An active status does not cascade.
ResumeWrite(q) ==
  /\ oper[q].pc = "resume"
  /\ agents' = [agents EXCEPT ![oper[q].agent].status = "active"]
  /\ oper' = [oper EXCEPT ![q] = IdleOperator]
  /\ UNCHANGED <<now, longest, grants, tokens, req>>

\* Mutant: the cascade only takes the grants of one user, the agent's owner.
ListOfOneUser(a) == {g \in LiveOf(a) : grants[g].user = CHOOSE u \in Users : TRUE}

\* revokeAgentGrants lists the agent's rows and skips the revoked ones.
GrantsToVoid(a) == LiveOf(a)

CascadeList(q) ==
  /\ oper[q].pc = "list"
  /\ oper' = [oper EXCEPT ![q].pc = "cascade", ![q].todo = GrantsToVoid(oper[q].agent)]
  /\ UNCHANGED <<now, agents, longest, grants, tokens, req>>

\* The listing fails: the cascade goes on without any row and reports the error.
CascadeListFails(q) ==
  /\ oper[q].pc = "list"
  /\ oper' = [oper EXCEPT ![q].pc = "cascade", ![q].failed = TRUE]
  /\ UNCHANGED <<now, agents, longest, grants, tokens, req>>

\* One conditional RevokeDelegationGrant of the cascade.
CascadeRevoke(q, g) ==
  /\ oper[q].pc = "cascade"
  /\ g \in oper[q].todo
  /\ grants[g].state = "live"
  /\ grants' = [grants EXCEPT ![g].state = "revoked"]
  /\ oper' = [oper EXCEPT ![q].todo = @ \ {g}]
  /\ UNCHANGED <<now, agents, longest, tokens, req>>

\* A row that someone else revoked meanwhile, or a storage error: collected, and the next row is
\* tried.
CascadeSkip(q, g) ==
  /\ oper[q].pc = "cascade"
  /\ g \in oper[q].todo
  /\ oper' = [oper EXCEPT ![q].todo = @ \ {g}, ![q].failed = TRUE]
  /\ UNCHANGED <<now, agents, longest, grants, tokens, req>>

\* The later of two expiries, where zero is never.
Later(x, y) == IF x = 0 \/ y = 0 THEN 0 ELSE IF x < y THEN y ELSE x

\* SetAgentExpiry: validated against the clock, then written.
SetAgentExpiry(a, e) ==
  /\ e = 0 \/ e > now
  /\ agents' = [agents EXCEPT ![a].expires = e]
  /\ longest' = [longest EXCEPT ![a] = Later(@, e)]
  /\ UNCHANGED <<now, grants, tokens, req, oper>>

(***************************************************************************)
(* The delegation service.                                                 *)
(***************************************************************************)
\* GrantDelegation reads the agent, and writes its row in a later call.
GrantBegin(q, u, a, scope, duration, expires) ==
  /\ oper[q].pc = "idle"
  /\ AgentLive(agents[a], now)
  /\ oper' = [oper EXCEPT ![q] =
       [IdleOperator EXCEPT !.pc = IF UniqueLive THEN "insert" ELSE "select",
                            !.agent = a,
                            !.row = [state |-> "live", user |-> u, agent |-> a, scope |-> scope,
                                     duration |-> duration, expires |-> expires]]]
  /\ UNCHANGED <<now, agents, longest, grants, tokens, req>>

\* MySQL only: a SELECT over all rows of the tuple, in a statement of its own.
GrantSelect(q) ==
  /\ oper[q].pc = "select"
  /\ RowsFor(oper[q].row.user, oper[q].agent) = {}
  /\ oper' = [oper EXCEPT ![q].pc = "insert"]
  /\ UNCHANGED <<now, agents, longest, grants, tokens, req>>

GrantInsert(q, g) ==
  /\ oper[q].pc = "insert"
  /\ grants[g].state = "none"
  /\ InsertAllowed(oper[q].row.user, oper[q].agent)
  /\ grants' = [grants EXCEPT ![g] = oper[q].row]
  /\ oper' = [oper EXCEPT ![q] = IdleOperator]
  /\ UNCHANGED <<now, agents, longest, tokens, req>>

\* RevokeDelegation.  Its write is conditional on the row being live, and a lost race counts as
\* success, so the read before it decides nothing.
RevokeDelegation(g) ==
  /\ grants[g].state = "live"
  /\ grants' = [grants EXCEPT ![g].state = "revoked"]
  /\ UNCHANGED <<now, agents, longest, tokens, req, oper>>

\* The call returns, fails at a storage call, or dies with its process.
Return(q) ==
  /\ oper[q].pc # "idle"
  /\ oper' = [oper EXCEPT ![q] = IdleOperator]
  /\ UNCHANGED <<now, agents, longest, grants, tokens, req>>

(***************************************************************************)
(* The specification.                                                      *)
(***************************************************************************)
\* The clock starts at 1, as 0 is the zero time.  CreateAgent gives an agent its first expiry.
Init ==
  /\ now = 1
  /\ agents \in [Agents -> {[status |-> "active", expires |-> e] : e \in {x \in AgentExpiries : x # 1}}]
  /\ longest = [a \in Agents |-> agents[a].expires]
  /\ grants = [g \in Grants |-> NoRow]
  /\ tokens = [t \in Tokens |-> NoClaims]
  /\ req = [p \in Requests |-> IdleRequest]
  /\ oper = [q \in Operators |-> IdleOperator]

IssueToken == \E t \in Tokens, u \in Users, scope \in RootScopes : IssueUserToken(t, u, scope)

TokenEndpoint ==
  \E p \in Requests :
    \/ \E a \in Agents : SelfBegin(p, a)
    \/ \E t \in Tokens, scope \in SelfScopes : SelfMint(p, t, scope)
    \/ \E a \in Agents, t \in Tokens, want \in GrantScopes \cup {{}} : ExchangeBegin(p, a, t, want)
    \/ ExchangeSubject(p)
    \/ ExchangeWalk(p)
    \/ \E g \in Grants, scope \in SUBSET Scopes : ExchangeGrant(p, g, scope)
    \/ \E t \in Tokens : ExchangeMint(p, t)
    \/ Refuse(p)

AgentService ==
  \/ \E q \in Operators :
       \/ \E a \in Agents, status \in StatusChanges : ChangeStatus(q, a, status)
       \/ \E a \in Agents : ResumeRead(q, a)
       \/ ResumeWrite(q)
       \/ CascadeList(q)
       \/ CascadeListFails(q)
       \/ \E g \in Grants : CascadeRevoke(q, g) \/ CascadeSkip(q, g)
       \/ Return(q)
  \/ \E a \in Agents, e \in AgentExpiries : SetAgentExpiry(a, e)

DelegationService ==
  \/ \E q \in Operators :
       \/ \E u \in Users, a \in Agents, scope \in GrantScopes, d \in Durations, e \in GrantExpiries :
            GrantBegin(q, u, a, scope, d, e)
       \/ GrantSelect(q)
       \/ \E g \in Grants : GrantInsert(q, g)
  \/ \E g \in Grants : RevokeDelegation(g)

Next == Tick \/ IssueToken \/ TokenEndpoint \/ AgentService \/ DelegationService

Spec == Init /\ [][Next]_vars

(***************************************************************************)
(* Properties.                                                             *)
(***************************************************************************)
\* Every variable holds what the code may store in it.
TypeOK ==
  /\ now \in Nat \ {0}
  /\ agents \in [Agents -> Agent]
  /\ longest \in [Agents -> Nat]
  /\ grants \in [Grants -> Grant]
  /\ tokens \in [Tokens -> Token]
  /\ req \in [Requests -> Request]
  /\ oper \in [Operators -> Operator]

Exchanged(t) == tokens[t].issued /\ tokens[t].parent # NoToken
Actors(t) == {tokens[t].chain[i] : i \in 1..Len(tokens[t].chain)}

\* However many exchanges led to it, a delegated token stays within the user token the chain
\* started from: the same subject, no later expiry, no wider scope (ExchangeToken, steps 9 and
\* 10; only a root token without any scope is widened, to the first grant's), and a chain within
\* the depth limit.
NarrowsFromRoot ==
  \A t \in Tokens : Exchanged(t) =>
    LET root == tokens[tokens[t].root] IN
    /\ root.issued
    /\ tokens[t].sub = root.sub
    /\ tokens[t].exp <= root.exp
    /\ root.scope = {} \/ tokens[t].scope \subseteq root.scope
    /\ Len(tokens[t].chain) < MaxChainDepth

\* Every agent in the actor chain of a delegated token was given every scope of that token by
\* the user: an agent further down the chain never holds what an agent above it was not granted
\* (ExchangeToken, steps 8 and 9).
EveryActorAuthorized ==
  \A t \in Tokens : Exchanged(t) =>
    \A a \in Actors(t) : \E g \in Grants :
      /\ grants[g].state # "none"
      /\ grants[g].user = tokens[t].sub
      /\ grants[g].agent = a
      /\ tokens[t].scope \subseteq grants[g].scope

\* No token outlives an agent it was minted for: not the longest expiry that the minting agent
\* or any agent of its chain ever had (docs/agent-expiry.md, "Token lifetime cap").
OutlivesNoAgent ==
  \A t \in Tokens : tokens[t].issued =>
    \A a \in Actors(t) \cup ({tokens[t].sub} \cap Agents) :
      longest[a] = 0 \/ tokens[t].exp <= longest[a]

\* An exchange never mints under a grant that was revoked before the exchange began, whatever is
\* granted, revoked or suspended while it runs.
NoMintUnderRevoked ==
  \A p \in Requests : req[p].pc = "mint" => req[p].grant \notin req[p].dead

\* A user has at most one live grant per agent (InsertDelegationGrant).
OneLiveGrant ==
  \A g, h \in Grants :
    (/\ grants[g].state = "live" /\ grants[h].state = "live"
     /\ grants[g].user = grants[h].user /\ grants[g].agent = grants[h].agent) => g = h

\* When a suspension or a revocation returns without an error, every grant that was live when
\* the agent's status changed is revoked, whoever revoked it (cascadeAgentRevocation).
CascadeVoids ==
  \A q \in Operators :
    oper[q].pc = "cascade" /\ oper[q].todo = {} /\ ~ oper[q].failed => oper[q].due \subseteq Revoked

\* "RevokeAgent sets status to revoked. It is terminal" (internal/agent/service.go:435).
RevokedIsTerminal ==
  [][\A a \in Agents : agents[a].status = "revoked" => agents'[a].status = "revoked"]_vars
=============================================================================
