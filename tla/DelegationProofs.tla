-------------------------- MODULE DelegationProofs --------------------------
(***************************************************************************)
(* The delegation properties for every instance.  Rows and claims are      *)
(* never rewritten: a grant keeps its tuple and its scope and only goes    *)
(* from live to revoked, an issued token keeps its claims.  So what a call *)
(* read of them stays true while it runs, and each property follows from   *)
(* an invariant on what the calls in flight hold.                          *)
(***************************************************************************)
EXTENDS Delegation, TLAPS

-----------------------------------------------------------------------------
(* Types.                                                                  *)

LEMMA NoRowType == NoRow \in Grant
BY Zenon DEF NoRow, Grant

LEMMA NoClaimsType == NoClaims \in Token /\ ~ NoClaims.issued
BY DEF NoClaims, Token

LEMMA IdleRequestType == IdleRequest \in Request /\ IdleRequest.pc = "idle" /\ IdleRequest.dead = {}
BY Zenon DEF IdleRequest, Request

LEMMA IdleOperatorType == IdleOperator \in Operator /\ IdleOperator.pc = "idle"
BY NoRowType, Zenon DEF IdleOperator, Operator

\* TightenDuration keeps to the naturals, and to each of its arguments that is not zero.
LEMMA Tightens ==
  ASSUME NEW out \in Nat, NEW c \in Nat
  PROVE  /\ TightenDuration(out, c) \in Nat
         /\ out # 0 => TightenDuration(out, c) # 0 /\ TightenDuration(out, c) <= out
         /\ c # 0 => TightenDuration(out, c) # 0 /\ TightenDuration(out, c) <= c
BY DEF TightenDuration

\* The policy's expiry is within the subject token's and within the agents' bound.
LEMMA PolicyExpBounds ==
  ASSUME NEW subjectExp \in Nat, NEW at \in Nat, NEW row \in Grant, NEW bound \in Nat
  PROVE  LET exp == PolicyExp(subjectExp, at, row, bound) IN
         /\ exp \in Nat
         /\ subjectExp # 0 => exp <= subjectExp
         /\ bound # 0 => exp # 0 /\ exp <= bound
<1> DEFINE t1 == TightenDuration(subjectExp, at + DelegatedTTL)
           t2 == TightenDuration(at + row.duration, at + AccessTTL)
           t3 == TightenDuration(t1, t2)
<1>1. /\ at + DelegatedTTL \in Nat /\ at + row.duration \in Nat /\ at + AccessTTL \in Nat
  BY DelegationTimesAssumption DEF Grant
<1>2. t1 \in Nat /\ (subjectExp # 0 => t1 # 0 /\ t1 <= subjectExp)
  BY <1>1, Tightens, Zenon
<1>3. t2 \in Nat
  BY <1>1, Tightens, Zenon
<1>4. t3 \in Nat /\ (t1 # 0 => t3 # 0 /\ t3 <= t1)
  <2> HIDE DEF t1, t2
  <2> QED BY <1>2, <1>3, Tightens, Zenon
<1>5. LET exp == TightenDuration(t3, bound) IN
      /\ exp \in Nat
      /\ t3 # 0 => exp # 0 /\ exp <= t3
      /\ bound # 0 => exp # 0 /\ exp <= bound
  <2> HIDE DEF t3
  <2> QED BY <1>4, Tightens, Zenon
<1>6. PolicyExp(subjectExp, at, row, bound) = TightenDuration(t3, bound)
  BY Zenon DEF PolicyExp
<1> HIDE DEF t1, t2, t3
<1> QED BY <1>2, <1>4, <1>5, <1>6

\* What a call in flight knows of its agent and its subject token, and an operator's call of its
\* agent and the row it is going to insert.
CallKnows(p) ==
  LET r == req[p] IN
  /\ r.pc # "idle" => r.agent \in Agents
  /\ r.pc \in {"subject", "walk", "mint"} =>
       /\ r.subject \in Tokens
       /\ tokens[r.subject].issued
       /\ r.at < tokens[r.subject].exp
  /\ r.pc \in {"walk", "mint"} => tokens[r.subject].sub \in Users
  /\ r.pc = "walk" => r.next # 0

OperKnows(q) ==
  LET o == oper[q] IN
  /\ o.pc # "idle" => o.agent \in Agents
  /\ o.pc \in {"select", "insert"} =>
       o.row.state = "live" /\ o.row.agent = o.agent /\ o.row.user \in Users

TypeInv ==
  /\ TypeOK
  /\ \A p \in Requests : CallKnows(p)
  /\ \A q \in Operators : OperKnows(q)

\* What the token endpoint's records become, action by action.
LEMMA BeginType ==
  ASSUME TypeOK, NEW p \in Requests, NEW a \in Agents,
         \/ SelfBegin(p, a)
         \/ \E t \in Tokens, want \in GrantScopes \cup {{}} : ExchangeBegin(p, a, t, want)
  PROVE  /\ req' \in [Requests -> Request]
         /\ \A r \in Requests \ {p} : req'[r] = req[r]
<1>1. agents[a].expires \in Nat /\ now \in Nat /\ Revoked \subseteq Grants
  BY Zenon DEF TypeOK, Agent, Revoked
<1>2. CASE SelfBegin(p, a)
  <2>1. [IdleRequest EXCEPT !.pc = "self", !.agent = a, !.bound = agents[a].expires] \in Request
    BY <1>1, Zenon DEF IdleRequest, Request
  <2> QED BY <1>2, <2>1, Zenon DEF SelfBegin, TypeOK
<1>3. ASSUME NEW t \in Tokens, NEW want \in GrantScopes \cup {{}}, ExchangeBegin(p, a, t, want)
      PROVE  /\ req' \in [Requests -> Request]
             /\ \A r \in Requests \ {p} : req'[r] = req[r]
  <2>1. want \in SUBSET Scopes
    BY DelegationSetsAssumption, Zenon
  <2>2. [IdleRequest EXCEPT !.pc = "subject", !.agent = a, !.subject = t, !.want = want,
                            !.at = now, !.bound = agents[a].expires, !.dead = Revoked] \in Request
    BY <1>1, <2>1, Zenon DEF IdleRequest, Request
  <2> QED BY <1>3, <2>2, Zenon DEF ExchangeBegin, TypeOK
<1> QED BY <1>2, <1>3, Zenon

LEMMA SubjectType ==
  ASSUME TypeOK, NEW p \in Requests, ExchangeSubject(p)
  PROVE  /\ req' \in [Requests -> Request]
         /\ \A r \in Requests \ {p} : req'[r] = req[r]
         /\ req'[p] = [req[p] EXCEPT !.pc = "walk", !.next = 1, !.seen = now]
<1>1. req[p] \in Request /\ now \in Nat /\ req \in [Requests -> Request]
  BY Zenon DEF TypeOK
<1>2. [req[p] EXCEPT !.pc = "walk", !.next = 1, !.seen = now] \in Request
  BY <1>1, Zenon DEF Request
<1>3. req' = [req EXCEPT ![p] = [req[p] EXCEPT !.pc = "walk", !.next = 1, !.seen = now]]
  BY <1>1, ZenonT(30) DEF ExchangeSubject
<1> QED BY <1>1, <1>2, <1>3, Zenon

LEMMA WalkType ==
  ASSUME TypeOK, NEW p \in Requests, ExchangeWalk(p), CallKnows(p)
  PROVE  /\ req' \in [Requests -> Request]
         /\ \A r \in Requests \ {p} : req'[r] = req[r]
         /\ \E e \in Nat :
              req'[p] = [req[p] EXCEPT !.next = req[p].next + 1,
                                       !.bound = TightenDuration(req[p].bound, e)]
<1> DEFINE chain == tokens[req[p].subject].chain
           e == agents[chain[req[p].next]].expires
           bound == TightenDuration(req[p].bound, e)
           new == [req[p] EXCEPT !.next = req[p].next + 1, !.bound = bound]
<1>1. req[p] \in Request /\ req \in [Requests -> Request] /\ chain \in Seq(Agents)
  BY Zenon DEF TypeOK, Token, CallKnows, ExchangeWalk
<1>2. req[p].next \in Nat /\ req[p].bound \in Nat
  BY <1>1, SMTT(30) DEF Request
<1>3. req' = [req EXCEPT ![p] = new]
  BY <1>1, Zenon DEF ExchangeWalk
<1>4. e \in Nat
  <2>1. req[p].next # 0 /\ req[p].next <= Len(chain)
    BY Zenon DEF ExchangeWalk, CallKnows
  <2>2. req[p].next \in 1..Len(chain)
    <3> HIDE DEF chain
    <3> QED BY <1>1, <1>2, <2>1
  <2>3. chain[req[p].next] \in Agents
    <3> HIDE DEF chain
    <3> QED BY <1>1, <2>2, SMTT(30)
  <2> QED BY <2>3, SMTT(30) DEF TypeOK, Agent
<1>5. bound \in Nat
  BY <1>2, <1>4, Tightens, Zenon
<1>6. new \in Request
  <2>1. req[p] \in Request /\ req[p].next + 1 \in Nat
    BY <1>1, <1>2
  <2> HIDE DEF bound, e, chain
  <2> QED BY <2>1, <1>5, Zenon DEF Request
<1> HIDE DEF new
<1>7. req' \in [Requests -> Request] /\ req'[p] = new /\ \A r \in Requests \ {p} : req'[r] = req[r]
  BY <1>1, <1>3, <1>6, Zenon
<1> QED BY <1>4, <1>7, Zenon DEF new, bound

LEMMA NarrowType ==
  ASSUME NEW want \in SUBSET Scopes, NEW subject \in SUBSET Scopes, NEW granted \in SUBSET Scopes,
         NEW scope \in Gated(want, NarrowScope(want, subject, granted))
  PROVE  /\ scope \in SUBSET Scopes
         /\ scope # {}
         /\ scope \subseteq granted
         /\ subject = {} \/ scope \subseteq subject
<1>1. scope \subseteq NarrowScope(want, subject, granted) /\ scope # {}
  <2>1. CASE want = {}
    BY <2>1, Zenon DEF Gated
  <2>2. CASE want # {}
    BY <2>2, Zenon DEF Gated
  <2> QED BY <2>1, <2>2, Zenon
<1>2. NarrowScope(want, subject, granted) \subseteq granted
  BY Zenon DEF NarrowScope
<1>3. subject = {} \/ NarrowScope(want, subject, granted) \subseteq subject
  BY Zenon DEF NarrowScope
<1> QED BY <1>1, <1>2, <1>3, Zenon

LEMMA GrantType ==
  ASSUME TypeOK, NEW p \in Requests, NEW g \in Grants, NEW scope \in SUBSET Scopes,
         ExchangeGrant(p, g, scope), CallKnows(p)
  PROVE  LET exp == PolicyExp(tokens[req[p].subject].exp, req[p].at, grants[g], req[p].bound) IN
         /\ req' \in [Requests -> Request]
         /\ \A r \in Requests \ {p} : req'[r] = req[r]
         /\ req'[p] = [req[p] EXCEPT !.pc = "mint", !.grant = g, !.scope = scope, !.exp = exp]
<1> DEFINE exp == PolicyExp(tokens[req[p].subject].exp, req[p].at, grants[g], req[p].bound)
           new == [req[p] EXCEPT !.pc = "mint", !.grant = g, !.scope = scope, !.exp = exp]
<1>1. req[p] \in Request /\ req \in [Requests -> Request] /\ grants[g] \in Grant
  BY Zenon DEF TypeOK
<1>2. tokens[req[p].subject].exp \in Nat
  BY Zenon DEF TypeOK, Token, CallKnows, ExchangeGrant
<1>3. exp \in Nat
  BY <1>1, <1>2, PolicyExpBounds, Zenon DEF Request
<1>4. req' = [req EXCEPT ![p] = new]
  BY <1>1, Zenon DEF ExchangeGrant
<1> HIDE DEF exp
<1>5. new \in Request
  BY <1>1, <1>3, Zenon DEF Request
<1> HIDE DEF new
<1>6. req' \in [Requests -> Request] /\ req'[p] = new /\ \A r \in Requests \ {p} : req'[r] = req[r]
  BY <1>1, <1>4, <1>5, Zenon
<1> QED BY <1>6, Zenon DEF exp, new

\* The three mints: claims of the right type, under an id that was free.
LEMMA IssueType ==
  ASSUME TypeOK, NEW t \in Tokens, NEW u \in Users, NEW scope \in RootScopes,
         IssueUserToken(t, u, scope)
  PROVE  /\ tokens' \in [Tokens -> Token]
         /\ \A s \in Tokens \ {t} : tokens'[s] = tokens[s]
         /\ tokens'[t].issued /\ tokens'[t].sub = u /\ tokens'[t].chain = <<>>
         /\ tokens'[t].parent = NoToken /\ tokens'[t].root = t
<1> DEFINE new == [issued |-> TRUE, sub |-> u, chain |-> <<>>, scope |-> scope,
                   exp |-> now + AccessTTL, grant |-> NoGrant, parent |-> NoToken, root |-> t]
<1>1. now + AccessTTL \in Nat /\ scope \in SUBSET Scopes /\ <<>> \in Seq(Agents)
  BY DelegationTimesAssumption, DelegationSetsAssumption DEF TypeOK
<1>2. new \in Token
  BY <1>1, Zenon DEF Token
<1>3. tokens' = [tokens EXCEPT ![t] = new] /\ tokens \in [Tokens -> Token]
  BY Zenon DEF IssueUserToken, TypeOK
<1>4. new.issued /\ new.sub = u /\ new.chain = <<>> /\ new.parent = NoToken /\ new.root = t
  BY Zenon
<1> HIDE DEF new
<1>5. tokens' \in [Tokens -> Token] /\ tokens'[t] = new /\ \A s \in Tokens \ {t} : tokens'[s] = tokens[s]
  BY <1>2, <1>3, Zenon
<1> QED BY <1>4, <1>5, Zenon

LEMMA SelfMintType ==
  ASSUME TypeOK, NEW p \in Requests, CallKnows(p), NEW t \in Tokens, NEW scope \in SelfScopes,
         SelfMint(p, t, scope)
  PROVE  /\ tokens' \in [Tokens -> Token]
         /\ \A s \in Tokens \ {t} : tokens'[s] = tokens[s]
         /\ tokens'[t].issued /\ tokens'[t].sub = req[p].agent /\ tokens'[t].chain = <<>>
         /\ tokens'[t].exp = SelfExp(now, req[p].bound)
         /\ tokens'[t].parent = NoToken /\ tokens'[t].root = t
<1> DEFINE exp == SelfExp(now, req[p].bound)
           new == [issued |-> TRUE, sub |-> req[p].agent, chain |-> <<>>, scope |-> scope,
                   exp |-> exp, grant |-> NoGrant, parent |-> NoToken, root |-> t]
<1>1. scope \in SUBSET Scopes /\ <<>> \in Seq(Agents) /\ req[p].agent \in Agents
  BY DelegationSetsAssumption DEF CallKnows, SelfMint
<1>2. exp \in Nat
  <2>1. now + AccessTTL \in Nat /\ req[p].bound \in Nat
    BY DelegationTimesAssumption DEF TypeOK, Request
  <2> QED BY <2>1, Tightens, Zenon DEF SelfExp
<1> HIDE DEF exp
<1>3. new \in Token
  BY <1>1, <1>2, Zenon DEF Token
<1>4. tokens' = [tokens EXCEPT ![t] = new] /\ tokens \in [Tokens -> Token]
  BY Zenon DEF SelfMint, TypeOK, exp
<1>5. /\ new.issued /\ new.sub = req[p].agent /\ new.chain = <<>> /\ new.exp = exp
      /\ new.parent = NoToken /\ new.root = t
  BY Zenon
<1> HIDE DEF new
<1>6. tokens' \in [Tokens -> Token] /\ tokens'[t] = new /\ \A s \in Tokens \ {t} : tokens'[s] = tokens[s]
  BY <1>3, <1>4, Zenon
<1> QED BY <1>5, <1>6, Zenon DEF exp

LEMMA MintType ==
  ASSUME TypeOK, NEW p \in Requests, CallKnows(p), NEW t \in Tokens, ExchangeMint(p, t)
  PROVE  LET r == req[p]
             subject == tokens[r.subject]
         IN  /\ tokens' \in [Tokens -> Token]
             /\ \A s \in Tokens \ {t} : tokens'[s] = tokens[s]
             /\ tokens'[t].issued /\ tokens'[t].sub = subject.sub /\ tokens'[t].scope = r.scope
             /\ tokens'[t].chain = <<r.agent>> \o subject.chain
             /\ tokens'[t].exp = r.exp /\ tokens'[t].parent = r.subject
             /\ tokens'[t].root = subject.root
<1> DEFINE r == req[p]
           subject == tokens[r.subject]
           chain == <<r.agent>> \o subject.chain
           new == [issued |-> TRUE, sub |-> subject.sub, chain |-> chain, scope |-> r.scope,
                   exp |-> r.exp, grant |-> r.grant, parent |-> r.subject, root |-> subject.root]
<1>1. r \in Request /\ r.agent \in Agents /\ r.subject \in Tokens
  BY Zenon DEF TypeOK, CallKnows, ExchangeMint
<1>2. subject \in Token
  BY <1>1, Zenon DEF TypeOK
<1>3. chain \in Seq(Agents)
  <2>1. subject.chain \in Seq(Agents)
    BY <1>2, Zenon DEF Token
  <2> HIDE DEF subject, r
  <2>2. <<r.agent>> \in Seq(Agents)
    BY <1>1
  <2> QED BY <2>1, <2>2
<1>4. r.scope \in SUBSET Scopes /\ r.exp \in Nat /\ r.grant \in Grants \cup {NoGrant}
  BY <1>1, Zenon DEF Request
<1>5. subject.sub \in Users \cup Agents \cup {NoUser} /\ subject.root \in Tokens \cup {NoToken}
  BY <1>2, Zenon DEF Token
<1>6. new \in Token
  <2> HIDE DEF chain, subject, r
  <2> QED BY <1>1, <1>3, <1>4, <1>5, Zenon DEF Token
<1>7. tokens' = [tokens EXCEPT ![t] = new] /\ tokens \in [Tokens -> Token]
  BY Zenon DEF ExchangeMint, TypeOK
<1>8. /\ new.issued /\ new.sub = subject.sub /\ new.scope = r.scope /\ new.chain = chain
      /\ new.exp = r.exp /\ new.parent = r.subject /\ new.root = subject.root
  <2> HIDE DEF chain, subject, r
  <2> QED BY Zenon
<1>9. tokens' \in [Tokens -> Token] /\ tokens'[t] = new /\ \A s \in Tokens \ {t} : tokens'[s] = tokens[s]
  <2> HIDE DEF new
  <2> QED BY <1>6, <1>7, Zenon
<1> HIDE DEF new
<1> QED BY <1>8, <1>9, Zenon

\* The operators' records.
LEMMA OperType ==
  ASSUME TypeOK, NEW q \in Operators, \A o \in Operators : OperKnows(o),
         \/ \E a \in Agents, status \in StatusChanges : ChangeStatus(q, a, status)
         \/ \E a \in Agents : ResumeRead(q, a)
         \/ \E u \in Users, a \in Agents, scope \in GrantScopes, d \in Durations, e \in GrantExpiries :
              GrantBegin(q, u, a, scope, d, e)
  PROVE  /\ oper' \in [Operators -> Operator]
         /\ \A o \in Operators : OperKnows(o)'
<1>1. SUFFICES ASSUME NEW new \in Operator, oper' = [oper EXCEPT ![q] = new],
                      new.agent \in Agents,
                      new.pc \in {"select", "insert"} =>
                        new.row.state = "live" /\ new.row.agent = new.agent /\ new.row.user \in Users
               PROVE  /\ oper' \in [Operators -> Operator]
                      /\ \A o \in Operators : OperKnows(o)'
  <2>1. ASSUME NEW a \in Agents, NEW status \in StatusChanges, ChangeStatus(q, a, status)
        PROVE  \E new \in Operator :
                 /\ oper' = [oper EXCEPT ![q] = new] /\ new.agent \in Agents
                 /\ new.pc \notin {"select", "insert"}
    <3> DEFINE new == [IdleOperator EXCEPT !.pc = "list", !.agent = a, !.due = LiveOf(a)]
    <3>1. LiveOf(a) \subseteq Grants
      BY Zenon DEF LiveOf
    <3>2. new \in Operator /\ new.agent = a /\ new.pc = "list"
      BY <3>1, IdleOperatorType, NoRowType, Zenon DEF IdleOperator, Operator
    <3> QED BY <2>1, <3>2, Zenon DEF ChangeStatus
  <2>2. ASSUME NEW a \in Agents, ResumeRead(q, a)
        PROVE  \E new \in Operator :
                 /\ oper' = [oper EXCEPT ![q] = new] /\ new.agent \in Agents
                 /\ new.pc \notin {"select", "insert"}
    <3> DEFINE new == [IdleOperator EXCEPT !.pc = "resume", !.agent = a]
    <3>1. new \in Operator /\ new.agent = a /\ new.pc = "resume"
      BY IdleOperatorType, NoRowType, Zenon DEF IdleOperator, Operator
    <3> QED BY <2>2, <3>1, Zenon DEF ResumeRead
  <2>3. ASSUME NEW u \in Users, NEW a \in Agents, NEW scope \in GrantScopes, NEW d \in Durations,
               NEW e \in GrantExpiries, GrantBegin(q, u, a, scope, d, e)
        PROVE  \E new \in Operator :
                 /\ oper' = [oper EXCEPT ![q] = new] /\ new.agent \in Agents
                 /\ new.row.state = "live" /\ new.row.agent = new.agent /\ new.row.user \in Users
    <3> DEFINE row == [state |-> "live", user |-> u, agent |-> a, scope |-> scope, duration |-> d,
                       expires |-> e]
               pc == IF UniqueLive THEN "insert" ELSE "select"
               new == [IdleOperator EXCEPT !.pc = pc, !.agent = a, !.row = row]
    <3>1. row \in Grant /\ row.state = "live" /\ row.agent = a /\ row.user = u
      BY DelegationTimesAssumption, DelegationSetsAssumption, Zenon DEF Grant
    <3>2. pc \in {"idle", "resume", "list", "cascade", "select", "insert"}
      BY SMTT(30)
    <3>3. oper' = [oper EXCEPT ![q] = new]
      BY <2>3, Zenon DEF GrantBegin
    <3> HIDE DEF row, pc
    <3>4. new \in Operator /\ new.agent = a /\ new.row = row
      BY <3>1, <3>2, Zenon DEF IdleOperator, Operator
    <3> QED BY <3>1, <3>3, <3>4, Zenon
  <2> QED BY <2>1, <2>2, <2>3, SMTT(30)
<1>2. oper \in [Operators -> Operator]
  BY Zenon DEF TypeOK
<1>3. oper' \in [Operators -> Operator] /\ oper'[q] = new
      /\ \A o \in Operators \ {q} : oper'[o] = oper[o]
  BY <1>1, <1>2, Zenon
<1> QED BY <1>1, <1>3, Zenon DEF OperKnows

\* The steps of a cascade, and MySQL's SELECT, write a few fields of their own record.
LEMMA OperWrite ==
  ASSUME TypeOK, NEW q \in Operators, NEW new \in Operator, oper' = [oper EXCEPT ![q] = new]
  PROVE  /\ oper' \in [Operators -> Operator]
         /\ \A o \in Operators \ {q} : oper'[o] = oper[o]
         /\ oper'[q] = new
BY Zenon DEF TypeOK

LEMMA SelectFields ==
  ASSUME TypeOK, NEW q \in Operators, GrantSelect(q)
  PROVE  LET new == [oper[q] EXCEPT !.pc = "insert"] IN
         /\ new \in Operator /\ oper' = [oper EXCEPT ![q] = new]
         /\ new.agent = oper[q].agent /\ new.row = oper[q].row /\ new.pc = "insert"
         /\ oper[q].pc = "select"
<1>1. oper[q] \in Operator /\ oper \in [Operators -> Operator]
  BY Zenon DEF TypeOK
<1> QED BY <1>1, Zenon DEF GrantSelect, Operator

LEMMA ListFields ==
  ASSUME TypeOK, NEW q \in Operators, CascadeList(q)
  PROVE  LET new == [oper[q] EXCEPT !.pc = "cascade", !.todo = GrantsToVoid(oper[q].agent)] IN
         /\ new \in Operator /\ oper' = [oper EXCEPT ![q] = new]
         /\ new.agent = oper[q].agent /\ new.due = oper[q].due /\ new.pc = "cascade"
         /\ new.todo = GrantsToVoid(oper[q].agent) /\ new.failed = oper[q].failed
         /\ oper[q].pc = "list"
<1>1. oper[q] \in Operator /\ oper \in [Operators -> Operator]
  BY Zenon DEF TypeOK
<1>2. GrantsToVoid(oper[q].agent) \in SUBSET Grants
  BY Zenon DEF GrantsToVoid, LiveOf
<1>3. oper[q].pc = "list"
  BY Zenon DEF CascadeList
<1>4. oper' = [oper EXCEPT ![q] = [oper[q] EXCEPT !.pc = "cascade",
                                                  !.todo = GrantsToVoid(oper[q].agent)]]
  BY <1>1, Zenon DEF CascadeList
<1> QED BY <1>1, <1>2, <1>3, <1>4, Zenon DEF Operator

LEMMA ListFailsFields ==
  ASSUME TypeOK, NEW q \in Operators, CascadeListFails(q)
  PROVE  LET new == [oper[q] EXCEPT !.pc = "cascade", !.failed = TRUE] IN
         /\ new \in Operator /\ oper' = [oper EXCEPT ![q] = new]
         /\ new.agent = oper[q].agent /\ new.due = oper[q].due /\ new.pc = "cascade" /\ new.failed
         /\ oper[q].pc = "list"
<1>1. oper[q] \in Operator /\ oper \in [Operators -> Operator]
  BY Zenon DEF TypeOK
<1> QED BY <1>1, Zenon DEF CascadeListFails, Operator

LEMMA RevokeFields ==
  ASSUME TypeOK, NEW q \in Operators, NEW g \in Grants, CascadeRevoke(q, g)
  PROVE  LET new == [oper[q] EXCEPT !.todo = oper[q].todo \ {g}] IN
         /\ new \in Operator /\ oper' = [oper EXCEPT ![q] = new]
         /\ new.agent = oper[q].agent /\ new.due = oper[q].due /\ new.pc = "cascade"
         /\ new.failed = oper[q].failed /\ new.todo = oper[q].todo \ {g}
         /\ oper[q].pc = "cascade"
<1>1. oper[q] \in Operator /\ oper \in [Operators -> Operator]
  BY Zenon DEF TypeOK
<1>2. oper[q].todo \ {g} \in SUBSET Grants
  BY <1>1, Zenon DEF Operator
<1>3. oper[q].pc = "cascade" /\ oper' = [oper EXCEPT ![q] = [oper[q] EXCEPT !.todo = oper[q].todo \ {g}]]
  BY <1>1, Zenon DEF CascadeRevoke
<1> QED BY <1>1, <1>2, <1>3, Zenon DEF Operator

LEMMA SkipFields ==
  ASSUME TypeOK, NEW q \in Operators, NEW g \in Grants, CascadeSkip(q, g)
  PROVE  LET new == [oper[q] EXCEPT !.todo = oper[q].todo \ {g}, !.failed = TRUE] IN
         /\ new \in Operator /\ oper' = [oper EXCEPT ![q] = new]
         /\ new.agent = oper[q].agent /\ new.due = oper[q].due /\ new.pc = "cascade" /\ new.failed
         /\ oper[q].pc = "cascade"
<1>1. oper[q] \in Operator /\ oper \in [Operators -> Operator]
  BY Zenon DEF TypeOK
<1>2. oper[q].todo \ {g} \in SUBSET Grants
  BY <1>1, Zenon DEF Operator
<1>3. /\ oper[q].pc = "cascade"
      /\ oper' = [oper EXCEPT ![q] = [oper[q] EXCEPT !.todo = oper[q].todo \ {g}, !.failed = TRUE]]
  BY <1>1, Zenon DEF CascadeSkip
<1> QED BY <1>1, <1>2, <1>3, Zenon DEF Operator

\* The two ways a grant row changes: it goes from live to revoked, or a free row is filled.
LEMMA RevokeRow ==
  ASSUME TypeOK, NEW g \in Grants, grants[g].state = "live",
         grants' = [grants EXCEPT ![g].state = "revoked"]
  PROVE  /\ grants' \in [Grants -> Grant]
         /\ \A h \in Grants : /\ grants'[h].user = grants[h].user
                             /\ grants'[h].agent = grants[h].agent
                             /\ grants'[h].scope = grants[h].scope
         /\ \A h \in Grants \ {g} : grants'[h] = grants[h]
         /\ grants'[g].state = "revoked"
<1>1. grants \in [Grants -> Grant] /\ grants[g] \in Grant
  BY Zenon DEF TypeOK
<1>2. LET new == [grants[g] EXCEPT !.state = "revoked"] IN
      /\ grants' = [grants EXCEPT ![g] = new]
      /\ new \in Grant
      /\ new.user = grants[g].user /\ new.agent = grants[g].agent /\ new.scope = grants[g].scope
      /\ new.state = "revoked"
  BY <1>1, Zenon DEF Grant
<1> QED BY <1>1, <1>2, Zenon

LEMMA InsertRow ==
  ASSUME TypeOK, NEW q \in Operators, NEW g \in Grants, GrantInsert(q, g)
  PROVE  /\ grants' \in [Grants -> Grant]
         /\ \A h \in Grants \ {g} : grants'[h] = grants[h]
         /\ grants[g].state = "none"
         /\ grants'[g] = oper[q].row
BY Zenon DEF TypeOK, GrantInsert, Operator

-----------------------------------------------------------------------------
(* Which actions write which variable.                                     *)

LEMMA EndpointFrame ==
  ASSUME TokenEndpoint
  PROVE  /\ UNCHANGED <<now, agents, longest, grants, oper>>
         /\ \/ tokens' = tokens
            \/ \E p \in Requests, t \in Tokens, scope \in SelfScopes : SelfMint(p, t, scope)
            \/ \E p \in Requests, t \in Tokens : ExchangeMint(p, t)
<1> DEFINE Frame == UNCHANGED <<now, agents, longest, grants, oper>>
<1>1. PICK p \in Requests :
        \/ \E a \in Agents : SelfBegin(p, a)
        \/ \E t \in Tokens, scope \in SelfScopes : SelfMint(p, t, scope)
        \/ \E a \in Agents, t \in Tokens, want \in GrantScopes \cup {{}} : ExchangeBegin(p, a, t, want)
        \/ ExchangeSubject(p)
        \/ ExchangeWalk(p)
        \/ \E g \in Grants, scope \in SUBSET Scopes : ExchangeGrant(p, g, scope)
        \/ \E t \in Tokens : ExchangeMint(p, t)
        \/ Refuse(p)
  BY Zenon DEF TokenEndpoint
<1>2. ASSUME NEW a \in Agents, SelfBegin(p, a)
      PROVE  Frame /\ tokens' = tokens
  BY <1>2, Zenon DEF SelfBegin
<1>3. ASSUME NEW t \in Tokens, NEW scope \in SelfScopes, SelfMint(p, t, scope)
      PROVE  Frame
  BY <1>3, Zenon DEF SelfMint
<1>4. ASSUME NEW a \in Agents, NEW t \in Tokens, NEW want \in GrantScopes \cup {{}},
             ExchangeBegin(p, a, t, want)
      PROVE  Frame /\ tokens' = tokens
  BY <1>4, SMTT(30) DEF ExchangeBegin
<1>5. ASSUME ExchangeSubject(p) \/ ExchangeWalk(p) \/ Refuse(p)
      PROVE  Frame /\ tokens' = tokens
  BY <1>5, Zenon DEF ExchangeSubject, ExchangeWalk, Refuse
<1>6. ASSUME NEW g \in Grants, NEW scope \in SUBSET Scopes, ExchangeGrant(p, g, scope)
      PROVE  Frame /\ tokens' = tokens
  BY <1>6, Zenon DEF ExchangeGrant
<1>7. ASSUME NEW t \in Tokens, ExchangeMint(p, t)
      PROVE  Frame
  BY <1>7, Zenon DEF ExchangeMint
<1> HIDE DEF Frame
<1>8. Frame
  BY <1>1, <1>2, <1>3, <1>4, <1>5, <1>6, <1>7, Zenon
<1>9. \/ tokens' = tokens
      \/ \E t \in Tokens, scope \in SelfScopes : SelfMint(p, t, scope)
      \/ \E t \in Tokens : ExchangeMint(p, t)
  BY <1>1, <1>2, <1>4, <1>5, <1>6, Zenon
<1> QED BY <1>8, <1>9, Zenon DEF Frame

LEMMA TokenSteps ==
  ASSUME [Next]_vars
  PROVE  \/ tokens' = tokens
         \/ \E t \in Tokens, u \in Users, scope \in RootScopes : IssueUserToken(t, u, scope)
         \/ \E p \in Requests, t \in Tokens, scope \in SelfScopes : SelfMint(p, t, scope)
         \/ \E p \in Requests, t \in Tokens : ExchangeMint(p, t)
<1>1. CASE Tick \/ IssueToken \/ UNCHANGED vars
  BY <1>1, Zenon DEF Tick, IssueToken, vars
<1>2. CASE TokenEndpoint
  BY <1>2, EndpointFrame, SMTT(30)
<1>3. CASE AgentService
  BY <1>3, ZenonT(30) DEF AgentService, ChangeStatus, ResumeRead, ResumeWrite, CascadeList, CascadeListFails,
              CascadeRevoke, CascadeSkip, Return, SetAgentExpiry
<1>4. CASE DelegationService
  BY <1>4, Zenon DEF DelegationService, GrantBegin, GrantSelect, GrantInsert, RevokeDelegation
<1> QED BY <1>1, <1>2, <1>3, <1>4, Zenon DEF Next

LEMMA GrantSteps ==
  ASSUME [Next]_vars
  PROVE  \/ grants' = grants
         \/ \E q \in Operators, g \in Grants : CascadeRevoke(q, g)
         \/ \E q \in Operators, g \in Grants : GrantInsert(q, g)
         \/ \E g \in Grants : RevokeDelegation(g)
<1>1. CASE Tick \/ IssueToken \/ UNCHANGED vars
  BY <1>1, Zenon DEF Tick, IssueToken, IssueUserToken, vars
<1>2. CASE TokenEndpoint
  BY <1>2, EndpointFrame, SMTT(30)
<1>3. CASE AgentService
  BY <1>3, ZenonT(30) DEF AgentService, ChangeStatus, ResumeRead, ResumeWrite, CascadeList, CascadeListFails,
              CascadeSkip, Return, SetAgentExpiry
<1>4. CASE DelegationService
  BY <1>4, Zenon DEF DelegationService, GrantBegin, GrantSelect
<1> QED BY <1>1, <1>2, <1>3, <1>4, Zenon DEF Next

LEMMA RequestSteps ==
  ASSUME [Next]_vars
  PROVE  req' = req \/ TokenEndpoint
<1>1. CASE Tick \/ IssueToken \/ UNCHANGED vars
  BY <1>1, SMTT(30) DEF Tick, IssueToken, IssueUserToken, vars
<1>2. CASE AgentService
  BY <1>2, ZenonT(30) DEF AgentService, ChangeStatus, ResumeRead, ResumeWrite, CascadeList, CascadeListFails,
              CascadeRevoke, CascadeSkip, Return, SetAgentExpiry
<1>3. CASE DelegationService
  BY <1>3, Zenon DEF DelegationService, GrantBegin, GrantSelect, GrantInsert, RevokeDelegation
<1> QED BY <1>1, <1>2, <1>3, Zenon DEF Next

LEMMA OperatorSteps ==
  ASSUME [Next]_vars
  PROVE  \/ oper' = oper
         \/ \E q \in Operators :
              \/ \E a \in Agents, status \in StatusChanges : ChangeStatus(q, a, status)
              \/ \E a \in Agents : ResumeRead(q, a)
              \/ \E u \in Users, a \in Agents, scope \in GrantScopes, d \in Durations,
                    e \in GrantExpiries : GrantBegin(q, u, a, scope, d, e)
              \/ GrantSelect(q) \/ CascadeList(q) \/ CascadeListFails(q)
              \/ \E g \in Grants : CascadeRevoke(q, g) \/ CascadeSkip(q, g)
              \/ oper' = [oper EXCEPT ![q] = IdleOperator]
<1>1. CASE Tick \/ IssueToken \/ UNCHANGED vars
  BY <1>1, Zenon DEF Tick, IssueToken, IssueUserToken, vars
<1>2. CASE TokenEndpoint
  BY <1>2, EndpointFrame, Zenon
<1>3. CASE AgentService
  BY <1>3, Zenon DEF AgentService, ResumeWrite, Return, SetAgentExpiry
<1>4. CASE DelegationService
  BY <1>4, Zenon DEF DelegationService, GrantInsert, RevokeDelegation
<1> QED BY <1>1, <1>2, <1>3, <1>4, Zenon DEF Next

LEMMA AgentSteps ==
  ASSUME [Next]_vars
  PROVE  \/ agents' = agents /\ longest' = longest
         \/ \E q \in Operators, a \in Agents, status \in StatusChanges : ChangeStatus(q, a, status)
         \/ \E q \in Operators : ResumeWrite(q)
         \/ \E a \in Agents, e \in AgentExpiries : SetAgentExpiry(a, e)
<1>1. CASE Tick \/ IssueToken \/ UNCHANGED vars
  BY <1>1, Zenon DEF Tick, IssueToken, IssueUserToken, vars
<1>2. CASE TokenEndpoint
  BY <1>2, EndpointFrame, Zenon
<1>3. CASE AgentService
  BY <1>3, ZenonT(30) DEF AgentService, ResumeRead, CascadeList, CascadeListFails, CascadeRevoke, CascadeSkip,
              Return
<1>4. CASE DelegationService
  BY <1>4, Zenon DEF DelegationService, GrantBegin, GrantSelect, GrantInsert, RevokeDelegation
<1> QED BY <1>1, <1>2, <1>3, <1>4, Zenon DEF Next

LEMMA ClockSteps ==
  ASSUME TypeOK, [Next]_vars
  PROVE  now' \in Nat \ {0}
<1>1. CASE Tick \/ IssueToken \/ UNCHANGED vars
  BY <1>1 DEF Tick, IssueToken, IssueUserToken, vars, TypeOK
<1>2. CASE TokenEndpoint
  BY <1>2, EndpointFrame, SMTT(30) DEF TypeOK
<1>3. CASE AgentService
  BY <1>3, ZenonT(30) DEF AgentService, ChangeStatus, ResumeRead, ResumeWrite, CascadeList, CascadeListFails,
              CascadeRevoke, CascadeSkip, Return, SetAgentExpiry, TypeOK
<1>4. CASE DelegationService
  BY <1>4, Zenon DEF DelegationService, GrantBegin, GrantSelect, GrantInsert, RevokeDelegation, TypeOK
<1> QED BY <1>1, <1>2, <1>3, <1>4, Zenon DEF Next

-----------------------------------------------------------------------------
(* Rows and claims are never rewritten.                                    *)

\* A grant keeps its user, agent and scope, and a revoked one stays revoked.
LEMMA GrantsKept ==
  ASSUME TypeInv, [Next]_vars
  PROVE  /\ grants' \in [Grants -> Grant]
         /\ \A g \in Grants : grants[g].state # "none" =>
              /\ grants'[g].state # "none"
              /\ grants'[g].user = grants[g].user
              /\ grants'[g].agent = grants[g].agent
              /\ grants'[g].scope = grants[g].scope
         /\ \A g \in Grants : grants[g].state = "revoked" => grants'[g].state = "revoked"
<1>1. CASE grants' = grants
  BY <1>1, Zenon DEF TypeInv, TypeOK
<1>2. ASSUME NEW g \in Grants, grants[g].state = "live",
             grants' = [grants EXCEPT ![g].state = "revoked"]
      PROVE  /\ grants' \in [Grants -> Grant]
             /\ \A h \in Grants : grants[h].state # "none" =>
                  /\ grants'[h].state # "none"
                  /\ grants'[h].user = grants[h].user
                  /\ grants'[h].agent = grants[h].agent
                  /\ grants'[h].scope = grants[h].scope
             /\ \A h \in Grants : grants[h].state = "revoked" => grants'[h].state = "revoked"
  BY <1>2, RevokeRow, Zenon DEF TypeInv
<1>3. CASE \E q \in Operators, g \in Grants : CascadeRevoke(q, g)
  BY <1>2, <1>3, Zenon DEF CascadeRevoke
<1>4. CASE \E g \in Grants : RevokeDelegation(g)
  BY <1>2, <1>4, Zenon DEF RevokeDelegation
<1>5. CASE \E q \in Operators, g \in Grants : GrantInsert(q, g)
  BY <1>5, InsertRow, Zenon DEF TypeInv
<1> QED BY <1>1, <1>3, <1>4, <1>5, GrantSteps, Zenon

\* An issued token keeps its claims.
LEMMA TokensKept ==
  ASSUME TypeInv, [Next]_vars
  PROVE  /\ tokens' \in [Tokens -> Token]
         /\ \A t \in Tokens : tokens[t].issued => tokens'[t] = tokens[t]
<1>1. CASE tokens' = tokens
  BY <1>1, Zenon DEF TypeInv, TypeOK
<1>2. ASSUME NEW t \in Tokens, NEW u \in Users, NEW scope \in RootScopes, IssueUserToken(t, u, scope)
      PROVE  /\ tokens' \in [Tokens -> Token]
             /\ \A s \in Tokens : tokens[s].issued => tokens'[s] = tokens[s]
  <2>1. ~ tokens[t].issued
    BY <1>2, Zenon DEF IssueUserToken
  <2> QED BY <1>2, <2>1, IssueType DEF TypeInv
<1>3. ASSUME NEW p \in Requests, NEW t \in Tokens, NEW scope \in SelfScopes, SelfMint(p, t, scope)
      PROVE  /\ tokens' \in [Tokens -> Token]
             /\ \A s \in Tokens : tokens[s].issued => tokens'[s] = tokens[s]
  <2>1. ~ tokens[t].issued
    BY <1>3, Zenon DEF SelfMint
  <2> QED BY <1>3, <2>1, SelfMintType DEF TypeInv
<1>4. ASSUME NEW p \in Requests, NEW t \in Tokens, ExchangeMint(p, t)
      PROVE  /\ tokens' \in [Tokens -> Token]
             /\ \A s \in Tokens : tokens[s].issued => tokens'[s] = tokens[s]
  <2>1. ~ tokens[t].issued
    BY <1>4, Zenon DEF ExchangeMint
  <2> QED BY <1>4, <2>1, MintType, ZenonT(60) DEF TypeInv
<1> QED BY <1>1, <1>2, <1>3, <1>4, TokenSteps, Zenon

-----------------------------------------------------------------------------
(* The type invariant is inductive.                                        *)

LEMMA CallKept ==
  ASSUME TypeInv, [Next]_vars, NEW p \in Requests, req'[p] = req[p]
  PROVE  CallKnows(p)'
BY TokensKept, Zenon DEF TypeInv, CallKnows

\* A call that has ended knows nothing.
LEMMA CallEnds ==
  ASSUME TypeInv, [Next]_vars, NEW p \in Requests, req' = [req EXCEPT ![p] = IdleRequest]
  PROVE  /\ req' \in [Requests -> Request]
         /\ \A r \in Requests : CallKnows(r)'
<1>1. req \in [Requests -> Request]
  BY Zenon DEF TypeInv, TypeOK
<1>2. req' \in [Requests -> Request] /\ req'[p].pc = "idle"
      /\ \A r \in Requests \ {p} : req'[r] = req[r]
  BY <1>1, IdleRequestType, Zenon
<1>3. CallKnows(p)'
  BY <1>2, Zenon DEF CallKnows
<1> QED BY <1>2, <1>3, CallKept, Zenon

LEMMA CallsType ==
  ASSUME TypeInv, [Next]_vars
  PROVE  /\ req' \in [Requests -> Request]
         /\ \A r \in Requests : CallKnows(r)'
<1> DEFINE Goal == req' \in [Requests -> Request] /\ \A r \in Requests : CallKnows(r)'
<1>0. TypeOK /\ \A p \in Requests : CallKnows(p)
  BY Zenon DEF TypeInv
<1>1. CASE req' = req
  BY <1>0, <1>1, CallKept, Zenon DEF TypeOK
<1>2. ASSUME NEW p \in Requests, NEW a \in Agents, SelfBegin(p, a)
      PROVE  Goal
  <2>1. req' \in [Requests -> Request] /\ \A r \in Requests \ {p} : req'[r] = req[r]
    BY <1>0, <1>2, BeginType, Zenon
  <2>2. req'[p].pc = "self" /\ req'[p].agent = a
    BY <1>0, <1>2, Zenon DEF SelfBegin, TypeOK, IdleRequest
  <2>3. CallKnows(p)'
    BY <2>2, Zenon DEF CallKnows
  <2> QED BY <2>1, <2>3, CallKept, Zenon
<1>3. ASSUME NEW p \in Requests, NEW a \in Agents, NEW t \in Tokens,
             NEW want \in GrantScopes \cup {{}}, ExchangeBegin(p, a, t, want)
      PROVE  Goal
  <2>1. req' \in [Requests -> Request] /\ \A r \in Requests \ {p} : req'[r] = req[r]
    BY <1>0, <1>3, BeginType, Zenon
  <2>2. req'[p].pc = "subject" /\ req'[p].agent = a /\ req'[p].subject = t /\ req'[p].at = now
    BY <1>0, <1>3, Zenon DEF ExchangeBegin, TypeOK, IdleRequest
  <2>3. tokens[t].issued /\ now < tokens[t].exp /\ tokens' = tokens
    BY <1>3, Zenon DEF ExchangeBegin
  <2>4. CallKnows(p)'
    BY <2>2, <2>3, Zenon DEF CallKnows
  <2> QED BY <2>1, <2>4, CallKept, Zenon
<1>4. ASSUME NEW p \in Requests, ExchangeSubject(p)
      PROVE  Goal
  <2>1. /\ req' \in [Requests -> Request] /\ \A r \in Requests \ {p} : req'[r] = req[r]
        /\ req'[p] = [req[p] EXCEPT !.pc = "walk", !.next = 1, !.seen = now]
    BY <1>0, <1>4, SubjectType, Zenon
  <2>2. req[p] \in Request
    BY <1>0, Zenon DEF TypeOK
  <2>3. /\ req'[p].pc = "walk" /\ req'[p].next = 1 /\ req'[p].agent = req[p].agent
        /\ req'[p].subject = req[p].subject /\ req'[p].at = req[p].at
    BY <2>1, <2>2 DEF Request
  <2>4. req[p].pc = "subject" /\ tokens[req[p].subject].sub \in Users /\ tokens' = tokens
    BY <1>4, Zenon DEF ExchangeSubject
  <2>5. CallKnows(p)'
    BY <1>0, <2>3, <2>4 DEF CallKnows
  <2> QED BY <2>1, <2>5, CallKept, SMTT(30)
<1>5. ASSUME NEW p \in Requests, ExchangeWalk(p)
      PROVE  Goal
  <2>1. /\ req' \in [Requests -> Request] /\ \A r \in Requests \ {p} : req'[r] = req[r]
        /\ \E e \in Nat :
             req'[p] = [req[p] EXCEPT !.next = req[p].next + 1,
                                      !.bound = TightenDuration(req[p].bound, e)]
    BY <1>0, <1>5, WalkType, Zenon
  <2>2. req[p] \in Request /\ req[p].next \in Nat
    BY <1>0, Zenon DEF TypeOK, Request
  <2>3. /\ req'[p].pc = req[p].pc /\ req'[p].next = req[p].next + 1
        /\ req'[p].agent = req[p].agent
        /\ req'[p].subject = req[p].subject /\ req'[p].at = req[p].at
    BY <2>1, <2>2, SMTT(30) DEF Request
  <2>4. req[p].pc = "walk" /\ tokens' = tokens
    BY <1>5, Zenon DEF ExchangeWalk
  <2>5. CallKnows(p)'
    BY <1>0, <2>2, <2>3, <2>4 DEF CallKnows
  <2> QED BY <2>1, <2>5, CallKept, SMTT(30)
<1>6. ASSUME NEW p \in Requests, NEW g \in Grants, NEW scope \in SUBSET Scopes,
             ExchangeGrant(p, g, scope)
      PROVE  Goal
  <2> DEFINE exp == PolicyExp(tokens[req[p].subject].exp, req[p].at, grants[g], req[p].bound)
  <2>1. /\ req' \in [Requests -> Request] /\ \A r \in Requests \ {p} : req'[r] = req[r]
        /\ req'[p] = [req[p] EXCEPT !.pc = "mint", !.grant = g, !.scope = scope, !.exp = exp]
    BY <1>0, <1>6, GrantType, Zenon
  <2>2. req[p] \in Request
    BY <1>0, Zenon DEF TypeOK
  <2> HIDE DEF exp
  <2>3. /\ req'[p].pc = "mint" /\ req'[p].agent = req[p].agent
        /\ req'[p].subject = req[p].subject /\ req'[p].at = req[p].at
    BY <2>1, <2>2 DEF Request
  <2>4. req[p].pc = "walk" /\ tokens' = tokens
    BY <1>6, Zenon DEF ExchangeGrant
  <2>5. CallKnows(p)'
    BY <1>0, <2>3, <2>4, Zenon DEF CallKnows
  <2> QED BY <2>1, <2>5, CallKept, SMTT(30)
<1>7. ASSUME NEW p \in Requests,
             \/ Refuse(p)
             \/ \E t \in Tokens, scope \in SelfScopes : SelfMint(p, t, scope)
             \/ \E t \in Tokens : ExchangeMint(p, t)
      PROVE  Goal
  <2>1. req' = [req EXCEPT ![p] = IdleRequest]
    BY <1>7, Zenon DEF Refuse, SelfMint, ExchangeMint
  <2> QED BY <2>1, CallEnds, Zenon
<1>8. ASSUME TokenEndpoint
      PROVE  Goal
  <2>1. PICK p \in Requests :
          \/ \E a \in Agents : SelfBegin(p, a)
          \/ \E t \in Tokens, scope \in SelfScopes : SelfMint(p, t, scope)
          \/ \E a \in Agents, t \in Tokens, want \in GrantScopes \cup {{}} : ExchangeBegin(p, a, t, want)
          \/ ExchangeSubject(p)
          \/ ExchangeWalk(p)
          \/ \E g \in Grants, scope \in SUBSET Scopes : ExchangeGrant(p, g, scope)
          \/ \E t \in Tokens : ExchangeMint(p, t)
          \/ Refuse(p)
    BY <1>8, Zenon DEF TokenEndpoint
  <2> HIDE DEF Goal
  <2>2. CASE \E t \in Tokens, scope \in SelfScopes : SelfMint(p, t, scope)
    BY <1>7, <2>2, Zenon
  <2>3. CASE \E t \in Tokens : ExchangeMint(p, t)
    BY <1>7, <2>3, Zenon
  <2>4. CASE Refuse(p)
    BY <1>7, <2>4, Zenon
  <2>5. CASE \E a \in Agents : SelfBegin(p, a)
    BY <1>2, <2>5, Zenon
  <2>6. CASE \E g \in Grants, scope \in SUBSET Scopes : ExchangeGrant(p, g, scope)
    BY <1>6, <2>6, Zenon
  <2>7. CASE \E a \in Agents, t \in Tokens, want \in GrantScopes \cup {{}} : ExchangeBegin(p, a, t, want)
    BY <1>3, <2>7, Zenon
  <2> QED BY <1>4, <1>5, <2>1, <2>2, <2>3, <2>4, <2>5, <2>6, <2>7, Zenon
<1> QED BY <1>1, <1>8, RequestSteps, Zenon

LEMMA OperatorsType ==
  ASSUME TypeInv, [Next]_vars
  PROVE  /\ oper' \in [Operators -> Operator]
         /\ \A o \in Operators : OperKnows(o)'
<1> DEFINE Goal == oper' \in [Operators -> Operator] /\ \A o \in Operators : OperKnows(o)'
<1>0. TypeOK /\ \A o \in Operators : OperKnows(o)
  BY Zenon DEF TypeInv
<1>1. ASSUME oper' = oper
      PROVE  Goal
  BY <1>0, <1>1, Zenon DEF TypeOK, OperKnows
<1>2. ASSUME NEW q \in Operators,
             \/ \E a \in Agents, status \in StatusChanges : ChangeStatus(q, a, status)
             \/ \E a \in Agents : ResumeRead(q, a)
             \/ \E u \in Users, a \in Agents, scope \in GrantScopes, d \in Durations,
                   e \in GrantExpiries : GrantBegin(q, u, a, scope, d, e)
      PROVE  Goal
  BY <1>0, <1>2, OperType, Zenon
<1>3. ASSUME NEW q \in Operators, NEW new \in Operator, oper' = [oper EXCEPT ![q] = new],
             new.pc # "idle" => oper[q].pc # "idle" /\ new.agent = oper[q].agent,
             new.pc \in {"select", "insert"} =>
               oper[q].pc \in {"select", "insert"} /\ new.row = oper[q].row
      PROVE  Goal
  <2>1. /\ oper' \in [Operators -> Operator]
        /\ \A o \in Operators \ {q} : oper'[o] = oper[o]
        /\ oper'[q] = new
    BY <1>0, <1>3, OperWrite, Zenon
  <2> QED BY <1>0, <1>3, <2>1, Zenon DEF OperKnows
<1>4. ASSUME NEW q \in Operators, GrantSelect(q)
      PROVE  Goal
  <2> HIDE DEF Goal
  <2> QED BY <1>0, <1>3, <1>4, SelectFields, Zenon
<1>5. ASSUME NEW q \in Operators, CascadeList(q)
      PROVE  Goal
  <2> HIDE DEF Goal
  <2> QED BY <1>0, <1>3, <1>5, ListFields, ZenonT(30)
<1>6. ASSUME NEW q \in Operators, CascadeListFails(q)
      PROVE  Goal
  <2> HIDE DEF Goal
  <2> QED BY <1>0, <1>3, <1>6, ListFailsFields, Zenon
<1>7. ASSUME NEW q \in Operators, NEW g \in Grants, CascadeRevoke(q, g)
      PROVE  Goal
  <2> HIDE DEF Goal
  <2> QED BY <1>0, <1>3, <1>7, RevokeFields, Zenon
<1>8. ASSUME NEW q \in Operators, NEW g \in Grants, CascadeSkip(q, g)
      PROVE  Goal
  <2> HIDE DEF Goal
  <2> QED BY <1>0, <1>3, <1>8, SkipFields, Zenon
<1>9. ASSUME NEW q \in Operators, oper' = [oper EXCEPT ![q] = IdleOperator]
      PROVE  Goal
  <2> HIDE DEF Goal
  <2> QED BY <1>3, <1>9, IdleOperatorType, Zenon
<1> HIDE DEF Goal
<1>10. ASSUME NEW q \in Operators,
              \/ \E a \in Agents, status \in StatusChanges : ChangeStatus(q, a, status)
              \/ \E a \in Agents : ResumeRead(q, a)
              \/ \E u \in Users, a \in Agents, scope \in GrantScopes, d \in Durations,
                    e \in GrantExpiries : GrantBegin(q, u, a, scope, d, e)
              \/ GrantSelect(q) \/ CascadeList(q) \/ CascadeListFails(q)
              \/ \E g \in Grants : CascadeRevoke(q, g) \/ CascadeSkip(q, g)
              \/ oper' = [oper EXCEPT ![q] = IdleOperator]
       PROVE  Goal
  <2>1. CASE \E a \in Agents, status \in StatusChanges : ChangeStatus(q, a, status)
    BY <1>2, <2>1, Zenon
  <2>2. CASE \E a \in Agents : ResumeRead(q, a)
    BY <1>2, <2>2, Zenon
  <2>3. CASE \E u \in Users, a \in Agents, scope \in GrantScopes, d \in Durations,
               e \in GrantExpiries : GrantBegin(q, u, a, scope, d, e)
    BY <1>2, <2>3, Zenon
  <2>4. CASE \E g \in Grants : CascadeRevoke(q, g) \/ CascadeSkip(q, g)
    BY <1>7, <1>8, <2>4, Zenon
  <2> QED BY <1>4, <1>5, <1>6, <1>9, <1>10, <2>1, <2>2, <2>3, <2>4, Zenon
<1>11. Goal
  <2>1. CASE oper' = oper
    BY <1>1, <2>1, Zenon
  <2>2. CASE oper' # oper
    BY <1>10, <2>2, OperatorSteps, Zenon
  <2> QED BY <2>1, <2>2, Zenon
<1> QED BY <1>11, Zenon DEF Goal

LEMMA AgentsType ==
  ASSUME TypeInv, [Next]_vars
  PROVE  agents' \in [Agents -> Agent] /\ longest' \in [Agents -> Nat]
<1>0. agents \in [Agents -> Agent] /\ longest \in [Agents -> Nat]
  BY Zenon DEF TypeInv, TypeOK
<1>1. ASSUME NEW a \in Agents, NEW status \in Statuses, agents' = [agents EXCEPT ![a].status = status]
      PROVE  agents' \in [Agents -> Agent]
  <2>1. agents[a] \in Agent
    BY <1>0, Zenon
  <2>2. [agents[a] EXCEPT !.status = status] \in Agent
    BY <2>1, Zenon DEF Agent
  <2> QED BY <1>0, <1>1, <2>2, Zenon
<1>2. CASE agents' = agents /\ longest' = longest
  BY <1>0, <1>2, Zenon
<1>3. CASE \E q \in Operators, a \in Agents, status \in StatusChanges : ChangeStatus(q, a, status)
  BY <1>0, <1>1, <1>3, DelegationTimesAssumption, Zenon DEF ChangeStatus, Statuses
<1>4. CASE \E q \in Operators : ResumeWrite(q)
  <2>1. PICK q \in Operators : ResumeWrite(q)
    BY <1>4, Zenon
  <2>2. oper[q].agent \in Agents
    BY <2>1, Zenon DEF TypeInv, OperKnows, ResumeWrite
  <2> QED BY <1>0, <1>1, <2>1, <2>2, Zenon DEF ResumeWrite, Statuses
<1>5. CASE \E a \in Agents, e \in AgentExpiries : SetAgentExpiry(a, e)
  <2>1. PICK a \in Agents, e \in AgentExpiries : SetAgentExpiry(a, e)
    BY <1>5, Zenon
  <2>2. e \in Nat /\ agents[a] \in Agent /\ longest[a] \in Nat
    BY <1>0, DelegationTimesAssumption, Zenon
  <2>3. [agents[a] EXCEPT !.expires = e] \in Agent /\ Later(longest[a], e) \in Nat
    BY <2>2, Zenon DEF Agent, Later
  <2> QED BY <1>0, <2>1, <2>3, Zenon DEF SetAgentExpiry
<1> QED BY <1>2, <1>3, <1>4, <1>5, AgentSteps, Zenon

LEMMA TypeInit == Init => TypeInv
<1> SUFFICES ASSUME Init PROVE TypeInv
  BY Zenon
<1>1. now \in Nat \ {0}
  BY DEF Init
<1>2. agents \in [Agents -> Agent]
  BY DelegationTimesAssumption DEF Init, Agent, Statuses
<1>3. longest \in [Agents -> Nat]
  BY <1>2, Zenon DEF Init, Agent
<1>4. grants \in [Grants -> Grant] /\ tokens \in [Tokens -> Token]
  BY NoRowType, NoClaimsType, Zenon DEF Init
<1>5. req \in [Requests -> Request] /\ \A p \in Requests : CallKnows(p)
  BY IdleRequestType, Zenon DEF Init, CallKnows
<1>6. oper \in [Operators -> Operator] /\ \A q \in Operators : OperKnows(q)
  BY IdleOperatorType, Zenon DEF Init, OperKnows
<1> QED BY <1>1, <1>2, <1>3, <1>4, <1>5, <1>6, Zenon DEF TypeInv, TypeOK

LEMMA TypeStep == TypeInv /\ [Next]_vars => TypeInv'
<1> SUFFICES ASSUME TypeInv, [Next]_vars PROVE TypeInv'
  BY Zenon
<1>1. now' \in Nat \ {0}
  BY ClockSteps, Zenon DEF TypeInv
<1> QED
  BY <1>1, AgentsType, GrantsKept, TokensKept, CallsType, OperatorsType, Zenon DEF TypeInv, TypeOK

\* Agents, grants, tokens and the calls in flight keep their types in every reachable state
\* (internal/agent/service.go, internal/delegation/service.go, internal/as/token_v34.go).
THEOREM TypeCorrect == Spec => []TypeOK
<1>1. TypeInv => TypeOK
  BY SMTT(30) DEF TypeInv
<1> QED BY <1>1, TypeInit, TypeStep, PTL DEF Spec

\* How one call's record may change in a step.
LEMMA CallCases ==
  ASSUME TypeInv, [Next]_vars, NEW r \in Requests
  PROVE  \/ req'[r] = req[r]
         \/ req'[r] = IdleRequest
         \/ \E a \in Agents : SelfBegin(r, a)
         \/ \E a \in Agents, t \in Tokens, want \in GrantScopes \cup {{}} : ExchangeBegin(r, a, t, want)
         \/ ExchangeSubject(r)
         \/ ExchangeWalk(r)
         \/ \E g \in Grants, scope \in SUBSET Scopes : ExchangeGrant(r, g, scope)
<1> DEFINE Begin(p) == \/ \E a \in Agents : SelfBegin(p, a)
                       \/ \E a \in Agents, t \in Tokens, want \in GrantScopes \cup {{}} :
                            ExchangeBegin(p, a, t, want)
           Go(p) == \/ ExchangeSubject(p)
                    \/ ExchangeWalk(p)
                    \/ \E g \in Grants, scope \in SUBSET Scopes : ExchangeGrant(p, g, scope)
           End(p) == \/ \E t \in Tokens, scope \in SelfScopes : SelfMint(p, t, scope)
                     \/ \E t \in Tokens : ExchangeMint(p, t)
                     \/ Refuse(p)
<1>0. req \in [Requests -> Request]
  BY SMTT(30) DEF TypeInv, TypeOK
<1>1. ASSUME NEW p \in Requests \ {r}, Begin(p) \/ Go(p) \/ End(p)
      PROVE  req'[r] = req[r]
  BY <1>0, <1>1, ZenonT(30) DEF SelfBegin, SelfMint, ExchangeBegin, ExchangeSubject, ExchangeWalk, ExchangeGrant,
                    ExchangeMint, Refuse
<1>2. End(r) => req'[r] = IdleRequest
  BY <1>0, Zenon DEF SelfMint, ExchangeMint, Refuse
<1>3. TokenEndpoint => \E p \in Requests : Begin(p) \/ Go(p) \/ End(p)
  <2>1. SUFFICES ASSUME NEW p \in Requests,
                   \/ \E a \in Agents : SelfBegin(p, a)
                   \/ \E t \in Tokens, scope \in SelfScopes : SelfMint(p, t, scope)
                   \/ \E a \in Agents, t \in Tokens, want \in GrantScopes \cup {{}} :
                        ExchangeBegin(p, a, t, want)
                   \/ ExchangeSubject(p)
                   \/ ExchangeWalk(p)
                   \/ \E g \in Grants, scope \in SUBSET Scopes : ExchangeGrant(p, g, scope)
                   \/ \E t \in Tokens : ExchangeMint(p, t)
                   \/ Refuse(p)
                 PROVE  Begin(p) \/ Go(p) \/ End(p)
    BY Zenon DEF TokenEndpoint
  <2> QED BY <2>1, Zenon
<1>4. req'[r] = req[r] \/ req'[r] = IdleRequest \/ Begin(r) \/ Go(r)
  <2> HIDE DEF Begin, Go, End
  <2> QED BY <1>1, <1>2, <1>3, RequestSteps, Zenon
<1> QED BY <1>4, Zenon

\* What the exchange's later steps leave of the record.
LEMMA SubjectFields ==
  ASSUME TypeInv, NEW r \in Requests, ExchangeSubject(r) \/ ExchangeWalk(r)
  PROVE  /\ req'[r].pc = "walk" /\ req[r].pc \in {"subject", "walk"}
         /\ req'[r].agent = req[r].agent /\ req'[r].subject = req[r].subject
         /\ req'[r].dead = req[r].dead
         /\ req[r].bound # 0 => req'[r].bound # 0 /\ req'[r].bound <= req[r].bound
<1>0. TypeOK /\ CallKnows(r) /\ req[r] \in Request /\ req[r].bound \in Nat
  BY Zenon DEF TypeInv, TypeOK, Request
<1>1. CASE ExchangeSubject(r)
  <2>1. req'[r] = [req[r] EXCEPT !.pc = "walk", !.next = 1, !.seen = now] /\ req[r].pc = "subject"
    BY <1>0, <1>1, SubjectType, Zenon DEF ExchangeSubject
  <2> QED BY <1>0, <2>1, SMTT(30) DEF Request
<1>2. CASE ExchangeWalk(r)
  <2>1. PICK e \in Nat : req'[r] = [req[r] EXCEPT !.next = req[r].next + 1,
                                                  !.bound = TightenDuration(req[r].bound, e)]
    BY <1>0, <1>2, WalkType, Zenon
  <2> DEFINE bound == TightenDuration(req[r].bound, e)
  <2>2. req[r].bound # 0 => bound # 0 /\ bound <= req[r].bound
    BY <1>0, Tightens, Zenon
  <2>3. req[r].pc = "walk"
    BY <1>2, Zenon DEF ExchangeWalk
  <2> HIDE DEF bound
  <2> QED BY <1>0, <2>1, <2>2, <2>3, SMTT(30) DEF Request, bound
<1> QED BY <1>1, <1>2, Zenon

LEMMA GrantFields ==
  ASSUME TypeInv, NEW r \in Requests, NEW g \in Grants, NEW scope \in SUBSET Scopes,
         ExchangeGrant(r, g, scope)
  PROVE  /\ req'[r].pc = "mint" /\ req[r].pc = "walk"
         /\ req'[r].agent = req[r].agent /\ req'[r].subject = req[r].subject
         /\ req'[r].dead = req[r].dead
         /\ req'[r].grant = g /\ req'[r].scope = scope
         /\ req'[r].exp = PolicyExp(tokens[req[r].subject].exp, req[r].at, grants[g], req[r].bound)
<1> DEFINE exp == PolicyExp(tokens[req[r].subject].exp, req[r].at, grants[g], req[r].bound)
<1>0. TypeOK /\ CallKnows(r) /\ req[r] \in Request
  BY SMTT(30) DEF TypeInv, TypeOK
<1>1. req'[r] = [req[r] EXCEPT !.pc = "mint", !.grant = g, !.scope = scope, !.exp = exp]
  BY <1>0, GrantType, Zenon
<1>2. req[r].pc = "walk"
  BY Zenon DEF ExchangeGrant
<1> HIDE DEF exp
<1> QED BY <1>0, <1>1, <1>2, Zenon DEF Request, exp

-----------------------------------------------------------------------------
(* Revocation.                                                             *)

\* A call's list of grants revoked before it began stays revoked, and the grant it found usable is
\* none of them.
CleanCall(p) ==
  /\ req[p].dead \subseteq Revoked
  /\ req[p].pc = "mint" => req[p].grant \notin req[p].dead

CleanInv == \A p \in Requests : CleanCall(p)

LEMMA RevokedGrows ==
  ASSUME TypeInv, [Next]_vars
  PROVE  Revoked \subseteq Revoked'
BY GrantsKept, Zenon DEF Revoked

LEMMA CleanStep == TypeInv /\ CleanInv /\ [Next]_vars => CleanInv'
<1> SUFFICES ASSUME TypeInv, CleanInv, [Next]_vars, NEW r \in Requests
             PROVE  CleanCall(r)'
  BY Zenon DEF CleanInv
<1>0. TypeOK /\ CleanCall(r) /\ CallKnows(r) /\ req \in [Requests -> Request] /\ Revoked \subseteq Revoked'
  BY RevokedGrows, Zenon DEF TypeInv, TypeOK, CleanInv
<1>1. ASSUME req'[r].dead \subseteq req[r].dead,
             req'[r].pc = "mint" => req[r].pc = "mint" /\ req'[r].grant = req[r].grant
      PROVE  CleanCall(r)'
  BY <1>0, <1>1, Zenon DEF CleanCall
<1>2. CASE req'[r] = req[r]
  BY <1>1, <1>2, Zenon
<1>3. CASE req'[r] = IdleRequest
  BY <1>1, <1>3, IdleRequestType, Zenon
<1>4. ASSUME NEW a \in Agents, SelfBegin(r, a)
      PROVE  CleanCall(r)'
  <2>1. req'[r].pc = "self" /\ req'[r].dead = {}
    BY <1>0, <1>4, Zenon DEF SelfBegin, IdleRequest
  <2> QED BY <2>1, Zenon DEF CleanCall
<1>5. ASSUME NEW a \in Agents, NEW t \in Tokens, NEW want \in GrantScopes \cup {{}},
             ExchangeBegin(r, a, t, want)
      PROVE  CleanCall(r)'
  <2>1. req'[r].pc = "subject" /\ req'[r].dead = Revoked
    BY <1>0, <1>5, Zenon DEF ExchangeBegin, IdleRequest
  <2> QED BY <1>0, <2>1, Zenon DEF CleanCall
<1>6. ASSUME ExchangeSubject(r) \/ ExchangeWalk(r)
      PROVE  CleanCall(r)'
  BY <1>1, <1>6, SubjectFields, Zenon
<1>7. ASSUME NEW g \in Grants, NEW scope \in SUBSET Scopes, ExchangeGrant(r, g, scope)
      PROVE  CleanCall(r)'
  <2>1. g \notin Revoked
    BY <1>7, Zenon DEF ExchangeGrant, GrantUsable, Active, Revoked
  <2>2. req'[r].grant = g /\ req'[r].dead = req[r].dead
    BY <1>7, GrantFields, Zenon
  <2> QED BY <1>0, <2>1, <2>2, Zenon DEF CleanCall
<1> QED BY <1>2, <1>3, <1>4, <1>5, <1>6, <1>7, CallCases, Zenon

\* An exchange never mints under a grant that was revoked before the exchange began, whatever
\* runs beside it (internal/as/token_v34.go ExchangeToken, steps 8 to 11).
THEOREM CleanMint == Spec => []NoMintUnderRevoked
<1>1. Init => CleanInv
  BY IdleRequestType, Zenon DEF Init, CleanInv, CleanCall
<1>2. CleanInv => NoMintUnderRevoked
  BY Zenon DEF CleanInv, CleanCall, NoMintUnderRevoked
<1> QED BY <1>1, <1>2, CleanStep, TypeInit, TypeStep, PTL DEF Spec

\* What a cascade has still to do: the grants that were live when the status was written are
\* revoked or on its list, once the listing succeeded.
CascadeKnows(q) ==
  LET o == oper[q] IN
  /\ o.pc \in {"list", "cascade"} =>
       \A g \in o.due : grants[g].state # "none" /\ grants[g].agent = o.agent
  /\ o.pc = "cascade" /\ ~ o.failed => o.due \subseteq Revoked \cup o.todo

CascadeInv == \A q \in Operators : CascadeKnows(q)

LEMMA CascadeStep == TypeInv /\ CascadeInv /\ [Next]_vars => CascadeInv'
<1> SUFFICES ASSUME TypeInv, CascadeInv, [Next]_vars, NEW o \in Operators
             PROVE  CascadeKnows(o)'
  BY Zenon DEF CascadeInv
<1>0. /\ TypeOK /\ CascadeKnows(o) /\ oper[o].due \subseteq Grants
      /\ oper \in [Operators -> Operator] /\ Revoked \subseteq Revoked'
  BY RevokedGrows, Zenon DEF TypeInv, TypeOK, CascadeInv, Operator
<1>1. ASSUME oper'[o] = oper[o]
      PROVE  CascadeKnows(o)'
  BY <1>0, <1>1, GrantsKept, Zenon DEF CascadeKnows
<1>2. ASSUME oper'[o].pc \notin {"list", "cascade"}
      PROVE  CascadeKnows(o)'
  BY <1>2, Zenon DEF CascadeKnows
<1>3. ASSUME NEW q \in Operators, NEW new \in Operator, oper' = [oper EXCEPT ![q] = new]
      PROVE  (o = q /\ oper'[o] = new) \/ oper'[o] = oper[o]
  BY <1>0, <1>3, OperWrite, Zenon
<1>4. ASSUME NEW q \in Operators, NEW a \in Agents, NEW status \in StatusChanges,
             ChangeStatus(q, a, status)
      PROVE  CascadeKnows(o)'
  <2> DEFINE new == [IdleOperator EXCEPT !.pc = "list", !.agent = a, !.due = LiveOf(a)]
  <2>1. /\ oper' = [oper EXCEPT ![q] = new] /\ grants' = grants
    BY <1>4, Zenon DEF ChangeStatus
  <2>2. new.pc = "list" /\ new.agent = a /\ new.due = LiveOf(a)
    BY Zenon DEF IdleOperator
  <2> HIDE DEF new
  <2>3. CASE o = q
    <3>1. oper'[o] = new
      BY <1>0, <2>1, <2>3, Zenon
    <3> QED BY <2>1, <2>2, <3>1 DEF CascadeKnows, LiveOf
  <2>4. CASE o # q
    BY <1>0, <1>1, <2>1, <2>4, Zenon
  <2> QED BY <2>3, <2>4, Zenon
<1>5. ASSUME NEW q \in Operators,
             \/ \E a \in Agents : ResumeRead(q, a)
             \/ \E u \in Users, a \in Agents, scope \in GrantScopes, d \in Durations,
                   e \in GrantExpiries : GrantBegin(q, u, a, scope, d, e)
      PROVE  CascadeKnows(o)'
  <2>1. CASE o = q
    <3>1. oper'[o].pc \in {"resume", "select", "insert"}
      <4>1. CASE \E a \in Agents : ResumeRead(q, a)
        BY <1>0, <2>1, <4>1, Zenon DEF ResumeRead, IdleOperator
      <4>2. ASSUME NEW u \in Users, NEW a \in Agents, NEW scope \in GrantScopes,
                   NEW d \in Durations, NEW e \in GrantExpiries, GrantBegin(q, u, a, scope, d, e)
            PROVE  oper'[o].pc \in {"select", "insert"}
        <5> DEFINE pc == IF UniqueLive THEN "insert" ELSE "select"
                   row == [state |-> "live", user |-> u, agent |-> a, scope |-> scope,
                           duration |-> d, expires |-> e]
        <5>1. oper'[o] = [IdleOperator EXCEPT !.pc = pc, !.agent = a, !.row = row]
          BY <1>0, <2>1, <4>2, Zenon DEF GrantBegin
        <5>2. pc \in {"select", "insert"}
          BY SMTT(30)
        <5> HIDE DEF pc, row
        <5> QED BY <5>1, <5>2, Zenon DEF IdleOperator
      <4> QED BY <1>5, <4>1, <4>2, Zenon
    <3> QED BY <1>2, <3>1, Zenon
  <2>2. CASE o # q
    BY <1>0, <1>1, <1>5, <2>2, Zenon DEF ResumeRead, GrantBegin
  <2> QED BY <2>1, <2>2, Zenon
<1>6. ASSUME NEW q \in Operators, GrantSelect(q)
      PROVE  CascadeKnows(o)'
  BY <1>0, <1>1, <1>2, <1>3, <1>6, SelectFields, Zenon
<1>7. ASSUME NEW q \in Operators, CascadeList(q)
      PROVE  CascadeKnows(o)'
  <2> DEFINE new == [oper[q] EXCEPT !.pc = "cascade", !.todo = GrantsToVoid(oper[q].agent)]
  <2>1. /\ new \in Operator /\ oper' = [oper EXCEPT ![q] = new]
        /\ new.agent = oper[q].agent /\ new.due = oper[q].due /\ new.pc = "cascade"
        /\ new.todo = GrantsToVoid(oper[q].agent) /\ oper[q].pc = "list"
    BY <1>0, <1>7, ListFields, Zenon
  <2> HIDE DEF new
  <2>2. grants' = grants
    BY <1>7, Zenon DEF CascadeList
  <2>3. CASE oper'[o] = new /\ o = q
    <3>1. \A g \in oper[o].due : grants[g].state # "none" /\ grants[g].agent = oper[o].agent
      BY <1>0, <2>1, <2>3, Zenon DEF CascadeKnows
    <3>2. \A g \in Grants : grants[g].state \in {"none", "live", "revoked"}
      BY <1>0, Zenon DEF TypeOK, Grant
    <3>3. oper[o].due \subseteq Revoked \cup GrantsToVoid(oper[o].agent)
      BY <1>0, <3>1, <3>2, Zenon DEF Revoked, GrantsToVoid, LiveOf
    <3>4. Revoked' = Revoked
      BY <2>2, Zenon DEF Revoked
    <3> QED BY <2>1, <2>2, <2>3, <3>1, <3>3, <3>4, Zenon DEF CascadeKnows
  <2> QED BY <1>1, <1>3, <2>1, <2>3, Zenon
<1>8. ASSUME NEW q \in Operators, CascadeListFails(q)
      PROVE  CascadeKnows(o)'
  <2> DEFINE new == [oper[q] EXCEPT !.pc = "cascade", !.failed = TRUE]
  <2>1. /\ new \in Operator /\ oper' = [oper EXCEPT ![q] = new]
        /\ new.agent = oper[q].agent /\ new.due = oper[q].due /\ new.failed
        /\ oper[q].pc = "list"
    BY <1>0, <1>8, ListFailsFields, Zenon
  <2> HIDE DEF new
  <2>2. CASE oper'[o] = new /\ o = q
    BY <1>0, <2>1, <2>2, GrantsKept, ZenonT(60) DEF CascadeKnows
  <2> QED BY <1>1, <1>3, <2>1, <2>2, SMTT(30)
<1>9. ASSUME NEW q \in Operators, NEW g \in Grants, CascadeRevoke(q, g)
      PROVE  CascadeKnows(o)'
  <2> DEFINE new == [oper[q] EXCEPT !.todo = oper[q].todo \ {g}]
  <2>1. /\ new \in Operator /\ oper' = [oper EXCEPT ![q] = new]
        /\ new.agent = oper[q].agent /\ new.due = oper[q].due /\ new.pc = "cascade"
        /\ new.failed = oper[q].failed /\ new.todo = oper[q].todo \ {g}
        /\ oper[q].pc = "cascade"
    BY <1>0, <1>9, RevokeFields, Zenon
  <2> HIDE DEF new
  <2>2. g \in Revoked'
    BY <1>0, <1>9, RevokeRow, Zenon DEF CascadeRevoke, Revoked
  <2>3. CASE oper'[o] = new /\ o = q
    BY <1>0, <2>1, <2>2, <2>3, GrantsKept, ZenonT(60) DEF CascadeKnows
  <2> QED BY <1>1, <1>3, <2>1, <2>3, Zenon
<1>10. ASSUME NEW q \in Operators, NEW g \in Grants, CascadeSkip(q, g)
       PROVE  CascadeKnows(o)'
  <2> DEFINE new == [oper[q] EXCEPT !.todo = oper[q].todo \ {g}, !.failed = TRUE]
  <2>1. /\ new \in Operator /\ oper' = [oper EXCEPT ![q] = new]
        /\ new.agent = oper[q].agent /\ new.due = oper[q].due /\ new.failed
        /\ oper[q].pc = "cascade"
    BY <1>0, <1>10, SkipFields, Zenon
  <2> HIDE DEF new
  <2>2. CASE oper'[o] = new /\ o = q
    BY <1>0, <2>1, <2>2, GrantsKept, ZenonT(60) DEF CascadeKnows
  <2> QED BY <1>1, <1>3, <2>1, <2>2, Zenon
<1>11. ASSUME NEW q \in Operators, oper' = [oper EXCEPT ![q] = IdleOperator]
       PROVE  CascadeKnows(o)'
  BY <1>1, <1>2, <1>3, <1>11, IdleOperatorType, Zenon
<1>12. CASE oper' = oper
  BY <1>1, <1>12, Zenon
<1>13. ASSUME NEW q \in Operators,
              \/ \E a \in Agents, status \in StatusChanges : ChangeStatus(q, a, status)
              \/ \E a \in Agents : ResumeRead(q, a)
              \/ \E u \in Users, a \in Agents, scope \in GrantScopes, d \in Durations,
                    e \in GrantExpiries : GrantBegin(q, u, a, scope, d, e)
              \/ GrantSelect(q) \/ CascadeList(q) \/ CascadeListFails(q)
              \/ \E g \in Grants : CascadeRevoke(q, g) \/ CascadeSkip(q, g)
              \/ oper' = [oper EXCEPT ![q] = IdleOperator]
       PROVE  CascadeKnows(o)'
  <2>1. CASE \/ \E a \in Agents : ResumeRead(q, a)
             \/ \E u \in Users, a \in Agents, scope \in GrantScopes, d \in Durations,
                   e \in GrantExpiries : GrantBegin(q, u, a, scope, d, e)
    BY <1>5, <2>1, Zenon
  <2>2. CASE \E a \in Agents, status \in StatusChanges : ChangeStatus(q, a, status)
    BY <1>4, <2>2, Zenon
  <2>3. CASE \E g \in Grants : CascadeRevoke(q, g) \/ CascadeSkip(q, g)
    BY <1>9, <1>10, <2>3, Zenon
  <2> QED BY <1>6, <1>7, <1>8, <1>11, <1>13, <2>1, <2>2, <2>3, Zenon
<1> QED BY <1>12, <1>13, OperatorSteps, Zenon

\* A suspension or revocation that returns without an error has voided every grant that was live
\* when the status changed (internal/agent/cascade.go cascadeAgentRevocation).
THEOREM CascadeComplete == Spec => []CascadeVoids
<1>1. Init => CascadeInv
  BY IdleOperatorType, Zenon DEF Init, CascadeInv, CascadeKnows
<1>2. CascadeInv => CascadeVoids
  BY Zenon DEF CascadeInv, CascadeKnows, CascadeVoids
<1> QED BY <1>1, <1>2, CascadeStep, TypeInit, TypeStep, PTL DEF Spec

\* One live row per tuple, where the store has a unique index.
LEMMA OneLiveStep == TypeInv /\ UniqueLive /\ OneLiveGrant /\ [Next]_vars => OneLiveGrant'
<1> SUFFICES ASSUME TypeInv, UniqueLive, OneLiveGrant, [Next]_vars
             PROVE  OneLiveGrant'
  BY Zenon
<1>0. TypeOK
  BY Zenon DEF TypeInv
<1>1. CASE grants' = grants
  BY <1>1, Zenon DEF OneLiveGrant
<1>2. ASSUME NEW g \in Grants, grants[g].state = "live",
             grants' = [grants EXCEPT ![g].state = "revoked"]
      PROVE  OneLiveGrant'
  BY <1>0, <1>2, RevokeRow DEF OneLiveGrant
<1>3. ASSUME NEW q \in Operators, NEW g \in Grants, GrantInsert(q, g)
      PROVE  OneLiveGrant'
  <2>1. /\ \A h \in Grants \ {g} : grants'[h] = grants[h]
        /\ grants'[g] = oper[q].row
    BY <1>0, <1>3, InsertRow, Zenon
  <2>2. oper[q].row.agent = oper[q].agent
    BY <1>3, Zenon DEF TypeInv, OperKnows, GrantInsert
  <2>3. LiveFor(oper[q].row.user, oper[q].agent) = {}
    BY <1>3, Zenon DEF GrantInsert, InsertAllowed
  <2>4. \A h \in Grants \ {g} :
          ~ (/\ grants[h].state = "live" /\ grants[h].user = oper[q].row.user
             /\ grants[h].agent = oper[q].row.agent)
    BY <2>2, <2>3, Zenon DEF LiveFor, RowsFor
  <2> QED BY <2>1, <2>4, SMTT(30) DEF OneLiveGrant
<1>4. CASE \E q \in Operators, g \in Grants : CascadeRevoke(q, g)
  BY <1>2, <1>4, Zenon DEF CascadeRevoke
<1>5. CASE \E g \in Grants : RevokeDelegation(g)
  BY <1>2, <1>5, Zenon DEF RevokeDelegation
<1> QED BY <1>1, <1>3, <1>4, <1>5, GrantSteps, Zenon

\* With a unique index on live rows, concurrent GrantDelegation calls never leave a user with two
\* live grants for one agent (InsertDelegationGrant on memory, SQLite and Postgres).
THEOREM OneLive == UniqueLive /\ Spec => []OneLiveGrant
<1> SUFFICES ASSUME UniqueLive
             PROVE  Spec => []OneLiveGrant
  BY Zenon
<1>1. Init => OneLiveGrant
  <2>1. Init => \A g \in Grants : grants[g].state = "none"
    BY DEF Init, NoRow
  <2> QED BY <2>1, Zenon DEF OneLiveGrant
<1>2. TypeInv /\ OneLiveGrant /\ [Next]_vars => OneLiveGrant'
  BY OneLiveStep, Zenon
<1> QED BY <1>1, <1>2, TypeInit, TypeStep, PTL DEF Spec

-----------------------------------------------------------------------------
(* What delegated tokens may carry: they stay within the user token they   *)
(* derive from, every actor was granted their scope, and none outlives its *)
(* agents.  The invariants say of an exchange about to mint what the       *)
(* properties say of the token it is going to mint.                        *)

(* Chains.                                                                 *)

\* The user gave the agent the scope, in a grant that may be revoked by now.
Given(u, a, scope) ==
  \E g \in Grants : /\ grants[g].state # "none"
                    /\ grants[g].user = u
                    /\ grants[g].agent = a
                    /\ scope \subseteq grants[g].scope

\* An expiry x is no later than y, where y is zero for never.
Within(x, y) == y = 0 \/ (x # 0 /\ x <= y)

\* An issued token is within its root, and every actor of it was given its scope.
TokenKnows(t) ==
  LET c == tokens[t]
      root == tokens[c.root]
  IN  c.issued =>
        /\ c.root \in Tokens /\ root.issued
        /\ c.sub = root.sub
        /\ c.exp <= root.exp
        /\ root.scope = {} \/ c.scope \subseteq root.scope
        /\ c.parent = NoToken => c.root = t /\ c.chain = <<>>
        /\ c.parent # NoToken =>
             /\ c.scope # {}
             /\ Len(c.chain) < MaxChainDepth
             /\ \A a \in Actors(t) : Given(c.sub, a, c.scope)

\* An exchange about to mint is within its subject token and the grant it read.
MintKnows(p) ==
  LET r == req[p]
      subject == tokens[r.subject]
  IN  r.pc = "mint" =>
        /\ r.scope # {}
        /\ subject.scope = {} \/ r.scope \subseteq subject.scope
        /\ r.exp <= subject.exp
        /\ Len(subject.chain) + 1 < MaxChainDepth
        /\ Given(subject.sub, r.agent, r.scope)

ChainInv ==
  /\ \A t \in Tokens : TokenKnows(t)
  /\ \A p \in Requests : MintKnows(p)

LEMMA PrependActors ==
  ASSUME NEW a \in Agents, NEW s \in Seq(Agents)
  PROVE  /\ Len(<<a>> \o s) = Len(s) + 1
         /\ {(<<a>> \o s)[i] : i \in 1..Len(<<a>> \o s)} = {a} \cup {s[i] : i \in 1..Len(s)}
<1> DEFINE c == <<a>> \o s
<1>1. Len(c) = Len(s) + 1 /\ c[1] = a /\ \A i \in 1..Len(s) : c[i + 1] = s[i]
  OBVIOUS
<1>2. Len(s) \in Nat
  OBVIOUS
<1>3. \A i \in 1..Len(c) : i = 1 \/ (i - 1 \in 1..Len(s) /\ c[i] = s[i - 1])
  OBVIOUS
<1>4. 1 \in 1..Len(c) /\ \A i \in 1..Len(s) : i + 1 \in 1..Len(c)
  <2> HIDE DEF c
  <2> QED BY <1>1, <1>2
<1> HIDE DEF c
<1>5. {c[i] : i \in 1..Len(c)} \subseteq {a} \cup {s[i] : i \in 1..Len(s)}
  BY <1>1, <1>3
<1>6. {a} \cup {s[i] : i \in 1..Len(s)} \subseteq {c[i] : i \in 1..Len(c)}
  BY <1>1, <1>4, Zenon
<1>7. {c[i] : i \in 1..Len(c)} = {a} \cup {s[i] : i \in 1..Len(s)}
  BY <1>5, <1>6, Zenon
<1> QED BY <1>1, <1>7, Zenon DEF c

LEMMA GivenKept ==
  ASSUME TypeInv, [Next]_vars, NEW u, NEW a, NEW scope, Given(u, a, scope)
  PROVE  Given(u, a, scope)'
BY GrantsKept, Zenon DEF Given

LEMMA GivenNarrows ==
  ASSUME NEW u, NEW a, NEW scope, NEW narrow, narrow \subseteq scope, Given(u, a, scope)
  PROVE  Given(u, a, narrow)
BY Zenon DEF Given

\* A token minted before keeps what it knows.
LEMMA TokenKept ==
  ASSUME TypeInv, ChainInv, [Next]_vars, NEW t \in Tokens, tokens[t].issued
  PROVE  TokenKnows(t)'
<1>1. /\ tokens'[t] = tokens[t] /\ tokens[t].root \in Tokens
      /\ tokens'[tokens[t].root] = tokens[tokens[t].root] /\ TokenKnows(t)
  BY TokensKept, Zenon DEF ChainInv, TokenKnows
<1>2. Actors(t)' = Actors(t)
  BY <1>1, Zenon DEF Actors
<1>3. tokens[t].parent # NoToken => \A a \in Actors(t) : Given(tokens[t].sub, a, tokens[t].scope)'
  BY <1>1, GivenKept, Zenon DEF TokenKnows
<1> QED BY <1>1, <1>2, <1>3, Zenon DEF TokenKnows

\* A token without a parent is its own root.
LEMMA RootKnows ==
  ASSUME NEW t \in Tokens, tokens'[t].issued, tokens'[t].root = t, tokens'[t].chain = <<>>,
         tokens'[t].parent = NoToken, tokens'[t].exp \in Nat
  PROVE  TokenKnows(t)'
BY DEF TokenKnows

\* A token exchanged from another is within the other's root.
LEMMA MintedKnows ==
  ASSUME TypeInv, ChainInv, [Next]_vars, NEW p \in Requests, NEW t \in Tokens, ExchangeMint(p, t)
  PROVE  TokenKnows(t)'
<1> DEFINE r == req[p]
           s == tokens[r.subject]
<1>1. /\ CallKnows(p) /\ MintKnows(p) /\ r.pc = "mint" /\ ~ tokens[t].issued
      /\ r \in Request /\ TypeOK
  BY Zenon DEF TypeInv, TypeOK, ChainInv, ExchangeMint
<1>2. r.agent \in Agents /\ r.subject \in Tokens /\ s.issued /\ s.sub \in Users
  BY <1>1, Zenon DEF CallKnows
<1>3. s \in Token /\ TokenKnows(r.subject)
  BY <1>1, <1>2, Zenon DEF TypeOK, ChainInv
<1>5. /\ tokens'[t].issued /\ tokens'[t].sub = s.sub /\ tokens'[t].scope = r.scope
      /\ tokens'[t].chain = <<r.agent>> \o s.chain
      /\ tokens'[t].exp = r.exp /\ tokens'[t].parent = r.subject /\ tokens'[t].root = s.root
  BY <1>1, MintType, Zenon
<1>6. r.subject # NoToken
  BY <1>2, DelegationSetsAssumption, Zenon
<1>7. s.root \in Tokens /\ tokens[s.root].issued /\ tokens'[s.root] = tokens[s.root]
  BY <1>2, <1>3, TokensKept, Zenon DEF TokenKnows
<1>8. r.exp \in Nat /\ s.exp \in Nat /\ tokens[s.root].exp \in Nat
  <2>1. tokens[s.root] \in Token
    BY <1>1, <1>7, Zenon DEF TypeOK
  <2>2. \A x \in Token : x.exp \in Nat
    BY Zenon DEF Token
  <2>3. \A x \in Request : x.exp \in Nat
    BY Zenon DEF Request
  <2> QED BY <1>1, <1>3, <2>1, <2>2, <2>3, Zenon
<1>9. tokens'[t].exp <= tokens'[s.root].exp
  <2>1. r.exp <= s.exp /\ s.exp <= tokens[s.root].exp
    BY <1>1, <1>2, <1>3, Zenon DEF MintKnows, TokenKnows
  <2>2. ASSUME NEW x \in Nat, NEW y \in Nat, NEW z \in Nat, x <= y, y <= z PROVE x <= z
    BY <2>2
  <2>3. r.exp <= tokens[s.root].exp
    BY <1>8, <2>1, <2>2, Zenon
  <2> QED BY <1>5, <1>7, <2>3, Zenon
<1>10. tokens'[s.root].scope = {} \/ r.scope \subseteq tokens'[s.root].scope
  <2>1. s.scope = {} \/ r.scope \subseteq s.scope
    BY <1>1, SMTT(30) DEF MintKnows
  <2>2. tokens[s.root].scope = {} \/ s.scope \subseteq tokens[s.root].scope
    BY <1>2, <1>3, ZenonT(30) DEF TokenKnows
  <2>3. s.scope = {} => tokens[s.root].scope = {}
    BY <1>2, <1>3, Zenon DEF TokenKnows
  <2> HIDE DEF r, s
  <2> QED BY <1>7, <2>1, <2>2, <2>3, Zenon
<1>11. s.chain \in Seq(Agents) /\ Len(s.chain) + 1 < MaxChainDepth
  BY <1>1, <1>3, Zenon DEF Token, MintKnows
<1>12. Len(tokens'[t].chain) < MaxChainDepth /\ Actors(t)' = {r.agent} \cup Actors(r.subject)
  <2>1. Actors(t)' = {(<<r.agent>> \o s.chain)[i] : i \in 1..Len(<<r.agent>> \o s.chain)}
    BY <1>5, Zenon DEF Actors
  <2>2. Actors(r.subject) = {s.chain[i] : i \in 1..Len(s.chain)}
    BY Zenon DEF Actors
  <2> HIDE DEF r, s
  <2> QED BY <1>2, <1>5, <1>11, <2>1, <2>2, PrependActors, Zenon
<1>13. \A a \in {r.agent} \cup Actors(r.subject) : Given(s.sub, a, r.scope)
  <2>1. Given(s.sub, r.agent, r.scope)
    BY <1>1, Zenon DEF MintKnows
  <2>2. CASE s.parent = NoToken
    <3>1. s.chain = <<>>
      BY <1>2, <1>3, <2>2, Zenon DEF TokenKnows
    <3>2. 1..Len(s.chain) = {}
      BY <3>1
    <3>3. Actors(r.subject) = {}
      BY <3>2, Zenon DEF Actors
    <3> QED BY <2>1, <3>3, SMTT(30)
  <2>3. CASE s.parent # NoToken
    <3>1. /\ \A a \in Actors(r.subject) : Given(s.sub, a, s.scope)
          /\ s.scope # {}
      BY <1>2, <1>3, <2>3, Zenon DEF TokenKnows
    <3>2. r.scope \subseteq s.scope
      BY <1>1, <3>1, Zenon DEF MintKnows
    <3> HIDE DEF r, s
    <3> QED BY <2>1, <3>1, <3>2, GivenNarrows, SMTT(30)
  <2> QED BY <2>2, <2>3, Zenon
<1>14. \A a \in Actors(t)' : Given(tokens[t].sub, a, tokens[t].scope)'
  <2>1. PICK u, scope : u = s.sub /\ scope = r.scope
    BY Zenon
  <2>2. SUFFICES ASSUME NEW a \in Actors(t)'
                 PROVE  Given(tokens[t].sub, a, tokens[t].scope)'
    BY Zenon
  <2>3. PICK b : b = a
    BY Zenon
  <2>4. Given(u, b, scope)
    BY <1>12, <1>13, <2>1, <2>3, Zenon
  <2>5. Given(u, b, scope)'
    BY <2>4, GivenKept, SMTT(30)
  <2> QED BY <1>5, <2>1, <2>3, <2>5, Zenon DEF Given
<1>15. s.sub = tokens'[s.root].sub
  BY <1>2, <1>3, <1>7, Zenon DEF TokenKnows
<1>16. r.scope # {}
  BY <1>1, Zenon DEF MintKnows
<1> HIDE DEF r, s
<1> QED BY <1>5, <1>6, <1>7, <1>9, <1>10, <1>12, <1>14, <1>15, <1>16, Zenon DEF TokenKnows

LEMMA TokensStep ==
  ASSUME TypeInv, ChainInv, [Next]_vars, NEW t \in Tokens
  PROVE  TokenKnows(t)'
<1>0. TypeOK
  BY Zenon DEF TypeInv
<1>1. CASE tokens[t].issued
  BY <1>1, TokenKept, Zenon
<1>2. CASE ~ tokens'[t].issued
  BY <1>2, Zenon DEF TokenKnows
<1>3. ASSUME NEW s \in Tokens, NEW u \in Users, NEW scope \in RootScopes, IssueUserToken(s, u, scope)
      PROVE  (t = s /\ TokenKnows(t)') \/ tokens'[t] = tokens[t]
  <2>1. /\ tokens' \in [Tokens -> Token]
        /\ \A x \in Tokens \ {s} : tokens'[x] = tokens[x]
        /\ tokens'[s].issued /\ tokens'[s].chain = <<>>
        /\ tokens'[s].parent = NoToken /\ tokens'[s].root = s
    BY <1>0, <1>3, IssueType, Zenon
  <2>2. tokens'[s].exp \in Nat
    BY <2>1, Zenon DEF Token
  <2>3. TokenKnows(s)'
    BY <2>1, <2>2, RootKnows, Zenon
  <2> QED BY <2>1, <2>3, Zenon
<1>4. ASSUME NEW p \in Requests, NEW s \in Tokens, NEW scope \in SelfScopes, SelfMint(p, s, scope)
      PROVE  (t = s /\ TokenKnows(t)') \/ tokens'[t] = tokens[t]
  <2>1. /\ tokens' \in [Tokens -> Token]
        /\ \A x \in Tokens \ {s} : tokens'[x] = tokens[x]
        /\ tokens'[s].issued /\ tokens'[s].chain = <<>>
        /\ tokens'[s].parent = NoToken /\ tokens'[s].root = s
    BY <1>0, <1>4, SelfMintType DEF TypeInv
  <2>2. tokens'[s].exp \in Nat
    BY <2>1, Zenon DEF Token
  <2>3. TokenKnows(s)'
    BY <2>1, <2>2, RootKnows, Zenon
  <2> QED BY <2>1, <2>3, Zenon
<1>5. ASSUME NEW p \in Requests, NEW s \in Tokens, ExchangeMint(p, s)
      PROVE  (t = s /\ TokenKnows(t)') \/ tokens'[t] = tokens[t]
  <2>1. \A x \in Tokens \ {s} : tokens'[x] = tokens[x]
    BY <1>0, <1>5, MintType, Zenon DEF TypeInv
  <2>2. TokenKnows(s)'
    BY <1>5, MintedKnows, Zenon
  <2> QED BY <2>1, <2>2, Zenon
<1>6. CASE ~ tokens[t].issued /\ tokens'[t].issued
  BY <1>3, <1>4, <1>5, <1>6, TokenSteps
<1> QED BY <1>1, <1>2, <1>6, Zenon

LEMMA MintsStep ==
  ASSUME TypeInv, ChainInv, [Next]_vars, NEW p \in Requests
  PROVE  MintKnows(p)'
<1>0. TypeOK /\ CallKnows(p) /\ MintKnows(p) /\ req[p] \in Request
  BY Zenon DEF TypeInv, TypeOK, ChainInv
<1>1. ASSUME req'[p].pc # "mint"
      PROVE  MintKnows(p)'
  BY <1>1, Zenon DEF MintKnows
<1>2. CASE req'[p] = req[p] /\ req[p].pc = "mint"
  <2>1. PICK t \in Tokens : t = req[p].subject /\ tokens[t].issued
    BY <1>0, <1>2, Zenon DEF CallKnows
  <2>2. tokens'[t] = tokens[t]
    BY <2>1, TokensKept, Zenon
  <2>3. PICK u, a, scope : u = tokens[t].sub /\ a = req[p].agent /\ scope = req[p].scope
    BY Zenon
  <2>4. Given(u, a, scope)
    BY <1>0, <1>2, <2>1, <2>3, Zenon DEF MintKnows
  <2>5. Given(u, a, scope)'
    BY <2>4, GivenKept, Zenon
  <2>6. Given(tokens[req[p].subject].sub, req[p].agent, req[p].scope)'
    BY <1>2, <2>1, <2>2, <2>3, <2>5 DEF Given
  <2> QED BY <1>0, <1>2, <2>1, <2>2, <2>6, Zenon DEF MintKnows
<1>3. ASSUME NEW g \in Grants, NEW scope \in SUBSET Scopes, ExchangeGrant(p, g, scope)
      PROVE  MintKnows(p)'
  <2> DEFINE r == req[p]
             s == tokens[r.subject]
             exp == PolicyExp(s.exp, r.at, grants[g], r.bound)
  <2>1. /\ req'[p].pc = "mint" /\ r.pc = "walk" /\ req'[p].agent = r.agent
        /\ req'[p].subject = r.subject /\ req'[p].scope = scope /\ req'[p].exp = exp
    BY <1>3, GrantFields
  <2>2. tokens' = tokens /\ grants' = grants
    BY <1>3, Zenon DEF ExchangeGrant
  <2>3. r.subject \in Tokens /\ r.at < s.exp
    BY <1>0, <2>1, Zenon DEF CallKnows
  <2>4. s \in Token /\ grants[g] \in Grant
    BY <1>0, <2>3, Zenon DEF TypeOK
  <2>5. /\ r.want \in SUBSET Scopes /\ r.at \in Nat /\ r.bound \in Nat /\ s.exp \in Nat
        /\ s.scope \in SUBSET Scopes /\ grants[g].scope \in SUBSET Scopes
        /\ s.chain \in Seq(Agents)
    BY <1>0, <2>4, Zenon DEF Request, Token, Grant
  <2>6. exp <= s.exp
    <3>1. s.exp # 0 /\ s.exp \in Nat /\ r.at \in Nat /\ r.bound \in Nat
      BY <2>3, <2>5
    <3>2. PICK row \in Grant : row = grants[g]
      BY <2>4, Zenon
    <3> HIDE DEF r, s
    <3> QED BY <3>1, <3>2, PolicyExpBounds, Zenon
  <2>7. /\ NewDepth(s.chain) <= MaxChainDepth
        /\ scope \in Gated(r.want, NarrowScope(r.want, s.scope, grants[g].scope))
        /\ g \in LookupGrant(s.sub, r.agent)
    BY <1>3, Zenon DEF ExchangeGrant
  <2>8. scope # {} /\ scope \subseteq grants[g].scope /\ (s.scope = {} \/ scope \subseteq s.scope)
    <3>1. PICK want \in SUBSET Scopes, subject \in SUBSET Scopes, granted \in SUBSET Scopes :
            want = r.want /\ subject = s.scope /\ granted = grants[g].scope
      BY <2>5, Zenon
    <3>2. scope \in Gated(want, NarrowScope(want, subject, granted))
      BY <2>7, <3>1, Zenon
    <3>3. scope # {} /\ scope \subseteq granted /\ (subject = {} \/ scope \subseteq subject)
      BY <3>2, NarrowType
    <3> QED BY <3>1, <3>3, Zenon
  <2>9. grants[g].state # "none" /\ grants[g].user = s.sub /\ grants[g].agent = r.agent
    BY <2>7, Zenon DEF LookupGrant, LiveFor, RowsFor
  <2>10. Given(tokens[req[p].subject].sub, req[p].agent, req[p].scope)'
    BY <2>1, <2>2, <2>8, <2>9, Zenon DEF Given
  <2>11. Len(s.chain) + 1 < MaxChainDepth
    <3>1. Len(s.chain) \in Nat
      BY <2>5
    <3> HIDE DEF s
    <3> QED BY <2>7, <3>1, DelegationTimesAssumption DEF NewDepth
  <2> HIDE DEF exp
  <2> QED BY <2>1, <2>2, <2>6, <2>8, <2>10, <2>11, Zenon DEF MintKnows
<1>4. ASSUME NEW a \in Agents, SelfBegin(p, a)
      PROVE  req'[p].pc # "mint"
  BY <1>0, <1>4, Zenon DEF SelfBegin, IdleRequest, TypeOK
<1>5. ASSUME NEW a \in Agents, NEW t \in Tokens, NEW want \in GrantScopes \cup {{}},
             ExchangeBegin(p, a, t, want)
      PROVE  req'[p].pc # "mint"
  BY <1>0, <1>5, Zenon DEF ExchangeBegin, IdleRequest, TypeOK
<1>6. CASE req'[p] = IdleRequest \/ (req'[p] = req[p] /\ req[p].pc # "mint")
  BY <1>1, <1>6, IdleRequestType, Zenon
<1>7. CASE ExchangeSubject(p) \/ ExchangeWalk(p)
  BY <1>1, <1>7, SubjectFields, Zenon
<1> QED BY <1>1, <1>2, <1>3, <1>4, <1>5, <1>6, <1>7, CallCases, Zenon

LEMMA ChainInit == Init => ChainInv
BY NoClaimsType, IdleRequestType, Zenon DEF Init, ChainInv, TokenKnows, MintKnows

LEMMA ChainStep == TypeInv /\ ChainInv /\ [Next]_vars => ChainInv'
BY TokensStep, MintsStep, Zenon DEF ChainInv

\* Whatever the number of exchanges, a delegated token keeps its root's subject, and does not
\* exceed its expiry, its scope or the depth limit (internal/as/token_v34.go ExchangeToken).
THEOREM ChainsNarrow == Spec => []NarrowsFromRoot
<1>1. ChainInv => NarrowsFromRoot
  BY Zenon DEF ChainInv, TokenKnows, NarrowsFromRoot, Exchanged
<1> QED BY <1>1, ChainInit, ChainStep, TypeInit, TypeStep, PTL DEF Spec

\* Every agent of an actor chain was granted, by the token's user, every scope the token carries
\* (ExchangeToken's grant lookup and NarrowScope).
THEOREM ChainsAuthorized == Spec => []EveryActorAuthorized
<1>1. ChainInv => EveryActorAuthorized
  BY Zenon DEF ChainInv, TokenKnows, EveryActorAuthorized, Exchanged, Given
<1> QED BY <1>1, ChainInit, ChainStep, TypeInit, TypeStep, PTL DEF Spec

-----------------------------------------------------------------------------
(* Lifetimes.                                                              *)

\* A call's bound, and then the expiry it computed, is within the longest expiry its agent had.
CallWithin(p) ==
  LET r == req[p] IN
  /\ r.pc \in {"self", "subject", "walk"} => Within(r.bound, longest[r.agent])
  /\ r.pc = "mint" => longest[r.agent] = 0 \/ r.exp <= longest[r.agent]

TokenWithin(t) ==
  tokens[t].issued =>
    \A a \in Actors(t) \cup ({tokens[t].sub} \cap Agents) :
      longest[a] = 0 \/ tokens[t].exp <= longest[a]

LifeInv ==
  /\ \A a \in Agents : Within(agents[a].expires, longest[a])
  /\ \A p \in Requests : CallWithin(p)
  /\ \A t \in Tokens : TokenWithin(t)

\* The longest expiry only grows, and covers every expiry that is set.
LEMMA LongestGrows ==
  ASSUME TypeInv, LifeInv, [Next]_vars, NEW a \in Agents
  PROVE  /\ Within(longest[a], longest'[a])
         /\ Within(agents'[a].expires, longest'[a])
<1>0. agents \in [Agents -> Agent] /\ longest \in [Agents -> Nat] /\ agents[a] \in Agent
  BY Zenon DEF TypeInv, TypeOK
<1>a. longest[a] \in Nat /\ agents[a].expires \in Nat /\ Within(agents[a].expires, longest[a])
  BY <1>0, Zenon DEF LifeInv, Agent
<1>1. ASSUME longest'[a] = longest[a], agents'[a].expires = agents[a].expires
      PROVE  /\ Within(longest[a], longest'[a])
             /\ Within(agents'[a].expires, longest'[a])
  <2>1. \A n \in Nat : Within(n, n)
    BY DEF Within
  <2> QED BY <1>a, <1>1, <2>1, Zenon
<1>2. ASSUME NEW b \in Agents, NEW status, agents' = [agents EXCEPT ![b].status = status]
      PROVE  agents'[a].expires = agents[a].expires
  <2>1. agents'[a] = agents[a] \/ agents'[a] = [agents[a] EXCEPT !.status = status]
    BY <1>0, <1>2, Zenon
  <2> QED BY <1>0, <2>1, Zenon DEF Agent
<1>3. CASE agents' = agents /\ longest' = longest
  BY <1>1, <1>3, Zenon
<1>4. CASE \E q \in Operators, b \in Agents, status \in StatusChanges : ChangeStatus(q, b, status)
  BY <1>1, <1>2, <1>4, Zenon DEF ChangeStatus
<1>5. CASE \E q \in Operators : ResumeWrite(q)
  <2>1. PICK q \in Operators : ResumeWrite(q)
    BY <1>5, Zenon
  <2>2. oper[q].agent \in Agents
    BY <2>1, Zenon DEF TypeInv, OperKnows, ResumeWrite
  <2> QED BY <1>1, <1>2, <2>1, <2>2, Zenon DEF ResumeWrite
<1>6. CASE \E b \in Agents, e \in AgentExpiries : SetAgentExpiry(b, e)
  <2>1. PICK b \in Agents, e \in AgentExpiries : SetAgentExpiry(b, e)
    BY <1>6, Zenon
  <2>2. e \in Nat
    BY DelegationTimesAssumption, Zenon
  <2>3. CASE a = b
    <3>1. agents'[a] = [agents[a] EXCEPT !.expires = e] /\ longest'[a] = Later(longest[a], e)
      BY <1>0, <2>1, <2>3, Zenon DEF SetAgentExpiry
    <3>2. agents'[a].expires = e
      BY <1>0, <3>1, Zenon DEF Agent
    <3> QED BY <1>a, <2>2, <3>1, <3>2 DEF Later, Within
  <2>4. CASE a # b
    BY <1>0, <1>1, <2>1, <2>4, Zenon DEF SetAgentExpiry
  <2> QED BY <2>3, <2>4, Zenon
<1> QED BY <1>3, <1>4, <1>5, <1>6, AgentSteps, Zenon

LEMMA WithinLonger ==
  ASSUME NEW x \in Nat, NEW y \in Nat, NEW z \in Nat, Within(y, z)
  PROVE  /\ Within(x, y) => Within(x, z)
         /\ (y = 0 \/ x <= y) => (z = 0 \/ x <= z)
BY DEF Within

LEMMA CallsWithin ==
  ASSUME TypeInv, LifeInv, [Next]_vars, NEW p \in Requests
  PROVE  CallWithin(p)'
<1>0. /\ TypeOK /\ CallKnows(p) /\ CallWithin(p) /\ req[p] \in Request
      /\ longest \in [Agents -> Nat] /\ longest' \in [Agents -> Nat]
  BY AgentsType, Zenon DEF TypeInv, TypeOK, LifeInv
<1>1. req[p].bound \in Nat /\ req[p].exp \in Nat /\ req[p].at \in Nat
  BY <1>0, Zenon DEF Request
<1>2. CASE req'[p] = req[p] /\ req[p].pc # "idle"
  <2>1. PICK a \in Agents : a = req[p].agent
    BY <1>0, <1>2, Zenon DEF CallKnows
  <2>2. Within(longest[a], longest'[a]) /\ longest[a] \in Nat /\ longest'[a] \in Nat
    BY <1>0, LongestGrows, Zenon
  <2>3. Within(req[p].bound, longest[a]) => Within(req[p].bound, longest'[a])
    BY <1>1, <2>2, WithinLonger, Zenon
  <2>4. (longest[a] = 0 \/ req[p].exp <= longest[a]) => (longest'[a] = 0 \/ req[p].exp <= longest'[a])
    BY <1>1, <2>2, WithinLonger, Zenon
  <2>5. req[p].pc \in {"self", "subject", "walk"} => Within(req[p].bound, longest'[a])
    BY <1>0, <2>1, <2>3, Zenon DEF CallWithin
  <2>6. req[p].pc = "mint" => (longest'[a] = 0 \/ req[p].exp <= longest'[a])
    BY <1>0, <2>1, <2>4, Zenon DEF CallWithin
  <2> QED BY <1>2, <2>1, <2>5, <2>6, Zenon DEF CallWithin, Within
<1>3. CASE req'[p] = IdleRequest \/ (req'[p] = req[p] /\ req[p].pc = "idle")
  BY <1>3, IdleRequestType DEF CallWithin
<1>4. ASSUME NEW a \in Agents,
             \/ SelfBegin(p, a)
             \/ \E t \in Tokens, want \in GrantScopes \cup {{}} : ExchangeBegin(p, a, t, want)
      PROVE  CallWithin(p)'
  <2>1. /\ req'[p].pc \in {"self", "subject"} /\ req'[p].agent = a
        /\ req'[p].bound = agents[a].expires
    <3>1. CASE SelfBegin(p, a)
      BY <1>0, <3>1, Zenon DEF SelfBegin, IdleRequest, TypeOK
    <3>2. CASE \E t \in Tokens, want \in GrantScopes \cup {{}} : ExchangeBegin(p, a, t, want)
      BY <1>0, <3>2, SMTT(30) DEF ExchangeBegin, IdleRequest, TypeOK
    <3> QED BY <1>4, <3>1, <3>2, Zenon
  <2>2. longest' = longest
    BY <1>4, Zenon DEF SelfBegin, ExchangeBegin
  <2>3. Within(agents[a].expires, longest[a])
    BY Zenon DEF LifeInv
  <2> QED BY <2>1, <2>2, <2>3, Zenon DEF CallWithin, Within
<1>5. CASE ExchangeSubject(p) \/ ExchangeWalk(p)
  <2>1. /\ req'[p].pc = "walk" /\ req[p].pc \in {"subject", "walk"}
        /\ req'[p].agent = req[p].agent
        /\ req[p].bound # 0 => req'[p].bound # 0 /\ req'[p].bound <= req[p].bound
    BY <1>5, SubjectFields, SMTT(30)
  <2>2. longest' = longest
    BY <1>5, Zenon DEF ExchangeSubject, ExchangeWalk
  <2>3. req'[p].bound \in Nat
    BY CallsType, Zenon DEF Request
  <2>4. PICK a \in Agents : a = req[p].agent /\ longest[a] \in Nat
    BY <1>0, <2>1, Zenon DEF CallKnows
  <2>5. Within(req[p].bound, longest[a])
    BY <1>0, <2>1, <2>4 DEF CallWithin
  <2>6. Within(req'[p].bound, longest[a])
    BY <1>1, <2>1, <2>3, <2>4, <2>5 DEF Within
  <2> QED BY <2>1, <2>2, <2>4, <2>6, Zenon DEF CallWithin, Within
<1>6. ASSUME NEW g \in Grants, NEW scope \in SUBSET Scopes, ExchangeGrant(p, g, scope)
      PROVE  CallWithin(p)'
  <2> DEFINE exp == PolicyExp(tokens[req[p].subject].exp, req[p].at, grants[g], req[p].bound)
  <2>1. /\ req'[p].pc = "mint" /\ req[p].pc = "walk" /\ req'[p].agent = req[p].agent
        /\ req'[p].exp = exp
    BY <1>6, GrantFields, Zenon
  <2>2. longest' = longest
    BY <1>6, Zenon DEF ExchangeGrant
  <2>3. PICK a \in Agents : a = req[p].agent /\ longest[a] \in Nat
    BY <1>0, <2>1, Zenon DEF CallKnows
  <2>4. Within(req[p].bound, longest[a])
    BY <1>0, <2>1, <2>3, Zenon DEF CallWithin
  <2>5. exp \in Nat /\ (req[p].bound # 0 => exp <= req[p].bound)
    <3>1. tokens[req[p].subject].exp \in Nat /\ grants[g] \in Grant
      BY <1>0, <2>1 DEF TypeOK, Token, CallKnows
    <3> QED BY <1>1, <3>1, PolicyExpBounds, Zenon
  <2> HIDE DEF exp
  <2>6. longest[a] = 0 \/ exp <= longest[a]
    BY <1>1, <2>3, <2>4, <2>5 DEF Within
  <2> QED BY <2>1, <2>2, <2>3, <2>6, Zenon DEF CallWithin
<1>7. CASE \E a \in Agents, t \in Tokens, want \in GrantScopes \cup {{}} : ExchangeBegin(p, a, t, want)
  BY <1>4, <1>7, Zenon
<1>8. CASE \E a \in Agents : SelfBegin(p, a)
  BY <1>4, <1>8, Zenon
<1> QED BY <1>2, <1>3, <1>5, <1>6, <1>7, <1>8, CallCases, Zenon

\* The actors and the subject that a token's lifetime answers to.
Answers(t) == Actors(t) \cup ({tokens[t].sub} \cap Agents)

LEMMA TokensWithin ==
  ASSUME TypeInv, ChainInv, LifeInv, [Next]_vars, NEW t \in Tokens
  PROVE  TokenWithin(t)'
<1>0. /\ TypeOK /\ tokens \in [Tokens -> Token]
      /\ longest \in [Agents -> Nat] /\ longest' \in [Agents -> Nat]
  BY AgentsType, Zenon DEF TypeInv, TypeOK
<1>1. \A s \in Tokens : Answers(s) \subseteq Agents
  <2> SUFFICES ASSUME NEW s \in Tokens PROVE Answers(s) \subseteq Agents
    BY Zenon
  <2>1. tokens[s].chain \in Seq(Agents)
    BY <1>0, Zenon DEF Token
  <2> QED BY <2>1 DEF Answers, Actors
<1>2. ASSUME NEW s \in Tokens, tokens[s].issued, NEW a \in Answers(s)
      PROVE  longest'[a] = 0 \/ tokens[s].exp <= longest'[a]
  <2>1. a \in Agents /\ longest[a] \in Nat /\ longest'[a] \in Nat /\ tokens[s].exp \in Nat
    BY <1>0, <1>1, <1>2, Zenon DEF Token
  <2>2. longest[a] = 0 \/ tokens[s].exp <= longest[a]
    BY <1>2, Zenon DEF LifeInv, TokenWithin, Answers
  <2>3. Within(longest[a], longest'[a])
    BY <2>1, LongestGrows, Zenon
  <2> QED BY <2>1, <2>2, <2>3, WithinLonger, Zenon
<1>3. CASE tokens[t].issued
  <2>1. tokens'[t] = tokens[t]
    BY <1>3, TokensKept, Zenon
  <2>2. Answers(t)' = Answers(t)
    BY <2>1, Zenon DEF Answers, Actors
  <2> QED BY <1>2, <1>3, <2>1, <2>2, Zenon DEF TokenWithin, Answers
<1>4. CASE ~ tokens'[t].issued
  BY <1>4, Zenon DEF TokenWithin
<1>5. ASSUME NEW s \in Tokens, NEW u \in Users, NEW scope \in RootScopes, IssueUserToken(s, u, scope)
      PROVE  TokenWithin(s)'
  <2>1. tokens'[s].chain = <<>> /\ tokens'[s].sub = u
    BY <1>0, <1>5, IssueType, Zenon
  <2>2. u \notin Agents
    BY DelegationSetsAssumption, Zenon
  <2>3. 1..Len(tokens'[s].chain) = {}
    BY <2>1
  <2>4. Answers(s)' = {}
    BY <2>1, <2>2, <2>3, Zenon DEF Answers, Actors
  <2> QED BY <2>4, Zenon DEF TokenWithin, Answers
<1>6. ASSUME NEW p \in Requests, NEW s \in Tokens, NEW scope \in SelfScopes, SelfMint(p, s, scope)
      PROVE  TokenWithin(s)'
  <2> DEFINE exp == SelfExp(now, req[p].bound)
  <2>0. CallKnows(p) /\ CallWithin(p) /\ req[p].pc = "self" /\ longest' = longest
        /\ req[p].bound \in Nat
    BY <1>0, <1>6, Zenon DEF TypeInv, LifeInv, SelfMint, TypeOK, Request
  <2>1. /\ tokens'[s].chain = <<>> /\ tokens'[s].sub = req[p].agent /\ tokens'[s].exp = exp
    BY <1>0, <1>6, <2>0, SelfMintType
  <2>2. PICK a \in Agents : a = req[p].agent /\ Within(req[p].bound, longest[a]) /\ longest[a] \in Nat
    BY <1>0, <2>0, Zenon DEF CallKnows, CallWithin
  <2>3. exp \in Nat /\ (req[p].bound # 0 => exp <= req[p].bound)
    <3>1. now + AccessTTL \in Nat
      BY <1>0, DelegationTimesAssumption DEF TypeOK
    <3> QED BY <2>0, <3>1, Tightens, ZenonT(30) DEF SelfExp
  <2> HIDE DEF exp
  <2>4. longest[a] = 0 \/ exp <= longest[a]
    BY <2>0, <2>2, <2>3 DEF Within
  <2>5. 1..Len(tokens'[s].chain) = {}
    BY <2>1
  <2>6. Answers(s)' = {a}
    BY <2>1, <2>2, <2>5, Zenon DEF Answers, Actors
  <2> QED BY <2>0, <2>1, <2>4, <2>6, SMTT(30) DEF TokenWithin, Answers
<1>7. ASSUME NEW p \in Requests, NEW s \in Tokens, ExchangeMint(p, s)
      PROVE  TokenWithin(s)'
  <2>0. /\ CallKnows(p) /\ CallWithin(p) /\ MintKnows(p) /\ req[p].pc = "mint" /\ longest' = longest
        /\ req[p].exp \in Nat
    BY <1>0, <1>7, Zenon DEF TypeInv, LifeInv, ChainInv, ExchangeMint, TypeOK, Request
  <2>1. PICK a \in Agents, x \in Tokens :
          /\ a = req[p].agent /\ x = req[p].subject /\ tokens[x].issued /\ tokens[x].sub \in Users
    BY <2>0, Zenon DEF CallKnows
  <2>2. /\ tokens'[s].chain = <<a>> \o tokens[x].chain /\ tokens'[s].sub = tokens[x].sub
        /\ tokens'[s].exp = req[p].exp
    BY <1>0, <1>7, <2>0, <2>1, MintType, Zenon
  <2>3. tokens[x].chain \in Seq(Agents) /\ tokens[x].exp \in Nat /\ tokens[x].sub \notin Agents
    BY <1>0, <2>1, DelegationSetsAssumption, Zenon DEF Token
  <2>4. Answers(s)' = {a} \cup Actors(x)
    <3>1. Actors(s)' = {(<<a>> \o tokens[x].chain)[i] : i \in 1..Len(<<a>> \o tokens[x].chain)}
      BY <2>2, Zenon DEF Actors
    <3>2. Actors(s)' = {a} \cup Actors(x)
      BY <2>3, <3>1, PrependActors, Zenon DEF Actors
    <3> QED BY <2>2, <2>3, <3>2, Zenon DEF Answers
  <2>5. longest[a] = 0 \/ req[p].exp <= longest[a]
    BY <2>0, <2>1, Zenon DEF CallWithin
  <2>6. \A b \in Actors(x) : longest[b] = 0 \/ req[p].exp <= longest[b]
    <3>1. req[p].exp <= tokens[x].exp
      BY <2>0, <2>1, Zenon DEF MintKnows
    <3>2. \A b \in Actors(x) : longest[b] \in Nat /\ (longest[b] = 0 \/ tokens[x].exp <= longest[b])
      BY <1>0, <1>1, <2>1, Zenon DEF LifeInv, TokenWithin, Answers
    <3> QED BY <2>0, <2>3, <3>1, <3>2
  <2> QED BY <2>0, <2>2, <2>4, <2>5, <2>6, Zenon DEF TokenWithin, Answers
<1>8. CASE ~ tokens[t].issued /\ tokens'[t].issued
  <2>1. ASSUME NEW s \in Tokens, NEW u \in Users, NEW scope \in RootScopes, IssueUserToken(s, u, scope)
        PROVE  TokenWithin(t)'
    <3>1. \A x \in Tokens \ {s} : tokens'[x] = tokens[x]
      BY <1>0, <2>1, IssueType, Zenon
    <3>2. t = s
      BY <1>8, <3>1
    <3> QED BY <1>5, <2>1, <3>2, Zenon
  <2>2. ASSUME NEW p \in Requests, NEW s \in Tokens, NEW scope \in SelfScopes, SelfMint(p, s, scope)
        PROVE  TokenWithin(t)'
    <3>1. \A x \in Tokens \ {s} : tokens'[x] = tokens[x]
      BY <1>0, <2>2, SelfMintType DEF TypeInv
    <3>2. t = s
      BY <1>8, <3>1, Zenon
    <3> QED BY <1>6, <2>2, <3>2, Zenon
  <2>3. ASSUME NEW p \in Requests, NEW s \in Tokens, ExchangeMint(p, s)
        PROVE  TokenWithin(t)'
    <3>1. \A x \in Tokens \ {s} : tokens'[x] = tokens[x]
      BY <1>0, <2>3, MintType, Zenon DEF TypeInv
    <3>2. t = s
      BY <1>8, <3>1, Zenon
    <3> QED BY <1>7, <2>3, <3>2, Zenon
  <2> QED BY <1>8, <2>1, <2>2, <2>3, TokenSteps
<1> QED BY <1>3, <1>4, <1>8, Zenon

LEMMA LifeInit == Init => LifeInv
<1> SUFFICES ASSUME Init PROVE LifeInv
  BY Zenon
<1>1. \A a \in Agents : longest[a] = agents[a].expires /\ agents[a].expires \in Nat
  BY TypeInit, Zenon DEF Init, TypeInv, TypeOK, Agent
<1>2. \A a \in Agents : Within(agents[a].expires, longest[a])
  BY <1>1 DEF Within
<1>3. \A p \in Requests : CallWithin(p)
  BY IdleRequestType, Zenon DEF Init, CallWithin
<1>4. \A t \in Tokens : TokenWithin(t)
  BY NoClaimsType, SMTT(30) DEF Init, TokenWithin
<1> QED BY <1>2, <1>3, <1>4, Zenon DEF LifeInv

LEMMA LifeStep == TypeInv /\ ChainInv /\ LifeInv /\ [Next]_vars => LifeInv'
<1> SUFFICES ASSUME TypeInv, ChainInv, LifeInv, [Next]_vars PROVE LifeInv'
  BY Zenon
<1>1. \A a \in Agents : Within(agents[a].expires, longest[a])'
  BY LongestGrows, Zenon DEF Within
<1>2. \A p \in Requests : CallWithin(p)'
  BY CallsWithin, Zenon
<1>3. \A t \in Tokens : TokenWithin(t)'
  BY TokensWithin, Zenon
<1> QED BY <1>1, <1>2, <1>3, Zenon DEF LifeInv

\* No token outlives the longest expiry that its agent, or any agent of its actor chain, ever had
\* (docs/agent-expiry.md; internal/as/agent_expiry.go capExpiry, and ExchangeToken step 10).
THEOREM Lifetimes == Spec => []OutlivesNoAgent
<1>1. LifeInv => OutlivesNoAgent
  BY Zenon DEF LifeInv, TokenWithin, OutlivesNoAgent
<1> QED BY <1>1, LifeInit, LifeStep, ChainInit, ChainStep, TypeInit, TypeStep, PTL DEF Spec
=============================================================================
