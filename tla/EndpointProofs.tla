--------------------------- MODULE EndpointProofs ---------------------------
(***************************************************************************)
(* Proofs about two endpoints of the authorization server, where what was  *)
(* decided in one request is used in a later one: authorization, which     *)
(* turns a request into a ticket and a ticket into a code, and             *)
(* introspection, whose answers pass through three caches. The constants   *)
(* of each get their assumptions as hypotheses of the theorems.            *)
(***************************************************************************)
EXTENDS Introspection, Integers, Sequences, TLAPS

-----------------------------------------------------------------------------
(* The authorization endpoint (Authorize). A pushed request, a ticket and  *)
(* the calls that answer them are tied to the codes they can still yield.  *)

CONSTANTS Calls, Queries, Catalog, ClientScopes, AnyAge, MaxAuthAge, PushTTL, TicketTTL, MaxPushed, MaxTickets, MaxSessions
VARIABLES drop, client, session, pushed, tickets, asked, issued, denied
Z == INSTANCE Authorize WITH call <- asked

Scopes == Catalog \cup UNION {q.scope : q \in Queries}
Query == [scope : SUBSET Scopes, maxAge : Nat \cup {AnyAge}]

AuthorizeConstants ==
    /\ Queries \subseteq Query /\ Catalog \in ClientScopes
    /\ MaxAuthAge \in Nat /\ PushTTL \in Nat /\ TicketTTL \in Nat
    /\ MaxPushed \in Nat /\ MaxTickets \in Nat /\ MaxSessions \in Nat \ {0}

Pushed == [query : Query, left : 0..PushTTL]
Ticket == [query : Query, from : Nat, sid : Nat, left : 0..TicketTTL, burnt : BOOLEAN]
Call == [pc : {"idle", "consent", "burn", "insert"}, query : Query, from : Nat, ticket : Nat,
         scope : SUBSET Catalog, reg : ClientScopes \cup {{}}, age : 0..MaxAuthAge, sid : Nat]

AuthTypes ==
    /\ drop \in BOOLEAN /\ client \in [scope : ClientScopes, registered : BOOLEAN]
    /\ session \in [id : 1..MaxSessions, age : 0..MaxAuthAge]
    /\ pushed \in Seq(Pushed) /\ Len(pushed) <= MaxPushed
    /\ \A i \in 1..Len(pushed) : pushed[i].query.scope \subseteq Catalog
    /\ tickets \in Seq(Ticket) /\ Len(tickets) <= MaxTickets
    /\ \A j \in 1..Len(tickets) : tickets[j].from <= Len(pushed)
    /\ asked \in [Calls -> Call]
    /\ issued \in [ticket : [1..MaxTickets -> Nat], pushed : [1..MaxPushed -> Nat]]
    /\ denied \subseteq 1..Len(tickets)

(* What a call in progress carries is within the request it answers, from  *)
(* a login fresh enough for it, and of the ticket and the session it       *)
(* completes.                                                              *)
CallOK(k) ==
    k.pc /= "idle" =>
        /\ k.from <= Len(pushed) /\ k.ticket <= Len(tickets)
        /\ k.scope /= {} /\ k.scope \subseteq k.query.scope
        /\ (drop /\ k.reg /= {}) => k.scope \subseteq k.reg
        /\ k.query.maxAge /= AnyAge => k.age <= k.query.maxAge
        /\ k.ticket > 0 => k.sid = tickets[k.ticket].sid /\ k.from = tickets[k.ticket].from
        /\ k.pc = "burn" => k.ticket > 0

(* Ticket j: until it is burnt nothing has come of it, and what burnt it   *)
(* is one denial or one call about to insert its code.                     *)
Inserts(c, j) == asked[c].pc = "insert" /\ asked[c].ticket = j
Burnt(j) == j <= Len(tickets) /\ tickets[j].burnt
TicketOK(j) ==
    /\ issued.ticket[j] <= 1
    /\ ~Burnt(j) => issued.ticket[j] = 0 /\ j \notin denied
    /\ j \in denied => issued.ticket[j] = 0
    /\ \A c \in Calls : Inserts(c, j) => issued.ticket[j] = 0 /\ j \notin denied /\ Burnt(j)
    /\ \A c, d \in Calls : Inserts(c, j) /\ Inserts(d, j) => c = d

(* Pushed request i: it waits to be consumed, or one call answers it, or   *)
(* one ticket carries it, and then its codes are those of the ticket.      *)
Direct(c, i) == asked[c].pc /= "idle" /\ asked[c].ticket = 0 /\ asked[c].from = i
Waiting(i) == i <= Len(pushed) => pushed[i].left > 0
Carries(j, i) == tickets[j].from = i
PushedOK(i) ==
    /\ issued.pushed[i] <= 1
    /\ Waiting(i) => /\ issued.pushed[i] = 0
                     /\ \A c \in Calls : ~Direct(c, i)
                     /\ \A j \in 1..Len(tickets) : ~Carries(j, i)
    /\ \A c \in Calls : Direct(c, i) => issued.pushed[i] = 0 /\ \A j \in 1..Len(tickets) : ~Carries(j, i)
    /\ \A c, d \in Calls : Direct(c, i) /\ Direct(d, i) => c = d
    /\ \A j, k \in 1..Len(tickets) : Carries(j, i) /\ Carries(k, i) => j = k
    /\ \A j \in 1..Len(tickets) : Carries(j, i) => issued.pushed[i] = issued.ticket[j]

AuthInv ==
    /\ AuthTypes
    /\ \A c \in Calls : CallOK(asked[c])
    /\ \A j \in 1..MaxTickets : TicketOK(j)
    /\ \A i \in 1..MaxPushed : PushedOK(i)

Bumped(f, n, x) == [h \in 1..n |-> f[h] + (IF h = x THEN 1 ELSE 0)]

(* However pushed requests, consent tickets and decisions overlap, a       *)
(* ticket is decided once, a pushed request yields at most one code, and a *)
(* code carries no more than was asked and registered, from a login as     *)
(* fresh as the request wants.                                             *)
THEOREM CodesComeFromRequests ==
    ASSUME AuthorizeConstants
    PROVE  Z!Spec => []Z!CodesFollowRequests
<1>IdleCall. Z!Idle \in Call /\ Z!Idle.pc = "idle" /\ CallOK(Z!Idle) /\ CallOK(Z!Idle)'
  <2>1. Z!NoQuery \in Query
      BY Zenon DEF Z!NoQuery, Query
  <2>2. Z!Idle \in Call /\ Z!Idle.pc = "idle"
      BY <2>1 DEF Z!Idle, Call, AuthorizeConstants
  <2> QED BY <2>2, Zenon DEF CallOK
<1>AuthInit. AuthorizeConstants /\ Z!Init => AuthInv
  <2> SUFFICES ASSUME AuthorizeConstants, Z!Init PROVE AuthInv
      BY Zenon
  <2>1. /\ asked = [c \in Calls |-> Z!Idle] /\ pushed = <<>> /\ tickets = <<>> /\ denied = {}
        /\ client = [scope |-> Catalog, registered |-> TRUE] /\ session = [id |-> 1, age |-> 0] /\ drop \in BOOLEAN
        /\ issued = [ticket |-> [j \in 1..MaxTickets |-> 0], pushed |-> [i \in 1..MaxPushed |-> 0]]
      BY Zenon DEF Z!Init
  <2>2. asked \in [Calls -> Call] /\ \A c \in Calls : CallOK(asked[c]) /\ asked[c].pc = "idle"
      BY <2>1, <1>IdleCall, Zenon
  <2>3. /\ pushed \in Seq(Pushed) /\ Len(pushed) = 0 /\ tickets \in Seq(Ticket) /\ Len(tickets) = 0
      BY <2>1
  <2>4. /\ issued \in [ticket : [1..MaxTickets -> Nat], pushed : [1..MaxPushed -> Nat]]
        /\ \A j \in 1..MaxTickets : issued.ticket[j] = 0
        /\ \A i \in 1..MaxPushed : issued.pushed[i] = 0
      BY <2>1, Zenon
  <2>5. AuthTypes
      BY <2>1, <2>2, <2>3, <2>4 DEF AuthTypes, AuthorizeConstants
  <2>6. \A j \in 1..MaxTickets : TicketOK(j)
      BY <2>1, <2>2, <2>4 DEF TicketOK, Inserts
  <2>7. \A i \in 1..MaxPushed : PushedOK(i)
      BY <2>2, <2>3, <2>4 DEF PushedOK, Direct
  <2> QED BY <2>2, <2>5, <2>6, <2>7, Zenon DEF AuthInv
(* A step of one call that claims no pushed request and inserts nothing of *)
(* a ticket.                                                               *)
<1>CallMoves. ASSUME AuthInv, NEW c \in Calls, NEW k \in Call, CallOK(k),
                     UNCHANGED <<drop, client, session, pushed, tickets, issued, denied>>,
                     asked' = [asked EXCEPT ![c] = k],
                     k.pc = "insert" => k.ticket = 0,
                     k.pc /= "idle" /\ k.ticket = 0 /\ k.from /= 0 =>
                         asked[c].pc /= "idle" /\ asked[c].ticket = 0 /\ asked[c].from = k.from
              PROVE  AuthInv'
  <2> USE <1>CallMoves
  <2>1. /\ asked' \in [Calls -> Call] /\ asked'[c] = k
        /\ \A d \in Calls : d /= c => asked'[d] = asked[d]
      BY Zenon DEF AuthInv, AuthTypes
  <2>2. AuthTypes'
      BY <2>1, Zenon DEF AuthInv, AuthTypes
  <2>3. \A d \in Calls : CallOK(asked[d])'
      BY <2>1 DEF AuthInv, CallOK
  <2>4. \A d \in Calls, j \in 1..MaxTickets : Inserts(d, j)' => Inserts(d, j)
      BY <2>1 DEF Inserts
  <2>5. \A d \in Calls, i \in 1..MaxPushed : Direct(d, i)' => Direct(d, i)
      BY <2>1 DEF Direct
  <2>6. \A j \in 1..MaxTickets : TicketOK(j)'
      BY <2>4, Zenon DEF AuthInv, TicketOK, Burnt
  <2>7. \A i \in 1..MaxPushed : PushedOK(i)'
      BY <2>5 DEF AuthInv, PushedOK, Waiting, Carries
  <2> QED BY <2>2, <2>3, <2>6, <2>7, Zenon DEF AuthInv
<1>CallEnds. ASSUME AuthInv, NEW c \in Calls,
                    UNCHANGED <<drop, client, session, pushed, tickets, issued, denied>>,
                    asked' = [asked EXCEPT ![c] = Z!Idle]
             PROVE  AuthInv'
  BY <1>CallEnds, <1>CallMoves, <1>IdleCall, Zenon
(* What startAuthorize gives a call that proceeds.                         *)
<1>Started. ASSUME AuthInv, NEW q \in Query, NEW from \in 0..Len(pushed), NEW ticket \in 0..Len(tickets),
                   Z!Proceeds(q, ticket), ticket > 0 => tickets[ticket].sid = session.id /\ tickets[ticket].from = from
            PROVE  LET k == [pc |-> "consent", query |-> q, from |-> from, ticket |-> ticket,
                             scope |-> Z!narrowScopes(q.scope), reg |-> client.scope, age |-> session.age, sid |-> session.id]
                   IN  k \in Call /\ CallOK(k)
  <2> USE <1>Started
  <2> DEFINE sc == Z!narrowScopes(q.scope)
  <2>1. sc /= {} /\ (q.maxAge /= AnyAge => ~(session.age > q.maxAge))
      BY Zenon DEF Z!Proceeds, Z!Valid, Z!reauthNeeded
  <2>2. sc \subseteq Catalog /\ sc \subseteq q.scope /\ (drop /\ client.scope /= {} => sc \subseteq client.scope)
      BY Zenon DEF Z!narrowScopes
  <2>3. /\ session.age \in 0..MaxAuthAge /\ session.id \in Nat /\ client.scope \in ClientScopes
        /\ Len(pushed) \in Nat /\ Len(tickets) \in Nat
      BY DEF AuthInv, AuthTypes, AuthorizeConstants
  <2>4. q.maxAge /= AnyAge => session.age <= q.maxAge
      BY <2>1, <2>3 DEF Query, AuthorizeConstants
  <2> HIDE DEF sc
  <2>5. from \in Nat /\ ticket \in Nat /\ from <= Len(pushed) /\ ticket <= Len(tickets)
      BY <2>3
  <2> DEFINE k == [pc |-> "consent", query |-> q, from |-> from, ticket |-> ticket,
                   scope |-> sc, reg |-> client.scope, age |-> session.age, sid |-> session.id]
  <2>6. k \in Call
      BY <2>2, <2>3, <2>5, Zenon DEF Call
  <2>7. CallOK(k)
      BY <2>1, <2>2, <2>4, <2>5, Zenon DEF CallOK
  <2> QED BY <2>6, <2>7, Zenon DEF sc
<1>InlineKeeps. ASSUME AuthInv, NEW c \in Calls, NEW q \in Queries, Z!AuthorizeInline(c, q)
                PROVE  AuthInv'
  <2> USE <1>InlineKeeps
  <2>1. UNCHANGED <<drop, client, session, pushed, tickets, issued, denied>> /\ Z!StartAuthorize(c, q, 0, 0)
      BY Zenon DEF Z!AuthorizeInline
  <2>2. q \in Query /\ 0 \in 0..Len(pushed) /\ 0 \in 0..Len(tickets)
      BY DEF AuthInv, AuthTypes, AuthorizeConstants
  <2>3. CASE ~Z!Proceeds(q, 0)
      BY <2>1, <2>3, <1>CallEnds, Zenon DEF Z!StartAuthorize
  <2>4. CASE Z!Proceeds(q, 0)
    <3> DEFINE k == [pc |-> "consent", query |-> q, from |-> 0, ticket |-> 0, scope |-> Z!narrowScopes(q.scope),
                     reg |-> client.scope, age |-> session.age, sid |-> session.id]
    <3>1. asked' = [asked EXCEPT ![c] = k]
        BY <2>1, <2>4, Zenon DEF Z!StartAuthorize
    <3>2. k \in Call /\ CallOK(k)
        BY <2>2, <2>4, <1>Started
    <3>3. k.pc = "consent" /\ k.from = 0
        BY Zenon
    <3> HIDE DEF k
    <3> QED BY <2>1, <3>1, <3>2, <3>3, <1>CallMoves, Zenon
  <2> QED BY <2>3, <2>4, Zenon
<1>CompleteKeeps. ASSUME AuthInv, NEW c \in Calls, NEW j \in DOMAIN tickets, Z!CompleteConsent(c, j)
                  PROVE  AuthInv'
  <2> USE <1>CompleteKeeps
  <2>0. tickets \in Seq(Ticket) /\ Len(tickets) \in Nat /\ Len(pushed) \in Nat /\ j \in 1..Len(tickets)
      BY DEF AuthInv, AuthTypes
  <2> DEFINE q == tickets[j].query
             from == tickets[j].from
  <2>1. /\ UNCHANGED <<drop, client, session, pushed, tickets, issued, denied>>
        /\ Z!StartAuthorize(c, q, from, j) /\ tickets[j].sid = session.id
      BY Zenon DEF Z!CompleteConsent, Z!ResumeGate
  <2>2. q \in Query /\ from \in 0..Len(pushed) /\ j \in 0..Len(tickets) /\ j > 0
    <3>1. tickets[j] \in Ticket /\ tickets[j].from <= Len(pushed)
        BY <2>0 DEF AuthInv, AuthTypes
    <3>2. q \in Query /\ from \in Nat
        BY <3>1, Zenon DEF Ticket
    <3> QED BY <2>0, <3>1, <3>2
  <2>3. CASE ~Z!Proceeds(q, j)
      BY <2>1, <2>3, <1>CallEnds, Zenon DEF Z!StartAuthorize
  <2>4. CASE Z!Proceeds(q, j)
    <3> DEFINE k == [pc |-> "consent", query |-> q, from |-> from, ticket |-> j, scope |-> Z!narrowScopes(q.scope),
                     reg |-> client.scope, age |-> session.age, sid |-> session.id]
    <3>1. asked' = [asked EXCEPT ![c] = k]
        BY <2>1, <2>4, Zenon DEF Z!StartAuthorize
    <3>2. k \in Call /\ CallOK(k)
        BY <2>1, <2>2, <2>4, <1>Started, Zenon
    <3>3. k.pc = "consent" /\ k.ticket = j /\ k.ticket /= 0
        BY <2>2
    <3> HIDE DEF k
    <3> QED BY <2>1, <3>1, <3>2, <3>3, <1>CallMoves, Zenon
  <2> QED BY <2>3, <2>4, Zenon
<1>ApproveKeeps. ASSUME AuthInv, NEW c \in Calls, NEW dec \in Z!Decisions, Z!Approve(c, dec)
                 PROVE  AuthInv'
  <2> USE <1>ApproveKeeps
  <2> DEFINE k == [asked[c] EXCEPT !.pc = IF asked[c].ticket = 0 THEN "insert" ELSE "burn", !.scope = dec.granted]
  <2>1. /\ UNCHANGED <<drop, client, session, pushed, tickets, issued, denied>>
        /\ asked[c].pc = "consent" /\ dec.granted /= {} /\ dec.granted \in SUBSET Catalog
        /\ asked' = [asked EXCEPT ![c] = IF ~(dec.granted \subseteq asked[c].scope) THEN Z!Idle ELSE k]
      BY Zenon DEF Z!Approve, Z!subsetScopes, Z!Decisions
  <2>2. asked[c] \in Call /\ CallOK(asked[c])
      BY Zenon DEF AuthInv, AuthTypes
  <2>3. CASE ~(dec.granted \subseteq asked[c].scope)
      BY <2>1, <2>3, <1>CallEnds, Zenon
  <2>4. CASE dec.granted \subseteq asked[c].scope
    <3>1. /\ k \in Call /\ k.pc \in {"insert", "burn"} /\ k.scope = dec.granted
          /\ k.pc = "insert" => k.ticket = 0
          /\ k.pc = "burn" => k.ticket /= 0
          /\ k.query = asked[c].query /\ k.from = asked[c].from /\ k.ticket = asked[c].ticket
          /\ k.reg = asked[c].reg /\ k.age = asked[c].age /\ k.sid = asked[c].sid /\ k.ticket \in Nat
        BY <2>1, <2>2, Zenon DEF Call
    <3>2. asked' = [asked EXCEPT ![c] = k]
        BY <2>1, <2>4, Zenon
    <3> HIDE DEF k
    <3>3. CallOK(k)
        BY <2>1, <2>2, <2>4, <3>1 DEF CallOK
    <3> QED BY <2>1, <3>1, <3>2, <3>3, <1>CallMoves, Zenon
  <2> QED BY <2>3, <2>4, Zenon
(* The calls know their pushed requests and tickets by position, so a new  *)
(* one at the end, and one that loses time, disturbs none of them.         *)
<1>PushKeeps. ASSUME AuthInv, NEW q \in Queries, Z!PushAuthorize(q)
              PROVE  AuthInv'
  <2> USE <1>PushKeeps
  <2> DEFINE n == Len(pushed)
             sc == Z!narrowScopes(q.scope)
             nq == [q EXCEPT !.scope = sc]
             new == [query |-> nq, left |-> PushTTL]
  <2>1. /\ n < MaxPushed /\ pushed' = Append(pushed, new)
        /\ UNCHANGED <<drop, client, session, tickets, asked, issued, denied>>
      BY Zenon DEF Z!PushAuthorize
  <2>2. sc \subseteq Catalog
      BY Zenon DEF Z!narrowScopes
  <2> HIDE DEF sc
  <2>3. nq \in Query /\ nq.scope = sc
      BY <2>2, Zenon DEF AuthorizeConstants, Query, Scopes
  <2> HIDE DEF nq
  <2>4. new \in Pushed /\ new.query.scope \subseteq Catalog
      BY <2>2, <2>3 DEF Pushed, AuthorizeConstants
  <2> HIDE DEF new
  <2>5. pushed \in Seq(Pushed) /\ n \in Nat
      BY DEF AuthInv, AuthTypes
  <2>6. /\ pushed' \in Seq(Pushed) /\ Len(pushed') = n + 1
        /\ pushed'[n + 1] = new /\ \A i \in 1..n : pushed'[i] = pushed[i]
      BY <2>1, <2>4, <2>5
  <2>7. AuthTypes'
    <3>1. \A i \in 1..Len(pushed') : pushed'[i].query.scope \subseteq Catalog
      <4>1. \A i \in 1..n : pushed[i].query.scope \subseteq Catalog
          BY Zenon DEF AuthInv, AuthTypes
      <4>2. \A i \in 1..Len(pushed') : i \in 1..n \/ i = n + 1
          BY <2>5, <2>6
      <4> QED BY <2>4, <2>6, <4>1, <4>2, Zenon
    <3>2. \A j \in 1..Len(tickets) : tickets[j].from <= Len(pushed')
      <4>1. \A j \in 1..Len(tickets) : tickets[j] \in Ticket /\ tickets[j].from <= n
          BY DEF AuthInv, AuthTypes
      <4> QED BY <2>5, <2>6, <4>1 DEF Ticket
    <3>3. Len(pushed') <= MaxPushed
        BY <2>1, <2>5, <2>6 DEF AuthorizeConstants
    <3> QED BY <2>1, <2>6, <3>1, <3>2, <3>3, Zenon DEF AuthInv, AuthTypes
  <2>8. \A c \in Calls : CallOK(asked[c])'
    <3>1. \A c \in Calls : asked[c] \in Call /\ CallOK(asked[c])
        BY Zenon DEF AuthInv, AuthTypes
    <3>2. \A c \in Calls : asked[c].from \in Nat
        BY <3>1, Zenon DEF Call
    <3>3. \A x \in Nat : x <= n => x <= Len(pushed')
        BY <2>5, <2>6
    <3> QED BY <2>1, <3>1, <3>2, <3>3, Zenon DEF CallOK
  <2>9. \A j \in 1..MaxTickets : TicketOK(j)'
      BY <2>1, Zenon DEF AuthInv, TicketOK, Inserts, Burnt
  <2>10. \A i \in 1..MaxPushed : Waiting(i)' => Waiting(i)
      BY <2>5, <2>6 DEF Waiting, AuthorizeConstants
  <2>11. \A i \in 1..MaxPushed : PushedOK(i)'
      BY <2>1, <2>10 DEF AuthInv, PushedOK, Direct, Carries
  <2> QED BY <2>7, <2>8, <2>9, <2>11, Zenon DEF AuthInv
<1>ClientKeeps. ASSUME AuthInv,
                       (\E s \in ClientScopes, r \in BOOLEAN : Z!ChangeClient(s, r)) \/ Z!Login
                PROVE  AuthInv'
  <2> USE <1>ClientKeeps
  <2>1. UNCHANGED <<drop, pushed, tickets, asked, issued, denied>>
      BY Zenon DEF Z!ChangeClient, Z!Login
  <2>2. client' \in [scope : ClientScopes, registered : BOOLEAN]
      BY DEF Z!ChangeClient, Z!Login, AuthInv, AuthTypes
  <2>3. session' \in [id : 1..MaxSessions, age : 0..MaxAuthAge]
    <3>1. CASE session' = session
        BY <3>1, Zenon DEF AuthInv, AuthTypes
    <3>2. CASE Z!Login
      <4>1. session.id \in 1..MaxSessions /\ session.id < MaxSessions /\ session' = [id |-> session.id + 1, age |-> 0]
          BY <3>2, Zenon DEF AuthInv, AuthTypes, Z!Login
      <4> QED BY <4>1 DEF AuthorizeConstants
    <3> QED BY <3>1, <3>2, Zenon DEF Z!ChangeClient
  <2>4. AuthTypes'
      BY <2>1, <2>2, <2>3, Zenon DEF AuthInv, AuthTypes
  <2> QED BY <2>1, <2>4 DEF AuthInv, CallOK, TicketOK, Inserts, Burnt, PushedOK, Direct, Waiting, Carries
<1>PushedTakenKeeps. ASSUME AuthInv, NEW c \in Calls, NEW i \in DOMAIN pushed, Z!AuthorizePushed(c, i)
                     PROVE  AuthInv'
  <2> USE <1>PushedTakenKeeps
  <2>0. pushed \in Seq(Pushed) /\ Len(pushed) \in Nat /\ i \in 1..Len(pushed) /\ Len(tickets) \in Nat
      BY DEF AuthInv, AuthTypes
  <2> DEFINE q == pushed[i].query
  <2>1. /\ UNCHANGED <<drop, client, session, tickets, issued, denied>> /\ asked[c].pc = "idle" /\ pushed[i].left > 0
        /\ pushed' = [pushed EXCEPT ![i] = [pushed[i] EXCEPT !.left = 0]] /\ Z!StartAuthorize(c, q, i, 0)
      BY Zenon DEF Z!AuthorizePushed, Z!Taken
  <2>2. pushed[i] \in Pushed /\ q \in Query /\ i \in 0..Len(pushed) /\ 0 \in 0..Len(tickets) /\ i > 0
    <3>1. pushed[i] \in Pushed
        BY <2>0
    <3>2. q \in Query
        BY <3>1, Zenon DEF Pushed
    <3> QED BY <2>0, <3>1, <3>2
  <2> DEFINE row == [pushed[i] EXCEPT !.left = 0]
  <2>3. row \in Pushed /\ row.query = q /\ row.left = 0
      BY <2>2 DEF Pushed, AuthorizeConstants
  <2>r. pushed' = [pushed EXCEPT ![i] = row]
      BY <2>1, Zenon
  <2> HIDE DEF row
  <2>4. /\ pushed' \in Seq(Pushed) /\ Len(pushed') = Len(pushed) /\ pushed'[i] = row
        /\ \A h \in 1..Len(pushed) : h /= i => pushed'[h] = pushed[h]
      BY <2>0, <2>3, <2>r
  <2> DEFINE k == [pc |-> "consent", query |-> q, from |-> i, ticket |-> 0, scope |-> Z!narrowScopes(q.scope),
                   reg |-> client.scope, age |-> session.age, sid |-> session.id]
  <2>5. PICK m \in Call : /\ asked' = [asked EXCEPT ![c] = m] /\ CallOK(m)
                          /\ m.pc = "idle" \/ (m.pc = "consent" /\ m.from = i /\ m.ticket = 0)
    <3>1. CASE ~Z!Proceeds(q, 0)
        BY <2>1, <3>1, <1>IdleCall, Zenon DEF Z!StartAuthorize
    <3>2. CASE Z!Proceeds(q, 0)
      <4>1. k \in Call /\ CallOK(k)
          BY <2>2, <3>2, <1>Started
      <4>2. asked' = [asked EXCEPT ![c] = k]
          BY <2>1, <3>2, Zenon DEF Z!StartAuthorize
      <4>3. k.pc = "consent" /\ k.from = i /\ k.ticket = 0
          BY Zenon
      <4> HIDE DEF k
      <4> QED BY <4>1, <4>2, <4>3, Zenon
    <3> QED BY <3>1, <3>2, Zenon
  <2> HIDE DEF k
  <2>6. /\ asked' \in [Calls -> Call] /\ asked'[c] = m
        /\ \A d \in Calls : d /= c => asked'[d] = asked[d]
      BY <2>5, Zenon DEF AuthInv, AuthTypes
  <2>7. AuthTypes'
    <3>1. \A h \in 1..Len(pushed) : pushed'[h].query.scope \subseteq Catalog
        BY <2>0, <2>3, <2>4, Zenon DEF AuthInv, AuthTypes
    <3> QED BY <2>1, <2>4, <2>6, <3>1, Zenon DEF AuthInv, AuthTypes
  <2>8. \A d \in Calls : CallOK(asked[d])'
      BY <2>1, <2>4, <2>5, <2>6 DEF AuthInv, CallOK
  <2>9. \A d \in Calls, j \in 1..MaxTickets : Inserts(d, j)' => Inserts(d, j)
      BY <2>5, <2>6, Zenon DEF Inserts
  <2>10. \A j \in 1..MaxTickets : TicketOK(j)'
      BY <2>1, <2>9, Zenon DEF AuthInv, TicketOK, Burnt
  <2>11. \A d \in Calls, h \in 1..MaxPushed : Direct(d, h)' => Direct(d, h) \/ (d = c /\ h = i)
      BY <2>5, <2>6, Zenon DEF Direct
  <2>12. Waiting(i) /\ ~Waiting(i)' /\ \A h \in 1..MaxPushed : Waiting(h)' => Waiting(h)
      BY <2>0, <2>1, <2>3, <2>4 DEF Waiting, AuthorizeConstants
  <2>13. \A h \in 1..MaxPushed : PushedOK(h)'
      BY <2>1, <2>11, <2>12 DEF AuthInv, PushedOK, Carries
  <2> QED BY <2>7, <2>8, <2>10, <2>13, Zenon DEF AuthInv
<1>InteractKeeps. ASSUME AuthInv, NEW c \in Calls, NEW dec \in Z!Decisions, Z!Interact(c, dec)
                  PROVE  AuthInv'
  <2> USE <1>InteractKeeps
  <2>1. /\ asked[c].pc = "consent" /\ asked' = [asked EXCEPT ![c] = Z!Idle]
        /\ UNCHANGED <<drop, client, session, pushed, issued, denied>>
      BY Zenon DEF Z!Interact
  <2>2. asked[c] \in Call /\ CallOK(asked[c]) /\ tickets \in Seq(Ticket) /\ Len(tickets) \in Nat /\ Len(pushed) \in Nat
      BY DEF AuthInv, AuthTypes
  <2>3. CASE asked[c].ticket > 0
      BY <2>1, <2>3, <1>CallEnds, Zenon DEF Z!Interact
  <2>4. CASE ~(asked[c].ticket > 0)
    <3> DEFINE n == Len(tickets)
               new == [query |-> asked[c].query, from |-> asked[c].from, sid |-> asked[c].sid,
                       left |-> TicketTTL, burnt |-> FALSE]
    <3>1. asked[c].ticket = 0 /\ n < MaxTickets /\ tickets' = Append(tickets, new)
        BY <2>2, <2>4 DEF Z!Interact, Call
    <3>2. new \in Ticket /\ new.from = asked[c].from /\ ~new.burnt /\ asked[c].from <= Len(pushed) /\ asked[c].from \in Nat
        BY <2>1, <2>2 DEF Call, CallOK, Ticket, AuthorizeConstants
    <3> HIDE DEF new
    <3>3. /\ tickets' \in Seq(Ticket) /\ Len(tickets') = n + 1 /\ Len(tickets') <= MaxTickets
          /\ tickets'[n + 1] = new /\ \A j \in 1..n : tickets'[j] = tickets[j]
          /\ \A j \in 1..(n + 1) : j \in 1..n \/ j = n + 1
        BY <2>2, <3>1, <3>2 DEF AuthorizeConstants
    <3>4. /\ asked' \in [Calls -> Call] /\ asked'[c].pc = "idle" /\ CallOK(asked'[c])
          /\ \A d \in Calls : d /= c => asked'[d] = asked[d]
        BY <2>1, <1>IdleCall, Zenon DEF AuthInv, AuthTypes
    <3>5. AuthTypes'
      <4>1. \A j \in 1..Len(tickets') : tickets'[j].from <= Len(pushed)
          BY <3>2, <3>3, Zenon DEF AuthInv, AuthTypes
      <4>2. denied \subseteq 1..Len(tickets')
          BY <2>2, <3>3 DEF AuthInv, AuthTypes
      <4> QED BY <2>1, <3>3, <3>4, <4>1, <4>2, Zenon DEF AuthInv, AuthTypes
    <3>6. \A d \in Calls : CallOK(asked[d])'
      <4>1. \A x \in Nat : x <= n => x <= Len(tickets') /\ (x > 0 => tickets'[x] = tickets[x])
          BY <2>2, <3>3
      <4>2. \A d \in Calls : asked[d].ticket \in Nat
          BY Zenon DEF AuthInv, AuthTypes, Call
      <4> QED BY <2>1, <3>4, <4>1, <4>2 DEF AuthInv, CallOK
    <3>7. \A j \in 1..MaxTickets : TicketOK(j)'
      <4>1. \A j \in 1..MaxTickets : Burnt(j)' <=> Burnt(j)
          BY <2>2, <3>2, <3>3 DEF Burnt, AuthorizeConstants
      <4>2. \A d \in Calls, j \in 1..MaxTickets : Inserts(d, j)' => Inserts(d, j)
          BY <3>4, Zenon DEF Inserts
      <4> QED BY <2>1, <4>1, <4>2, Zenon DEF AuthInv, TicketOK
    <3>8. ASSUME NEW i \in 1..MaxPushed
          PROVE  PushedOK(i)'
      <4>1. PushedOK(i) /\ (Waiting(i)' <=> Waiting(i))
          BY <2>1, Zenon DEF AuthInv, Waiting
      <4>2. \A d \in Calls : Direct(d, i)' => Direct(d, i) /\ d /= c
          BY <3>4, Zenon DEF Direct
      <4>3. \A j \in 1..n : Carries(j, i)' <=> Carries(j, i)
          BY <3>3, Zenon DEF Carries
      <4>4. \A j : j = n + 1 => (Carries(j, i)' <=> Direct(c, i))
          BY <2>1, <3>1, <3>2, <3>3, Zenon DEF Carries, Direct
      <4>5. issued.ticket[n + 1] = 0
        <5>1. n + 1 \in 1..MaxTickets /\ ~Burnt(n + 1)
            BY <2>2, <3>1 DEF Burnt, AuthorizeConstants
        <5> QED BY <5>1, Zenon DEF AuthInv, TicketOK
      <4>6. n + 1 \notin 1..n
          BY <2>2
      <4> QED BY <2>1, <3>3, <4>1, <4>2, <4>3, <4>4, <4>5, <4>6, Zenon DEF PushedOK
    <3> QED BY <3>5, <3>6, <3>7, <3>8, Zenon DEF AuthInv
  <2> QED BY <2>3, <2>4, Zenon
(* A ticket that is burnt, by a denial or by the call that goes on to      *)
(* insert its code.                                                        *)
<1>TicketReplaced. ASSUME tickets \in Seq(Ticket), NEW j \in 1..Len(tickets), NEW new \in Ticket, tickets' = [tickets EXCEPT ![j] = new]
                   PROVE  /\ tickets' \in Seq(Ticket) /\ Len(tickets') = Len(tickets) /\ tickets'[j] = new
                          /\ \A h \in 1..Len(tickets) : h /= j => tickets'[h] = tickets[h]
  BY <1>TicketReplaced
<1>Burning. ASSUME AuthInv, NEW j \in 1..Len(tickets), tickets' = [tickets EXCEPT ![j].burnt = TRUE]
            PROVE  /\ tickets' \in Seq(Ticket) /\ Len(tickets') = Len(tickets) /\ Len(tickets) \in Nat
                   /\ \A h \in 1..Len(tickets) : tickets'[h].from = tickets[h].from /\ tickets'[h].sid = tickets[h].sid
                   /\ Burnt(j)' /\ \A h \in 1..MaxTickets : h /= j => (Burnt(h)' <=> Burnt(h))
  <2> USE <1>Burning
  <2>1. tickets \in Seq(Ticket) /\ tickets[j] \in Ticket /\ Len(tickets) \in Nat
      BY DEF AuthInv, AuthTypes
  <2> DEFINE new == [tickets[j] EXCEPT !.burnt = TRUE]
  <2>2. new \in Ticket /\ new.from = tickets[j].from /\ new.sid = tickets[j].sid /\ new.burnt
      BY <2>1, Zenon DEF Ticket
  <2>3. tickets' = [tickets EXCEPT ![j] = new]
      BY <2>1, Zenon
  <2> HIDE DEF new
  <2>4. /\ tickets' \in Seq(Ticket) /\ Len(tickets') = Len(tickets) /\ tickets'[j] = new
        /\ \A h \in 1..Len(tickets) : h /= j => tickets'[h] = tickets[h]
      BY <2>1, <2>2, <2>3, <1>TicketReplaced, Zenon
  <2> QED BY <2>1, <2>2, <2>4 DEF Burnt, AuthorizeConstants
<1>DenyKeeps. ASSUME AuthInv, NEW c \in Calls, NEW dec \in Z!Decisions, Z!Deny(c, dec)
              PROVE  AuthInv'
  <2> USE <1>DenyKeeps
  <2>1. /\ asked[c].pc = "consent" /\ asked' = [asked EXCEPT ![c] = Z!Idle]
        /\ UNCHANGED <<drop, client, session, pushed, issued>>
      BY Zenon DEF Z!Deny
  <2>2. CASE UNCHANGED <<tickets, denied>>
      BY <2>1, <2>2, <1>CallEnds, Zenon
  <2>3. CASE ~UNCHANGED <<tickets, denied>>
    <3>0. PICK j : j = asked[c].ticket
        BY Zenon
    <3>1. /\ j > 0 /\ ~tickets[j].burnt
          /\ tickets' = [tickets EXCEPT ![j].burnt = TRUE] /\ denied' = denied \cup {j}
        BY <2>3, <3>0, Zenon DEF Z!Deny, Z!Unburnt
    <3>2. j \in 1..Len(tickets)
        BY <2>1, <3>0, <3>1 DEF AuthInv, AuthTypes, CallOK, Call
    <3>3. /\ tickets' \in Seq(Ticket) /\ Len(tickets') = Len(tickets) /\ Len(tickets) \in Nat
          /\ \A h \in 1..Len(tickets) : tickets'[h].from = tickets[h].from /\ tickets'[h].sid = tickets[h].sid
          /\ Burnt(j)' /\ \A h \in 1..MaxTickets : h /= j => (Burnt(h)' <=> Burnt(h))
        BY <3>1, <3>2, <1>Burning, Zenon
    <3>4. /\ asked' \in [Calls -> Call] /\ asked'[c].pc = "idle" /\ CallOK(asked'[c])
          /\ \A d \in Calls : d /= c => asked'[d] = asked[d]
        BY <2>1, <1>IdleCall, Zenon DEF AuthInv, AuthTypes
    <3>5. AuthTypes'
        BY <2>1, <3>1, <3>2, <3>3, <3>4, Zenon DEF AuthInv, AuthTypes
    <3>6. \A d \in Calls : CallOK(asked[d])'
      <4>1. \A d \in Calls : asked[d].ticket \in Nat
          BY Zenon DEF AuthInv, AuthTypes, Call
      <4> QED BY <2>1, <3>3, <3>4, <4>1 DEF AuthInv, CallOK
    <3>7. \A h \in 1..MaxTickets : TicketOK(h)'
      <4> SUFFICES ASSUME NEW h \in 1..MaxTickets PROVE TicketOK(h)'
          BY Zenon
      <4>1. \A d \in Calls : Inserts(d, h)' => Inserts(d, h)
          BY <3>4, Zenon DEF Inserts
      <4>2. ~Burnt(j) /\ TicketOK(h) /\ issued' = issued
          BY <2>1, <3>1, Zenon DEF Burnt, AuthInv
      <4>3. CASE h = j
          BY <3>3, <4>1, <4>2, <4>3, Zenon DEF TicketOK
      <4>4. CASE h /= j
        <5>1. (Burnt(h)' <=> Burnt(h)) /\ (h \in denied' <=> h \in denied)
            BY <3>1, <3>3, <4>4, Zenon
        <5> QED BY <4>1, <4>2, <5>1, Zenon DEF TicketOK
      <4> QED BY <4>3, <4>4, Zenon
    <3>8. \A i \in 1..MaxPushed : PushedOK(i)'
      <4> SUFFICES ASSUME NEW i \in 1..MaxPushed PROVE PushedOK(i)'
          BY Zenon
      <4>1. PushedOK(i) /\ (Waiting(i)' <=> Waiting(i)) /\ issued' = issued
          BY <2>1, Zenon DEF AuthInv, Waiting
      <4>2. \A d \in Calls : Direct(d, i)' => Direct(d, i)
          BY <3>4, Zenon DEF Direct
      <4>3. /\ 1..Len(tickets') = 1..Len(tickets)
            /\ \A h \in 1..Len(tickets) : Carries(h, i)' <=> Carries(h, i)
          BY <3>3, Zenon DEF Carries
      <4> QED BY <4>1, <4>2, <4>3, Zenon DEF PushedOK
    <3> QED BY <3>5, <3>6, <3>7, <3>8, Zenon DEF AuthInv
  <2> QED BY <2>2, <2>3, Zenon
<1>BurnTicketKeeps. ASSUME AuthInv, NEW c \in Calls, Z!BurnTicket(c)
                    PROVE  AuthInv'
  <2> USE <1>BurnTicketKeeps
  <2>0. PICK j : j = asked[c].ticket
      BY Zenon
  <2> DEFINE ins == [asked[c] EXCEPT !.pc = "insert"]
             k == IF ~tickets[j].burnt THEN ins ELSE Z!Idle
  <2>1. /\ asked[c].pc = "burn" /\ UNCHANGED <<drop, client, session, pushed, issued, denied>>
        /\ tickets' = [tickets EXCEPT ![j].burnt = TRUE] /\ asked' = [asked EXCEPT ![c] = k]
      BY <2>0, Zenon DEF Z!BurnTicket, Z!Unburnt
  <2>2. asked[c] \in Call /\ CallOK(asked[c])
      BY Zenon DEF AuthInv, AuthTypes
  <2>3. j \in 1..Len(tickets) /\ j \in 1..MaxTickets
      BY <2>0, <2>1, <2>2, SMTT(30) DEF AuthInv, AuthTypes, CallOK, Call, AuthorizeConstants
  <2>4. /\ ins \in Call /\ ins.pc = "insert" /\ ins.query = asked[c].query /\ ins.from = asked[c].from /\ ins.ticket = j
        /\ ins.scope = asked[c].scope /\ ins.reg = asked[c].reg /\ ins.age = asked[c].age /\ ins.sid = asked[c].sid
      BY <2>0, <2>2, Zenon DEF Call
  <2> HIDE DEF ins
  <2>5. CallOK(ins)
      BY <2>0, <2>1, <2>2, <2>3, <2>4, Zenon DEF CallOK
  <2>6. /\ k \in Call /\ CallOK(k)
        /\ k.pc = "idle" \/ (k.pc = "insert" /\ k.ticket = j /\ ~tickets[j].burnt)
      BY <2>4, <2>5, <1>IdleCall, Zenon
  <2>7. /\ tickets' \in Seq(Ticket) /\ Len(tickets') = Len(tickets) /\ Len(tickets) \in Nat
        /\ \A h \in 1..Len(tickets) : tickets'[h].from = tickets[h].from /\ tickets'[h].sid = tickets[h].sid
        /\ Burnt(j)' /\ \A h \in 1..MaxTickets : h /= j => (Burnt(h)' <=> Burnt(h))
      BY <2>1, <2>3, <1>Burning, Zenon
  <2> HIDE DEF k
  <2>8. /\ asked' \in [Calls -> Call] /\ asked'[c] = k
        /\ \A d \in Calls : d /= c => asked'[d] = asked[d]
      BY <2>1, <2>6, Zenon DEF AuthInv, AuthTypes
  <2>9. AuthTypes'
      BY <2>1, <2>7, <2>8, Zenon DEF AuthInv, AuthTypes
  <2>10. \A d \in Calls : CallOK(asked[d])'
    <3>1. \A d \in Calls : asked'[d] \in Call /\ CallOK(asked'[d])
        BY <2>6, <2>8, Zenon DEF AuthInv
    <3>2. \A d \in Calls : asked'[d].ticket \in Nat
        BY <3>1, Zenon DEF Call
    <3> QED BY <2>1, <2>7, <3>1, <3>2 DEF CallOK
  <2>11. \A h \in 1..MaxTickets : TicketOK(h)'
    <3>1. \A d \in Calls, h \in 1..MaxTickets : Inserts(d, h)' => Inserts(d, h) \/ (d = c /\ h = j /\ ~Burnt(j))
        BY <2>6, <2>8, Zenon DEF Inserts, Burnt
    <3>2. \A h \in 1..MaxTickets : Burnt(h) => Burnt(h)'
        BY <2>7, Zenon
    <3> QED BY <2>1, <2>7, <3>1, <3>2, Zenon DEF AuthInv, TicketOK
  <2>12. \A i \in 1..MaxPushed : PushedOK(i)'
    <3>1. \A d \in Calls, i \in 1..MaxPushed : Direct(d, i)' => Direct(d, i)
        BY <2>3, <2>6, <2>8 DEF Direct
    <3> QED BY <2>1, <2>7, <3>1 DEF AuthInv, PushedOK, Waiting, Carries
  <2> QED BY <2>9, <2>10, <2>11, <2>12, Zenon DEF AuthInv
<1>BumpedCounts. ASSUME NEW n, NEW f \in [1..n -> Nat], NEW x
                 PROVE  /\ Bumped(f, n, x) \in [1..n -> Nat]
                        /\ \A h \in 1..n : h = x => Bumped(f, n, x)[h] = f[h] + 1
                        /\ \A h \in 1..n : h /= x => Bumped(f, n, x)[h] = f[h]
  <2> USE <1>BumpedCounts
  <2>1. \A h \in 1..n : f[h] + (IF h = x THEN 1 ELSE 0) \in Nat
      OBVIOUS
  <2> QED BY <2>1 DEF Bumped
<1>InsertKeeps. ASSUME AuthInv, NEW c \in Calls, Z!InsertAuthorizationCode(c)
                PROVE  AuthInv'
  <2> USE <1>InsertKeeps
  <2>0. PICK j, i : j = asked[c].ticket /\ i = asked[c].from
      BY Zenon
  <2>1. /\ asked[c].pc = "insert" /\ UNCHANGED <<drop, client, session, pushed, tickets, denied>>
        /\ issued' = [ticket |-> [h \in 1..MaxTickets |-> issued.ticket[h] + (IF h = j THEN 1 ELSE 0)],
                      pushed |-> [h \in 1..MaxPushed |-> issued.pushed[h] + (IF h = i THEN 1 ELSE 0)]]
        /\ asked' = [asked EXCEPT ![c] = Z!Idle]
      BY <2>0, Zenon DEF Z!InsertAuthorizationCode
  <2>2. /\ issued.ticket \in [1..MaxTickets -> Nat] /\ issued.pushed \in [1..MaxPushed -> Nat]
        /\ j \in Nat /\ i \in Nat /\ j <= Len(tickets) /\ (j > 0 => i = tickets[j].from)
        /\ Len(tickets) \in Nat /\ Len(tickets) <= MaxTickets
    <3>1. asked[c] \in Call /\ CallOK(asked[c])
        BY Zenon DEF AuthInv, AuthTypes
    <3> QED BY <2>0, <2>1, <3>1 DEF AuthInv, AuthTypes, Call, CallOK
  <2>3. /\ issued' \in [ticket : [1..MaxTickets -> Nat], pushed : [1..MaxPushed -> Nat]]
        /\ \A h \in 1..MaxTickets : h = j => issued'.ticket[h] = issued.ticket[h] + 1
        /\ \A h \in 1..MaxTickets : h /= j => issued'.ticket[h] = issued.ticket[h]
        /\ \A h \in 1..MaxPushed : h = i => issued'.pushed[h] = issued.pushed[h] + 1
        /\ \A h \in 1..MaxPushed : h /= i => issued'.pushed[h] = issued.pushed[h]
    <3>0. issued.ticket \in [1..MaxTickets -> Nat] /\ issued.pushed \in [1..MaxPushed -> Nat]
        BY <2>2, Zenon
    <3> DEFINE ti == Bumped(issued.ticket, MaxTickets, j)
               pu == Bumped(issued.pushed, MaxPushed, i)
    <3>1. /\ ti \in [1..MaxTickets -> Nat]
          /\ \A h \in 1..MaxTickets : h = j => ti[h] = issued.ticket[h] + 1
          /\ \A h \in 1..MaxTickets : h /= j => ti[h] = issued.ticket[h]
        BY <3>0, <1>BumpedCounts
    <3>2. /\ pu \in [1..MaxPushed -> Nat]
          /\ \A h \in 1..MaxPushed : h = i => pu[h] = issued.pushed[h] + 1
          /\ \A h \in 1..MaxPushed : h /= i => pu[h] = issued.pushed[h]
        BY <3>0, <1>BumpedCounts
    <3>3. issued' = [ticket |-> ti, pushed |-> pu]
        BY <2>1, Zenon DEF Bumped
    <3> HIDE DEF ti, pu
    <3> QED BY <3>1, <3>2, <3>3, Zenon
  <2>4. /\ asked' \in [Calls -> Call] /\ asked'[c].pc = "idle" /\ CallOK(asked'[c])
        /\ \A d \in Calls : d /= c => asked'[d] = asked[d]
      BY <2>1, <1>IdleCall, Zenon DEF AuthInv, AuthTypes
  <2>5. AuthTypes'
      BY <2>1, <2>3, <2>4, Zenon DEF AuthInv, AuthTypes
  <2>6. \A d \in Calls : CallOK(asked[d])'
      BY <2>1, <2>4 DEF AuthInv, CallOK
  <2>7. \A d \in Calls, h \in 1..MaxTickets : Inserts(d, h)' <=> Inserts(d, h) /\ d /= c
      BY <2>4, Zenon DEF Inserts
  <2>8. \A h \in 1..MaxTickets : TicketOK(h)'
    <3> SUFFICES ASSUME NEW h \in 1..MaxTickets PROVE TicketOK(h)'
        BY Zenon
    <3>1. TicketOK(h) /\ (Burnt(h)' <=> Burnt(h)) /\ issued.ticket[h] \in Nat
        BY <2>1, <2>2, Zenon DEF AuthInv, Burnt
    <3>2. CASE h = j
      <4>1. Inserts(c, h)
          BY <2>0, <2>1, <3>2, Zenon DEF Inserts
      <4>2. issued'.ticket[h] = 1 /\ Burnt(h)' /\ h \notin denied' /\ \A d \in Calls : ~Inserts(d, h)'
          BY <2>1, <2>3, <2>7, <3>1, <3>2, <4>1 DEF TicketOK
      <4> QED BY <4>2 DEF TicketOK
    <3>3. CASE h /= j
      <4>1. issued'.ticket[h] = issued.ticket[h]
          BY <2>3, <3>1, <3>3, Zenon
      <4> QED BY <2>1, <2>7, <3>1, <4>1, Zenon DEF TicketOK
    <3> QED BY <3>2, <3>3, Zenon
  <2>9. \A h \in 1..MaxPushed : PushedOK(h)'
    <3> SUFFICES ASSUME NEW h \in 1..MaxPushed PROVE PushedOK(h)'
        BY Zenon
    <3>1. PushedOK(h) /\ (Waiting(h)' <=> Waiting(h)) /\ issued.pushed[h] \in Nat
        BY <2>1, <2>2, Zenon DEF AuthInv, Waiting
    <3>2. \A d \in Calls : Direct(d, h)' <=> Direct(d, h) /\ d /= c
        BY <2>4, Zenon DEF Direct
    <3>3. \A k : Carries(k, h)' <=> Carries(k, h)
        BY <2>1, Zenon DEF Carries
    <3>4. \A k \in 1..Len(tickets) : issued.ticket[k] \in Nat /\ k \in 1..MaxTickets
      <4>1. Len(tickets) \in Nat /\ Len(tickets) <= MaxTickets /\ MaxTickets \in Nat
          BY <2>2, Zenon DEF AuthorizeConstants
      <4>2. \A k \in 1..Len(tickets) : k \in 1..MaxTickets
          BY <4>1
      <4> QED BY <2>2, <4>2, Zenon
    <3>5. CASE h = i /\ j = 0
      <4>1. Direct(c, h)
          BY <2>0, <2>1, <3>5, Zenon DEF Direct
      <4>2. issued'.pushed[h] = 1 /\ ~Waiting(h)
          BY <2>3, <3>1, <3>5, <4>1 DEF PushedOK
      <4>3. (\A d \in Calls : ~Direct(d, h)') /\ (\A k \in 1..Len(tickets) : ~Carries(k, h)')
          BY <3>1, <3>2, <3>3, <4>1, Zenon DEF PushedOK
      <4>4. ~Waiting(h)' /\ tickets' = tickets
          BY <2>1, <3>1, <4>2, Zenon
      <4> QED BY <4>2, <4>3, <4>4 DEF PushedOK
    <3>6. CASE h = i /\ j /= 0
      <4>1. j \in 1..Len(tickets) /\ j \in 1..MaxTickets /\ Carries(j, h) /\ Inserts(c, j)
          BY <2>0, <2>1, <2>2, <3>4, <3>6 DEF Carries, Inserts
      <4>2. issued.ticket[j] = 0 /\ issued'.ticket[j] = 1
          BY <2>3, <4>1 DEF AuthInv, TicketOK
      <4>3. issued.pushed[h] = 0 /\ issued'.pushed[h] = 1 /\ ~Waiting(h) /\ (\A d \in Calls : ~Direct(d, h))
            /\ \A k \in 1..Len(tickets) : Carries(k, h) => k = j
        <5>1. issued.pushed[h] = 0 /\ issued'.pushed[h] = 1
            BY <2>3, <3>1, <3>6, <4>1, <4>2 DEF PushedOK
        <5> QED BY <3>1, <4>1, <5>1, Zenon DEF PushedOK
      <4>4. ~Waiting(h)' /\ (\A d \in Calls : ~Direct(d, h)') /\ tickets' = tickets
          BY <2>1, <3>1, <3>2, <4>3, Zenon
      <4>5. \A k \in 1..Len(tickets) : Carries(k, h)' => k = j
          BY <3>3, <4>3, SMTT(30)
      <4> QED BY <4>2, <4>3, <4>4, <4>5 DEF PushedOK
    <3>7. CASE h /= i
      <4>1. issued'.pushed[h] = issued.pushed[h]
          BY <2>3, <3>1, <3>7, Zenon
      <4>2. \A k \in 1..Len(tickets) : Carries(k, h) => issued'.ticket[k] = issued.ticket[k]
          BY <2>2, <2>3, <3>4, <3>7 DEF Carries
      <4> QED BY <2>1, <3>1, <3>2, <3>3, <4>1, <4>2, Zenon DEF PushedOK
    <3> QED BY <3>5, <3>6, <3>7, Zenon
  <2> QED BY <2>5, <2>6, <2>8, <2>9, Zenon DEF AuthInv
<1>AuthTickKeeps. ASSUME AuthInv, Z!Tick
                  PROVE  AuthInv'
  <2> USE <1>AuthTickKeeps
  <2>0. /\ pushed \in Seq(Pushed) /\ Len(pushed) \in Nat /\ tickets \in Seq(Ticket) /\ Len(tickets) \in Nat
        /\ \A i \in 1..Len(pushed) : pushed[i] \in Pushed
        /\ \A j \in 1..Len(tickets) : tickets[j] \in Ticket
      BY DEF AuthInv, AuthTypes
  <2>1. UNCHANGED <<drop, client, asked, issued, denied>>
      BY Zenon DEF Z!Tick
  <2>2. session' \in [id : 1..MaxSessions, age : 0..MaxAuthAge]
    <3>1. session \in [id : 1..MaxSessions, age : 0..MaxAuthAge]
        BY Zenon DEF AuthInv, AuthTypes
    <3>2. session' = [session EXCEPT !.age = IF session.age < MaxAuthAge THEN session.age + 1 ELSE session.age]
        BY Zenon DEF Z!Tick
    <3> QED BY <3>1, <3>2 DEF AuthorizeConstants
  <2>3. \A p \in Pushed : LET r == [p EXCEPT !.left = Z!Down(p.left)]
                          IN  r \in Pushed /\ r.query = p.query /\ (r.left > 0 => p.left > 0)
      BY DEF Pushed, Z!Down, AuthorizeConstants
  <2>4. \A t \in Ticket : LET r == [t EXCEPT !.left = Z!Down(t.left)]
                          IN  r \in Ticket /\ r.from = t.from /\ r.sid = t.sid /\ r.burnt = t.burnt
      BY DEF Ticket, Z!Down, AuthorizeConstants
  <2>5. /\ pushed' \in Seq(Pushed) /\ Len(pushed') = Len(pushed)
        /\ \A i \in 1..Len(pushed) : pushed'[i].query = pushed[i].query /\ (pushed'[i].left > 0 => pushed[i].left > 0)
    <3>1. pushed' = [i \in 1..Len(pushed) |-> [pushed[i] EXCEPT !.left = Z!Down(pushed[i].left)]]
        BY <2>0 DEF Z!Tick
    <3>2. pushed' \in [1..Len(pushed) -> Pushed]
        BY <2>0, <2>3, <3>1, Zenon
    <3>3. pushed' \in Seq(Pushed) /\ Len(pushed') = Len(pushed)
        BY <2>0, <3>2
    <3> QED BY <2>0, <2>3, <3>1, <3>3, Zenon
  <2>6. /\ tickets' \in Seq(Ticket) /\ Len(tickets') = Len(tickets)
        /\ \A j \in 1..Len(tickets) : /\ tickets'[j].from = tickets[j].from /\ tickets'[j].sid = tickets[j].sid
                                      /\ tickets'[j].burnt = tickets[j].burnt
    <3>1. tickets' = [j \in 1..Len(tickets) |-> [tickets[j] EXCEPT !.left = Z!Down(tickets[j].left)]]
        BY <2>0 DEF Z!Tick
    <3>2. tickets' \in [1..Len(tickets) -> Ticket]
        BY <2>0, <2>4, <3>1, Zenon
    <3>3. tickets' \in Seq(Ticket) /\ Len(tickets') = Len(tickets)
        BY <2>0, <3>2
    <3> QED BY <2>0, <2>4, <3>1, <3>3, Zenon
  <2>7. AuthTypes'
      BY <2>1, <2>2, <2>5, <2>6, Zenon DEF AuthInv, AuthTypes
  <2>8. \A c \in Calls : CallOK(asked[c])'
    <3>1. \A c \in Calls : asked[c].ticket \in Nat
        BY Zenon DEF AuthInv, AuthTypes, Call
    <3>2. \A x \in Nat : x > 0 /\ x <= Len(tickets) => tickets'[x].from = tickets[x].from /\ tickets'[x].sid = tickets[x].sid
        BY <2>0, <2>6
    <3>3. Len(pushed') = Len(pushed) /\ Len(tickets') = Len(tickets)
        BY <2>5, <2>6, Zenon
    <3> QED BY <2>1, <3>1, <3>2, <3>3 DEF AuthInv, CallOK
  <2>9. \A j \in 1..MaxTickets : TicketOK(j)'
    <3>1. \A j \in 1..MaxTickets : Burnt(j)' <=> Burnt(j)
        BY <2>0, <2>6 DEF Burnt, AuthorizeConstants
    <3> QED BY <2>1, <3>1, Zenon DEF AuthInv, TicketOK, Inserts
  <2>10. \A i \in 1..MaxPushed : PushedOK(i)'
    <3>1. \A i \in 1..MaxPushed : Waiting(i)' => Waiting(i)
        BY <2>0, <2>5 DEF Waiting, AuthorizeConstants
    <3>2. \A i \in 1..MaxPushed, j \in 1..Len(tickets) : Carries(j, i)' <=> Carries(j, i)
        BY <2>6, Zenon DEF Carries
    <3> QED BY <2>1, <2>6, <3>1, <3>2 DEF AuthInv, PushedOK, Direct
  <2> QED BY <2>7, <2>8, <2>9, <2>10, Zenon DEF AuthInv
<1>1. Z!Init => AuthInv
    BY <1>AuthInit, Zenon
<1>2. AuthInv /\ [Z!Next]_Z!authorizeVars => AuthInv'
  <2> SUFFICES ASSUME AuthInv, [Z!Next]_Z!authorizeVars PROVE AuthInv'
      BY Zenon
  <2>1. CASE UNCHANGED <<drop, client, session, pushed, tickets, asked, issued, denied>>
    <3>1. AuthTypes'
        BY <2>1, Zenon DEF AuthInv, AuthTypes
    <3>2. \A c \in Calls : CallOK(asked[c])'
        BY <2>1, Zenon DEF AuthInv, CallOK
    <3>3. \A j \in 1..MaxTickets : TicketOK(j)'
        BY <2>1, Zenon DEF AuthInv, TicketOK, Inserts, Burnt
    <3>4. \A i \in 1..MaxPushed : PushedOK(i)'
        BY <2>1 DEF AuthInv, PushedOK, Direct, Waiting, Carries
    <3> QED BY <3>1, <3>2, <3>3, <3>4, Zenon DEF AuthInv
  <2> QED BY <2>1, <1>PushKeeps, <1>InlineKeeps, <1>PushedTakenKeeps, <1>CompleteKeeps, <1>ApproveKeeps, <1>InteractKeeps, <1>DenyKeeps,
             <1>BurnTicketKeeps, <1>InsertKeeps, <1>ClientKeeps, <1>AuthTickKeeps, Zenon DEF Z!Next, Z!authorizeVars
<1>3. AuthInv => /\ Z!TypeOK /\ Z!TicketDecidesOnce /\ Z!PushedYieldsOneCode
                 /\ Z!CodeWithinRequest /\ Z!CodeFromFreshLogin
  <2> SUFFICES ASSUME AuthInv PROVE /\ Z!TypeOK /\ Z!TicketDecidesOnce /\ Z!PushedYieldsOneCode
                                    /\ Z!CodeWithinRequest /\ Z!CodeFromFreshLogin
      BY Zenon
  <2>1. /\ DOMAIN pushed = 1..Len(pushed) /\ DOMAIN tickets = 1..Len(tickets) /\ Len(pushed) \in Nat /\ Len(tickets) \in Nat
        /\ Len(pushed) <= MaxPushed /\ Len(tickets) <= MaxTickets
        /\ \A i \in 1..Len(pushed) : pushed[i] \in Pushed /\ i \in 1..MaxPushed
        /\ \A j \in 1..Len(tickets) : tickets[j] \in Ticket /\ j \in 1..MaxTickets
        /\ \A c \in Calls : asked[c] \in Call
      BY DEF AuthInv, AuthTypes, AuthorizeConstants
  <2>2. Z!TypeOK
    <3>1. /\ \A i \in 1..Len(pushed) : pushed[i].left \in 0..PushTTL
          /\ \A j \in 1..Len(tickets) : tickets[j].left \in 0..TicketTTL
          /\ \A c \in Calls : asked[c].pc \in {"idle", "consent", "burn", "insert"} /\ asked[c].scope \subseteq Catalog
        BY <2>1, Zenon DEF Pushed, Ticket, Call
    <3> QED BY <2>1, <3>1, Zenon DEF AuthInv, AuthTypes, Z!TypeOK
  <2>3. Z!TicketDecidesOnce
    <3>1. issued.ticket \in [1..MaxTickets -> Nat]
        BY Zenon DEF AuthInv, AuthTypes
    <3>2. \A j \in 1..Len(tickets) : issued.ticket[j] \in Nat /\ TicketOK(j)
        BY <2>1, <3>1, Zenon DEF AuthInv
    <3>3. \A j \in 1..Len(tickets) : issued.ticket[j] <= 1 /\ (j \in denied => issued.ticket[j] = 0)
        BY <3>2, Zenon DEF TicketOK
    <3> QED BY <2>1, <3>2, <3>3 DEF Z!TicketDecidesOnce
  <2>4. Z!PushedYieldsOneCode
      BY <2>1, Zenon DEF AuthInv, PushedOK, Z!PushedYieldsOneCode
  <2>5. Z!CodeWithinRequest /\ Z!CodeFromFreshLogin
    <3>1. \A c \in Calls : asked[c].scope \subseteq Catalog /\ CallOK(asked[c])
        BY <2>1, Zenon DEF Call, AuthInv
    <3> QED BY <3>1, Zenon DEF CallOK, Z!CodeWithinRequest, Z!CodeFromFreshLogin, Z!Issuing
  <2> QED BY <2>2, <2>3, <2>4, <2>5, Zenon
<1> QED BY <1>1, <1>2, <1>3, PTL DEF Z!Spec, Z!CodesFollowRequests

-----------------------------------------------------------------------------
(* Introspection and its three caches (Introspection). Each kept or        *)
(* carried answer is out of date by at most what it has already aged and   *)
(* what the caches behind it may add.                                      *)

IntrospectionConstants ==
    /\ RsTTL \in Nat \ {0} /\ AsTTL \in Nat \ {0}
    /\ SubjectTTL \in Nat /\ FetchTimeout \in Nat \ {0}

(* How long an answer of the authorization server may already have been    *)
(* out of date.                                                            *)
Behind == CASE kind = "direct" -> 0 [] kind = "subject" -> SubjectTTL [] kind = "row" -> AsTTL

(* What a request holds: a positive verdict is out of date by at most its  *)
(* own fetch and what the caches behind it allow, and one that began after *)
(* a clean invalidation holds no positive verdict.                         *)
RequestOK(r) ==
    /\ r \in Request /\ r.since <= rev
    /\ r.pc \in {"lookup", "keep"} => kind = "subject"
    /\ r.pc = "keep" => /\ rev <= r.read \/ r.read = SubjectTTL
                        /\ r.waiting => rev <= r.age
                        /\ notice /= "given"
    /\ r.pc \in {"set", "reply"} /\ r.active /\ r.waiting => rev <= r.age + Behind
    /\ r.pc = "set" /\ r.active /\ kind = "row" => rev = 0 /\ notice /= "given"
    /\ r.pc = "done" /\ r.active => r.since < Lag
    /\ r.late => notice = "given" /\ (r.pc \in {"set", "reply"} => ~r.active)

(* The same for what is kept.                                              *)
KeptOK ==
    /\ kind \in Kinds /\ opaque \in BOOLEAN /\ usable \in BOOLEAN /\ rev \in 0..MaxLag
    /\ notice \in {"none", "due", "given", "missed"}
    /\ usable => rev = 0 /\ notice = "none"
    /\ subject \in 0..SubjectTTL
    /\ subject > 0 => subject + rev <= SubjectTTL
    /\ notice = "given" /\ kind /= "row" => subject = 0
    /\ body \in [left : 0..AsTTL + 1, active : BOOLEAN]
    /\ kind = "row" /\ body.active /\ body.left > 0 => body.left + rev <= AsTTL + 1 /\ notice /= "given"
    /\ rs \in [left : 0..RsTTL, active : BOOLEAN]
    /\ rs.active /\ rs.left > 0 => rs.left + rev <= Lag

IntInv ==
    /\ KeptOK
    /\ req \in [Requests -> Request]
    /\ \A q \in Requests : RequestOK(req[q])

Places == {"idle", "fetch", "check", "lookup", "keep", "set", "reply", "done"}

(* However lookups, caches and notices interleave, a revoked token is      *)
(* answered active no longer than the caches and one fetch allow, and      *)
(* never by a request that began after a notice no lookup overlapped.      *)
THEOREM RevokedAnswersExpire ==
    ASSUME IntrospectionConstants
    PROVE  Spec => []AnswersExpire
<1>Windows. ASSUME kind \in Kinds
            PROVE  /\ Behind \in Nat /\ Lag = RsTTL + FetchTimeout + Behind
                   /\ MaxLag = RsTTL + FetchTimeout + SubjectTTL + AsTTL
                   /\ Lag \in Nat /\ MaxLag \in Nat /\ Lag <= MaxLag
                   /\ kind = "direct" => Behind = 0
                   /\ kind = "subject" => Behind = SubjectTTL
                   /\ kind = "row" => Behind = AsTTL
  <2> USE <1>Windows
  <2> USE DEF IntrospectionConstants, Kinds, Behind, Lag, MaxLag
  <2>1. CASE kind = "direct"
      BY <2>1
  <2>2. CASE kind = "subject"
      BY <2>2
  <2>3. CASE kind = "row"
      BY <2>3
  <2> QED BY <2>1, <2>2, <2>3, Zenon
<1>IdleOK. ASSUME KeptOK
           PROVE  /\ RequestOK(Idle) /\ Idle.pc = "idle" /\ Idle.waiting = TRUE /\ Idle.age = 0
                  /\ Idle.read = 0 /\ Idle.hit = FALSE /\ Idle.active = FALSE /\ Idle.since = 0
                  /\ Idle.late = FALSE
  <2> USE <1>IdleOK
  <2>1. 0 \in 0..MaxLag /\ rev >= 0
      BY <1>Windows DEF KeptOK
  <2> QED BY <2>1 DEF RequestOK, Idle, Request, IntrospectionConstants
(* A step of one request.                                                  *)
<1>RequestMoves. ASSUME IntInv, NEW q \in Requests, NEW r, req' = [req EXCEPT ![q] = r],
                        UNCHANGED <<kind, opaque, usable, rev, notice>>, RequestOK(r), KeptOK'
                 PROVE  IntInv'
  <2> USE <1>RequestMoves
  <2>1. r \in Request
      BY Zenon DEF RequestOK
  <2>2. req' \in [Requests -> Request] /\ req'[q] = r /\ \A p \in Requests : p /= q => req'[p] = req[p]
      BY <2>1, Zenon DEF IntInv
  <2>3. Lag' = Lag /\ Behind' = Behind
      BY Zenon DEF Lag, Behind
  <2>4. ASSUME NEW p \in Requests PROVE RequestOK(req[p])'
    <3>1. RequestOK(req'[p])
        BY <2>2, Zenon DEF IntInv
    <3> QED BY <2>3, <3>1, Zenon DEF RequestOK
  <2> QED BY <2>2, <2>4, Zenon DEF IntInv
<1>IntInit. ASSUME Init PROVE IntInv
  <2> USE <1>IntInit
  <2>1. KeptOK
    <3>1. 0 \in 0..MaxLag
        BY <1>Windows DEF Init
    <3> QED BY <3>1 DEF Init, KeptOK, IntrospectionConstants
  <2>2. RequestOK(Idle) /\ Idle \in Request
      BY <2>1, <1>IdleOK, Zenon DEF RequestOK
  <2> QED BY <2>1, <2>2, Zenon DEF IntInv, Init
(* The resource server.                                                    *)
<1>RsHitKeeps. ASSUME IntInv, NEW q \in Requests, RsHit(q) PROVE IntInv'
  <2> USE <1>RsHitKeeps
  <2> DEFINE since == IF usable THEN 0 ELSE rev
             r == [Idle EXCEPT !.pc = "done", !.active = rs.active, !.since = since]
  <2>1. /\ UNCHANGED <<kind, opaque, usable, rev, notice, body, subject, rs>> /\ rs.left > 0
        /\ req' = [req EXCEPT ![q] = r] /\ KeptOK
      BY Zenon DEF RsHit, IntInv
  <2>2. RequestOK(r)
    <3>1. since = rev /\ rev \in 0..MaxLag /\ rs.active \in BOOLEAN /\ (rs.active => rev < Lag)
        BY <2>1, <1>Windows DEF KeptOK
    <3>2. Idle \in Request /\ Idle.active = FALSE /\ Idle.late = FALSE
        BY <2>1, <1>IdleOK, Zenon DEF RequestOK
    <3>3. /\ r \in Request /\ r.pc = "done" /\ r.active = rs.active /\ r.since = since /\ r.late = FALSE
      <4> HIDE DEF since
      <4> QED BY <3>1, <3>2, Zenon DEF Request
    <3> HIDE DEF r, since
    <3> QED BY <3>1, <3>3 DEF RequestOK
  <2>3. KeptOK'
      BY <2>1, Zenon DEF KeptOK, Lag, MaxLag
  <2> HIDE DEF r
  <2> QED BY <2>1, <2>2, <2>3, <1>RequestMoves, Zenon
<1>RsMissKeeps. ASSUME IntInv, NEW q \in Requests, RsMiss(q) PROVE IntInv'
  <2> USE <1>RsMissKeeps
  <2> DEFINE since == IF usable THEN 0 ELSE rev
             late == notice = "given"
             r == [Idle EXCEPT !.pc = "fetch", !.since = since, !.late = late]
  <2>1. /\ UNCHANGED <<kind, opaque, usable, rev, notice, body, subject, rs>>
        /\ req' = [req EXCEPT ![q] = r] /\ KeptOK
      BY Zenon DEF RsMiss, IntInv
  <2>2. RequestOK(r)
    <3>1. since = rev /\ rev \in 0..MaxLag /\ late \in BOOLEAN
        BY <2>1, Zenon DEF KeptOK
    <3>2. Idle \in Request /\ Idle.active = FALSE /\ Idle.late = FALSE
        BY <2>1, <1>IdleOK, Zenon DEF RequestOK
    <3>3. /\ r \in Request /\ r.pc = "fetch" /\ r.active = FALSE /\ r.since = since /\ r.late = late
      <4> HIDE DEF since, late
      <4> QED BY <3>1, <3>2, Zenon DEF Request
    <3> HIDE DEF r
    <3>4. r.late => notice = "given"
        BY <3>3, Zenon
    <3> HIDE DEF since, late
    <3> QED BY <3>1, <3>3, <3>4 DEF RequestOK
  <2>3. KeptOK'
      BY <2>1, Zenon DEF KeptOK, Lag, MaxLag
  <2> HIDE DEF r
  <2> QED BY <2>1, <2>2, <2>3, <1>RequestMoves, Zenon
<1>RsTimeoutKeeps. ASSUME IntInv, NEW q \in Requests, RsTimeout(q) PROVE IntInv'
  <2> USE <1>RsTimeoutKeeps
  <2> DEFINE s == req[q]
             r == [s EXCEPT !.waiting = FALSE, !.age = 0, !.since = 0, !.late = FALSE]
  <2>1. /\ UNCHANGED <<kind, opaque, usable, rev, notice, body, subject, rs>> /\ KeptOK
        /\ s \in Request /\ RequestOK(s)
      BY Zenon DEF RsTimeout, IntInv
  <2>2. req' = [req EXCEPT ![q] = r]
      BY Zenon DEF RsTimeout
  <2>3. RequestOK(r)
    <3>1. 0 \in 0..MaxLag /\ rev >= 0 /\ 0 < Lag /\ 0 \in 0..FetchTimeout
        BY <2>1, <1>Windows DEF KeptOK, IntrospectionConstants
    <3>2. /\ r \in Request /\ r.pc = s.pc /\ r.active = s.active /\ r.since = 0 /\ r.late = FALSE
          /\ r.waiting = FALSE /\ r.read = s.read
        BY <2>1, <3>1, Zenon DEF Request
    <3> HIDE DEF r
    <3> QED BY <2>1, <3>1, <3>2, Zenon DEF RequestOK
  <2>4. KeptOK'
      BY <2>1, Zenon DEF KeptOK, Lag, MaxLag
  <2> HIDE DEF r
  <2> QED BY <2>1, <2>2, <2>3, <2>4, <1>RequestMoves, Zenon
<1>RsStoreKeeps. ASSUME IntInv, NEW q \in Requests, RsStore(q) PROVE IntInv'
  <2> USE <1>RsStoreKeeps
  <2> DEFINE s == req[q]
             k == Kept(q)
  <2>0. KeptOK /\ s \in Request /\ RequestOK(s) /\ s.pc = "reply" /\ s.active \in BOOLEAN /\ s.age \in 0..FetchTimeout
      BY Zenon DEF RsStore, At, IntInv, Request
  <2>1. UNCHANGED <<kind, opaque, usable, rev, notice, body, subject>>
      BY Zenon DEF RsStore
  <2>2. /\ Behind \in Nat /\ Lag = RsTTL + FetchTimeout + Behind /\ rev \in Nat
        /\ Lag' = Lag /\ MaxLag' = MaxLag
    <3>1. Lag' = Lag /\ MaxLag' = MaxLag
        BY <2>1, Zenon DEF Lag, MaxLag
    <3> QED BY <2>0, <3>1, <1>Windows DEF KeptOK
  <2>3. CASE s.waiting
    <3>1. /\ k \in [left : 0..RsTTL, active : BOOLEAN]
          /\ k.active => rev < Lag /\ k.left + rev <= Lag
      <4>1. CASE rs.left > 0
          BY <2>0, <2>2, <4>1 DEF KeptOK, Kept, IntrospectionConstants
      <4>2. CASE ~(rs.left > 0)
        <5>1. k = [left |-> RsTTL, active |-> s.active]
            BY <4>2, Zenon DEF Kept
        <5>2. s.active => rev <= s.age + Behind
            BY <2>0, <2>3, Zenon DEF RequestOK
        <5> QED BY <2>0, <2>2, <5>1, <5>2 DEF IntrospectionConstants
      <4> QED BY <4>1, <4>2, Zenon
    <3> DEFINE r == [s EXCEPT !.pc = "done", !.age = 0, !.active = k.active]
    <3>2. /\ rs' = IF k.active \/ opaque THEN k ELSE [rs EXCEPT !.left = 0]
          /\ req' = [req EXCEPT ![q] = r]
        BY <2>3, Zenon DEF RsStore
    <3> HIDE DEF k
    <3>3. KeptOK'
      <4>1. /\ rs' \in [left : 0..RsTTL, active : BOOLEAN]
            /\ rs'.active /\ rs'.left > 0 => rs'.left + rev <= Lag
        <5>1. CASE rs' = k
            BY <3>1, <5>1, Zenon
        <5>2. CASE rs' = [rs EXCEPT !.left = 0]
            BY <2>0, <5>2 DEF KeptOK, IntrospectionConstants
        <5> QED BY <3>2, <5>1, <5>2, Zenon
      <4> QED BY <2>0, <2>1, <2>2, <4>1, Zenon DEF KeptOK
    <3>4. RequestOK(r)
      <4>1. 0 \in 0..FetchTimeout /\ k.active \in BOOLEAN
          BY <3>1 DEF IntrospectionConstants
      <4>2. /\ r \in Request /\ r.pc = "done" /\ r.active = k.active /\ r.since = s.since /\ r.late = s.late
          BY <2>0, <4>1, Zenon DEF Request
      <4>3. s.since <= rev /\ (s.late => notice = "given") /\ s.since \in Nat
          BY <2>0 DEF RequestOK, Request
      <4>4. k.active => s.since < Lag
        <5>1. ASSUME NEW m \in Nat, NEW n \in Nat, NEW h \in Nat, m <= n, n < h PROVE m < h
            BY <5>1
        <5>2. Lag \in Nat
            BY <2>2 DEF IntrospectionConstants
        <5> QED BY <2>2, <3>1, <4>3, <5>1, <5>2, Zenon
      <4> HIDE DEF r
      <4> QED BY <4>2, <4>3, <4>4, Zenon DEF RequestOK
    <3> HIDE DEF r
    <3> QED BY <2>1, <3>2, <3>3, <3>4, <1>RequestMoves, Zenon
  <2>4. CASE ~s.waiting
    <3>1. rs' = rs /\ req' = [req EXCEPT ![q] = Idle]
        BY <2>4, Zenon DEF RsStore
    <3>2. KeptOK'
        BY <2>0, <2>1, <2>2, <3>1, Zenon DEF KeptOK
    <3> QED BY <2>0, <2>1, <3>1, <3>2, <1>IdleOK, <1>RequestMoves, Zenon
  <2> QED BY <2>3, <2>4, Zenon
<1>DoneKeeps. ASSUME IntInv, NEW q \in Requests, Done(q) PROVE IntInv'
  <2> USE <1>DoneKeeps
  <2>1. /\ UNCHANGED <<kind, opaque, usable, rev, notice, body, subject, rs>> /\ KeptOK
        /\ req' = [req EXCEPT ![q] = Idle]
      BY Zenon DEF Done, IntInv
  <2>2. KeptOK'
      BY <2>1, Zenon DEF KeptOK, Lag, MaxLag
  <2> QED BY <2>1, <2>2, <1>IdleOK, <1>RequestMoves, Zenon
(* The authorization server.                                               *)
<1>ReplyKeeps. ASSUME IntInv, NEW q \in Requests, NEW a \in BOOLEAN, Reply(q, a),
                      UNCHANGED <<kind, opaque, usable, rev, notice>>, KeptOK',
                      a => /\ req[q].waiting => rev <= req[q].age + Behind
                           /\ kind = "row" => rev = 0 /\ notice /= "given"
                           /\ ~req[q].late
               PROVE  IntInv'
  <2> USE <1>ReplyKeeps
  <2> DEFINE s == req[q]
             p == IF s.hit THEN "reply" ELSE "set"
             r == [s EXCEPT !.active = a, !.read = 0, !.hit = FALSE, !.pc = p]
  <2>1. s \in Request /\ RequestOK(s) /\ p \in {"reply", "set"} /\ 0 \in 0..SubjectTTL
      BY DEF IntInv, IntrospectionConstants
  <2>2. req' = [req EXCEPT ![q] = r]
      BY Zenon DEF Reply
  <2> HIDE DEF p
  <2>3. /\ r \in Request /\ r.pc = p /\ r.active = a /\ r.since = s.since /\ r.late = s.late
        /\ r.waiting = s.waiting /\ r.age = s.age
    <3>1. p \in Places
        BY <2>1, Zenon DEF Places
    <3> QED BY <2>1, <3>1, Zenon DEF Request, Places
  <2> HIDE DEF r
  <2>4. RequestOK(r)
      BY <2>1, <2>3, Zenon DEF RequestOK
  <2> QED BY <2>2, <2>4, <1>RequestMoves, Zenon
<1>KeptStays. ASSUME KeptOK, UNCHANGED <<kind, opaque, usable, rev, notice, body, subject, rs>> PROVE KeptOK'
  BY <1>KeptStays, Zenon DEF KeptOK, Lag, MaxLag
<1>AsCacheGetKeeps. ASSUME IntInv, NEW q \in Requests, AsCacheGet(q) PROVE IntInv'
  <2> USE <1>AsCacheGetKeeps
  <2> DEFINE s == req[q]
             kept == body.left > 0
  <2>0. /\ KeptOK /\ s \in Request /\ RequestOK(s) /\ s.pc = "fetch" /\ s.age \in 0..FetchTimeout
        /\ UNCHANGED <<kind, opaque, usable, rev, notice, body, subject, rs>> /\ kept \in BOOLEAN
      BY DEF AsCacheGet, At, IntInv, Request
  <2>1. KeptOK'
      BY <2>0, <1>KeptStays, Zenon
  <2>2. CASE kept /\ (~body.active \/ kind = "row")
    <3> DEFINE r == [s EXCEPT !.pc = "reply", !.active = body.active]
    <3>1. req' = [req EXCEPT ![q] = r]
        BY <2>2, Zenon DEF AsCacheGet
    <3>2. body.active \in BOOLEAN
        BY <2>0, Zenon DEF KeptOK
    <3>3. body.active => rev <= s.age + Behind /\ notice /= "given"
        BY <2>0, <2>2, <1>Windows DEF KeptOK
    <3>4. /\ r \in Request /\ r.pc = "reply" /\ r.active = body.active /\ r.since = s.since /\ r.late = s.late
          /\ r.waiting = s.waiting /\ r.age = s.age
      <4>1. "reply" \in Places
          BY Zenon DEF Places
      <4> QED BY <2>0, <3>2, <4>1, Zenon DEF Request, Places
    <3> HIDE DEF r
    <3>5. RequestOK(r)
        BY <2>0, <3>2, <3>3, <3>4, Zenon DEF RequestOK
    <3> QED BY <2>0, <2>1, <3>1, <3>5, <1>RequestMoves, Zenon
  <2>3. CASE ~(kept /\ (~body.active \/ kind = "row"))
    <3> DEFINE r == [s EXCEPT !.pc = "check", !.hit = kept]
    <3>1. req' = [req EXCEPT ![q] = r]
        BY <2>3, Zenon DEF AsCacheGet
    <3>2. /\ r \in Request /\ r.pc = "check" /\ r.since = s.since /\ r.late = s.late
      <4>1. "check" \in Places
          BY Zenon DEF Places
      <4> HIDE DEF kept
      <4> QED BY <2>0, <4>1, Zenon DEF Request, Places
    <3> HIDE DEF r
    <3>3. RequestOK(r)
        BY <2>0, <3>2, Zenon DEF RequestOK
    <3> QED BY <2>0, <2>1, <3>1, <3>3, <1>RequestMoves, Zenon
  <2> QED BY <2>2, <2>3, Zenon
<1>CheckDirectKeeps. ASSUME IntInv, NEW q \in Requests, CheckDirect(q) PROVE IntInv'
  <2> USE <1>CheckDirectKeeps
  <2>0. /\ KeptOK /\ req[q] \in Request /\ RequestOK(req[q]) /\ req[q].age \in 0..FetchTimeout
        /\ UNCHANGED <<kind, opaque, usable, rev, notice, body, subject, rs>> /\ Reply(q, usable)
      BY Zenon DEF CheckDirect, IntInv, Request
  <2>1. KeptOK'
      BY <2>0, <1>KeptStays, Zenon
  <2>2. usable \in BOOLEAN /\ (usable => rev = 0 /\ notice = "none" /\ ~req[q].late)
      BY <2>0, Zenon DEF KeptOK, RequestOK
  <2>3. Behind \in Nat
      BY <2>0, <1>Windows, Zenon DEF KeptOK
  <2>4. usable => rev <= req[q].age + Behind
      BY <2>0, <2>2, <2>3
  <2> QED BY <2>0, <2>1, <2>2, <2>4, <1>ReplyKeeps, Zenon
<1>SubjectCacheGetKeeps. ASSUME IntInv, NEW q \in Requests, SubjectCacheGet(q) PROVE IntInv'
  <2> USE <1>SubjectCacheGetKeeps
  <2> DEFINE s == req[q]
  <2>0. /\ KeptOK /\ s \in Request /\ RequestOK(s) /\ s.age \in 0..FetchTimeout
        /\ UNCHANGED <<kind, opaque, usable, rev, notice, body, subject, rs>> /\ kind = "subject"
      BY Zenon DEF SubjectCacheGet, IntInv, Request
  <2>1. KeptOK'
      BY <2>0, <1>KeptStays, Zenon
  <2>2. CASE subject > 0
    <3>1. Reply(q, TRUE)
        BY <2>2, Zenon DEF SubjectCacheGet
    <3>2. rev <= s.age + Behind /\ ~s.late
      <4>1. subject + rev <= SubjectTTL /\ notice /= "given" /\ rev \in Nat /\ subject \in Nat /\ Behind = SubjectTTL
          BY <2>0, <2>2, <1>Windows DEF KeptOK
      <4> QED BY <2>0, <2>2, <4>1 DEF RequestOK, IntrospectionConstants
    <3> QED BY <2>0, <2>1, <3>1, <3>2, <1>ReplyKeeps, Zenon
  <2>3. CASE ~(subject > 0)
    <3> DEFINE r == [s EXCEPT !.pc = "lookup", !.read = 0]
    <3>1. req' = [req EXCEPT ![q] = r]
        BY <2>3, Zenon DEF SubjectCacheGet
    <3>2. /\ r \in Request /\ r.pc = "lookup" /\ r.since = s.since /\ r.late = s.late
      <4>1. "lookup" \in Places /\ 0 \in 0..SubjectTTL
          BY DEF Places, IntrospectionConstants
      <4> QED BY <2>0, <4>1, Zenon DEF Request, Places
    <3> HIDE DEF r
    <3>3. RequestOK(r)
        BY <2>0, <3>2, Zenon DEF RequestOK
    <3> QED BY <2>0, <2>1, <3>1, <3>3, <1>RequestMoves, Zenon
  <2> QED BY <2>2, <2>3, Zenon
<1>SubjectLookupKeeps. ASSUME IntInv, NEW q \in Requests, SubjectLookup(q) PROVE IntInv'
  <2> USE <1>SubjectLookupKeeps
  <2> DEFINE s == req[q]
  <2>0. /\ KeptOK /\ s \in Request /\ RequestOK(s) /\ s.age \in 0..FetchTimeout /\ s.read \in 0..SubjectTTL
        /\ UNCHANGED <<kind, opaque, usable, rev, notice, body, subject, rs>> /\ s.pc = "lookup"
      BY Zenon DEF SubjectLookup, At, IntInv, Request
  <2>1. KeptOK'
      BY <2>0, <1>KeptStays, Zenon
  <2>2. CASE ~usable
    <3>1. Reply(q, FALSE)
        BY <2>2, Zenon DEF SubjectLookup
    <3> QED BY <2>0, <2>1, <3>1, <1>ReplyKeeps, Zenon
  <2>3. CASE usable
    <3> DEFINE r == [s EXCEPT !.pc = "keep"]
    <3>1. req' = [req EXCEPT ![q] = r]
        BY <2>3, Zenon DEF SubjectLookup, Goto
    <3>2. /\ r \in Request /\ r.pc = "keep" /\ r.since = s.since /\ r.late = s.late /\ r.read = s.read /\ r.age = s.age
      <4>1. "keep" \in Places
          BY Zenon DEF Places
      <4> QED BY <2>0, <4>1, Zenon DEF Request, Places
    <3>3. rev = 0 /\ notice = "none"
        BY <2>0, <2>3, Zenon DEF KeptOK
    <3> HIDE DEF r
    <3>4. RequestOK(r)
        BY <2>0, <3>2, <3>3 DEF RequestOK
    <3> QED BY <2>0, <2>1, <3>1, <3>4, <1>RequestMoves, Zenon
  <2> QED BY <2>2, <2>3, Zenon
<1>SubjectKeepKeeps. ASSUME IntInv, NEW q \in Requests, SubjectKeep(q) PROVE IntInv'
  <2> USE <1>SubjectKeepKeeps
  <2> DEFINE s == req[q]
  <2>0. /\ KeptOK /\ s \in Request /\ RequestOK(s) /\ s.age \in 0..FetchTimeout /\ s.read \in 0..SubjectTTL
        /\ UNCHANGED <<kind, opaque, usable, rev, notice, body, rs>> /\ s.pc = "keep"
        /\ subject' = SubjectTTL - s.read /\ Reply(q, TRUE)
      BY Zenon DEF SubjectKeep, Entry, At, IntInv, Request
  <2>1. /\ rev <= s.read \/ s.read = SubjectTTL
        /\ s.waiting => rev <= s.age
        /\ notice /= "given" /\ ~s.late /\ rev \in Nat
      BY <2>0 DEF RequestOK, KeptOK
  <2>2. KeptOK'
    <3>1. subject' \in 0..SubjectTTL /\ (subject' > 0 => subject' + rev <= SubjectTTL)
        BY <2>0, <2>1 DEF IntrospectionConstants
    <3>2. Lag' = Lag /\ MaxLag' = MaxLag
        BY <2>0, Zenon DEF Lag, MaxLag
    <3> QED BY <2>0, <2>1, <3>1, <3>2, Zenon DEF KeptOK
  <2>3. s.waiting => rev <= s.age + Behind
      BY <2>0, <2>1, <1>Windows DEF KeptOK
  <2>4. kind /= "row"
      BY <2>0, Zenon DEF RequestOK
  <2> QED BY <2>0, <2>1, <2>2, <2>3, <2>4, <1>ReplyKeeps, Zenon
<1>AsCacheSetKeeps. ASSUME IntInv, NEW q \in Requests, AsCacheSet(q) PROVE IntInv'
  <2> USE <1>AsCacheSetKeeps
  <2> DEFINE s == req[q]
             r == [s EXCEPT !.pc = "reply"]
  <2>0. /\ KeptOK /\ s \in Request /\ RequestOK(s) /\ s.active \in BOOLEAN
        /\ UNCHANGED <<kind, opaque, usable, rev, notice, subject, rs>> /\ s.pc = "set"
        /\ body' = [left |-> AsTTL + 1, active |-> s.active] /\ req' = [req EXCEPT ![q] = r]
      BY Zenon DEF AsCacheSet, Goto, At, IntInv, Request
  <2>1. KeptOK'
    <3>1. body' \in [left : 0..AsTTL + 1, active : BOOLEAN] /\ body'.left = AsTTL + 1 /\ body'.active = s.active
        BY <2>0 DEF IntrospectionConstants
    <3>2. kind = "row" /\ s.active => rev = 0 /\ notice /= "given"
        BY <2>0, Zenon DEF RequestOK
    <3>3. Lag' = Lag /\ MaxLag' = MaxLag
        BY <2>0, Zenon DEF Lag, MaxLag
    <3> QED BY <2>0, <3>1, <3>2, <3>3 DEF KeptOK, IntrospectionConstants
  <2>2. /\ r \in Request /\ r.pc = "reply" /\ r.active = s.active /\ r.since = s.since /\ r.late = s.late
        /\ r.waiting = s.waiting /\ r.age = s.age
    <3>1. "reply" \in Places
        BY Zenon DEF Places
    <3> QED BY <2>0, <3>1, Zenon DEF Request, Places
  <2> HIDE DEF r
  <2>3. RequestOK(r)
      BY <2>0, <2>2, Zenon DEF RequestOK
  <2> QED BY <2>0, <2>1, <2>3, <1>RequestMoves, Zenon
(* Revocation and its notice: the requests stay where they are.            *)
<1>RequestsStay. ASSUME IntInv, KeptOK', UNCHANGED <<kind, req>>, \A q \in Requests : RequestOK(req[q])'
                 PROVE  IntInv'
  <2> USE <1>RequestsStay
  <2>1. Request' = Request
      BY Zenon DEF Request, MaxLag
  <2> QED BY <2>1, Zenon DEF IntInv
<1>RevokeKeeps. ASSUME IntInv, Revoke PROVE IntInv'
  <2> USE <1>RevokeKeeps
  <2>0. /\ KeptOK /\ usable /\ usable' = FALSE /\ rev' = 0 /\ notice' = "due" /\ rev = 0 /\ notice = "none"
        /\ UNCHANGED <<kind, opaque, body, subject, rs, req>>
      BY Zenon DEF Revoke, IntInv, KeptOK
  <2>1. Lag' = Lag /\ MaxLag' = MaxLag /\ Behind' = Behind
      BY <2>0, Zenon DEF Lag, MaxLag, Behind
  <2>2. KeptOK'
      BY <2>0, <2>1, Zenon DEF KeptOK
  <2>3. ASSUME NEW q \in Requests PROVE RequestOK(req[q])'
    <3>1. RequestOK(req[q])
        BY Zenon DEF IntInv
    <3> QED BY <2>0, <2>1, <3>1, Zenon DEF RequestOK, Request
  <2> QED BY <2>0, <2>2, <2>3, <1>RequestsStay, Zenon
<1>NoticeKeeps. ASSUME IntInv, InvalidateSubject \/ PurgeIntrospectCache \/ LoseNotice
                PROVE  IntInv'
  <2> USE <1>NoticeKeeps
  <2>0. /\ KeptOK /\ notice = "due" /\ notice' \in {"given", "missed"}
        /\ UNCHANGED <<kind, opaque, usable, rev, rs, req>>
        /\ notice' = "given" => \A q \in Requests : ~Keeping(q)
      BY Zenon DEF InvalidateSubject, PurgeIntrospectCache, LoseNotice, Notified, IntInv
  <2>1. Lag' = Lag /\ MaxLag' = MaxLag /\ Behind' = Behind
      BY <2>0, Zenon DEF Lag, MaxLag, Behind
  <2>2. KeptOK'
    <3>1. ~usable
        BY <2>0, Zenon DEF KeptOK
    <3>2. CASE InvalidateSubject
        BY <2>0, <2>1, <3>1, <3>2 DEF InvalidateSubject, KeptOK, IntrospectionConstants
    <3>3. CASE PurgeIntrospectCache
      <4>1. /\ body' \in [left : 0..AsTTL + 1, active : BOOLEAN] /\ body'.left = 0
            /\ kind = "row" /\ subject' = subject
          BY <3>3 DEF PurgeIntrospectCache, IntrospectionConstants
      <4> QED BY <2>0, <2>1, <3>1, <4>1 DEF KeptOK
    <3>4. CASE LoseNotice
        BY <2>0, <2>1, <3>1, <3>4 DEF LoseNotice, KeptOK
    <3> QED BY <3>2, <3>3, <3>4, Zenon
  <2>3. ASSUME NEW q \in Requests PROVE RequestOK(req[q])'
    <3>1. RequestOK(req[q]) /\ ~req[q].late
        BY <2>0, Zenon DEF IntInv, RequestOK
    <3>2. notice' = "given" => ~(req[q].pc = "keep") /\ ~(req[q].pc = "set" /\ req[q].active /\ kind = "row")
        BY <2>0, Zenon DEF Keeping, At
    <3> QED BY <2>0, <2>1, <3>1, <3>2, Zenon DEF RequestOK, Request
  <2> QED BY <2>0, <2>2, <2>3, <1>RequestsStay, Zenon
<1>RestoreKeeps. ASSUME IntInv, Restore PROVE IntInv'
  <2> USE <1>RestoreKeeps
  <2> DEFINE r(q) == [req[q] EXCEPT !.since = 0, !.late = FALSE]
  <2>0. /\ KeptOK /\ usable' = TRUE /\ rev' = 0 /\ notice' = "none"
        /\ UNCHANGED <<kind, opaque, body, subject, rs>> /\ kind = "subject"
        /\ req' = [q \in Requests |-> r(q)]
      BY Zenon DEF Restore, IntInv
  <2> HIDE DEF r
  <2>5. KeptOK
      BY <2>0, Zenon
  <2>1. Lag' = Lag /\ MaxLag' = MaxLag /\ Behind' = Behind /\ Lag \in Nat /\ 0 \in 0..MaxLag /\ 0 < Lag
        /\ Behind \in Nat /\ Lag = RsTTL + FetchTimeout + Behind
    <3>1. Lag' = Lag /\ MaxLag' = MaxLag /\ Behind' = Behind
        BY <2>0, Zenon DEF Lag, MaxLag, Behind
    <3>2. kind \in Kinds
        BY <2>5, Zenon DEF KeptOK
    <3> QED BY <3>1, <3>2, <1>Windows DEF IntrospectionConstants
  <2>2. KeptOK'
    <3>1. rs.active /\ rs.left > 0 => rs.left <= Lag
        BY <2>5, <2>1 DEF KeptOK, IntrospectionConstants
    <3> QED BY <2>0, <2>1, <3>1 DEF KeptOK, IntrospectionConstants
  <2>3. ASSUME NEW q \in Requests PROVE r(q) \in Request /\ RequestOK(req[q])'
    <3>1. req[q] \in Request /\ RequestOK(req[q])
        BY Zenon DEF IntInv
    <3>2. /\ r(q) \in Request /\ r(q).pc = req[q].pc /\ r(q).active = req[q].active /\ r(q).since = 0
          /\ r(q).late = FALSE /\ r(q).waiting = req[q].waiting /\ r(q).age = req[q].age /\ r(q).read = req[q].read
        BY <2>1, <3>1, Zenon DEF Request, r
    <3>3. r(q).age \in Nat /\ r(q).read \in Nat
        BY <3>2 DEF Request
    <3>4. req'[q] = r(q) /\ Request' = Request
        BY <2>0, <2>1, Zenon DEF Request
    <3> QED BY <2>0, <2>1, <3>1, <3>2, <3>3, <3>4 DEF RequestOK
  <2>4. req' \in [Requests -> Request] /\ Request' = Request
    <3>1. Request' = Request
        BY <2>1, Zenon DEF Request
    <3> QED BY <2>0, <2>3, <3>1, Zenon
  <2> QED BY <2>2, <2>3, <2>4, SMTT(30) DEF IntInv
(* What is left shrinks as fast as the revocation ages.                    *)
<1>Slide. ASSUME NEW left \in Nat, NEW left1 \in Nat, NEW age \in Nat, NEW age1 \in Nat, NEW max \in Nat,
                 left1 > 0 => left > 0 /\ left1 = left - 1, age1 <= age + 1, left > 0 => left + age <= max
          PROVE  left1 > 0 => left1 + age1 <= max
  BY <1>Slide
<1>IntTickKeeps. ASSUME IntInv, Tick PROVE IntInv'
  <2> USE <1>IntTickKeeps
  <2> DEFINE age(q) == IF Fetching(q) THEN req[q].age + 1 ELSE req[q].age
             read(q) == IF req[q].pc \in {"lookup", "keep"} THEN More(req[q].read, SubjectTTL) ELSE req[q].read
             r(q) == [req[q] EXCEPT !.age = age(q), !.read = read(q)]
  <2>0. /\ KeptOK /\ rev' = IF usable THEN 0 ELSE More(rev, MaxLag)
        /\ body' = [body EXCEPT !.left = Less(body.left)]
        /\ subject' = Less(subject) /\ rs' = [rs EXCEPT !.left = Less(rs.left)]
        /\ req' = [q \in Requests |-> r(q)]
        /\ UNCHANGED <<kind, opaque, usable, notice>>
        /\ \A q \in Requests : req[q].pc /= "set" /\ (Fetching(q) => req[q].age < FetchTimeout)
      BY Zenon DEF Tick, At, IntInv
  <2> HIDE DEF r, age, read
  <2>6. KeptOK
      BY <2>0, Zenon
  <2>1. Lag' = Lag /\ MaxLag' = MaxLag /\ Behind' = Behind /\ Lag \in Nat /\ MaxLag \in Nat /\ Behind \in Nat
        /\ Lag = RsTTL + FetchTimeout + Behind /\ Lag <= MaxLag
    <3>1. Lag' = Lag /\ MaxLag' = MaxLag /\ Behind' = Behind
        BY <2>0, Zenon DEF Lag, MaxLag, Behind
    <3>2. kind \in Kinds
        BY <2>6, Zenon DEF KeptOK
    <3> QED BY <3>1, <3>2, <1>Windows, Zenon
  <2>2. rev \in Nat /\ rev' \in 0..MaxLag /\ rev <= rev' /\ rev' <= rev + 1 /\ (usable => rev' = 0)
    <3>1. rev \in 0..MaxLag /\ (usable => rev = 0) /\ rev' = IF usable THEN 0 ELSE More(rev, MaxLag)
        BY <2>0, <2>6, Zenon DEF KeptOK
    <3> QED BY <2>1, <3>1 DEF More
  <2>3. KeptOK'
    <3>1. subject' \in 0..SubjectTTL /\ (subject' > 0 => subject > 0 /\ subject' = subject - 1) /\ (subject = 0 => subject' = 0)
      <4>1. subject \in 0..SubjectTTL /\ subject' = Less(subject)
          BY <2>0, <2>6, Zenon DEF KeptOK
      <4> QED BY <4>1 DEF Less, IntrospectionConstants
    <3>2. /\ body' \in [left : 0..AsTTL + 1, active : BOOLEAN] /\ body'.active = body.active
          /\ body'.left > 0 => body.left > 0 /\ body'.left = body.left - 1
      <4>1. body \in [left : 0..AsTTL + 1, active : BOOLEAN] /\ body' = [body EXCEPT !.left = Less(body.left)]
          BY <2>0, <2>6, Zenon DEF KeptOK
      <4> QED BY <4>1 DEF Less, IntrospectionConstants
    <3>3. /\ rs' \in [left : 0..RsTTL, active : BOOLEAN] /\ rs'.active = rs.active
          /\ rs'.left > 0 => rs.left > 0 /\ rs'.left = rs.left - 1
      <4>1. rs \in [left : 0..RsTTL, active : BOOLEAN] /\ rs' = [rs EXCEPT !.left = Less(rs.left)]
          BY <2>0, <2>6, Zenon DEF KeptOK
      <4> QED BY <4>1 DEF Less, IntrospectionConstants
    <3>4. rs'.active /\ rs'.left > 0 => rs'.left + rev' <= Lag
      <4>1. rs.left \in Nat /\ (rs.active /\ rs.left > 0 => rs.left + rev <= Lag)
          BY <2>6 DEF KeptOK
      <4> QED BY <2>1, <2>2, <3>3, <4>1
    <3>5. kind = "row" /\ body'.active /\ body'.left > 0 => body'.left + rev' <= AsTTL + 1 /\ notice /= "given"
      <4>1. body.left \in Nat /\ (kind = "row" /\ body.active /\ body.left > 0 => body.left + rev <= AsTTL + 1 /\ notice /= "given")
          BY <2>6 DEF KeptOK
      <4> QED BY <2>2, <3>2, <4>1 DEF IntrospectionConstants
    <3>6. /\ subject' > 0 => subject' + rev' <= SubjectTTL
          /\ notice = "given" /\ kind /= "row" => subject' = 0
      <4>1. /\ subject \in Nat /\ (subject > 0 => subject + rev <= SubjectTTL)
            /\ notice = "given" /\ kind /= "row" => subject = 0
          BY <2>6 DEF KeptOK
      <4>2. subject' > 0 => subject' + rev' <= SubjectTTL
        <5>1. rev' \in Nat /\ subject' \in Nat /\ SubjectTTL \in Nat
            BY <2>1, <2>2, <3>1 DEF IntrospectionConstants
        <5> QED BY <2>2, <3>1, <4>1, <5>1, <1>Slide, Zenon
      <4> QED BY <3>1, <4>1, <4>2, Zenon
    <3> QED BY <2>0, <2>1, <2>2, <3>1, <3>2, <3>3, <3>4, <3>5, <3>6, Zenon DEF KeptOK
  <2>4. ASSUME NEW q \in Requests PROVE r(q) \in Request /\ RequestOK(req[q])'
    <3>1. req[q] \in Request /\ RequestOK(req[q])
        BY Zenon DEF IntInv
    <3>2. /\ age(q) \in 0..FetchTimeout /\ read(q) \in 0..SubjectTTL /\ req[q].age \in Nat /\ req[q].read \in 0..SubjectTTL
          /\ Fetching(q) => age(q) = req[q].age + 1
          /\ req[q].pc = "keep" => read(q) = SubjectTTL \/ read(q) = req[q].read + 1
      <4>1. /\ req[q].age \in 0..FetchTimeout /\ req[q].read \in 0..SubjectTTL
            /\ Fetching(q) => req[q].age < FetchTimeout
          BY <2>0, <3>1, Zenon DEF Request
      <4> QED BY <4>1 DEF age, read, More, IntrospectionConstants
    <3>3. req[q].waiting /\ req[q].pc \in {"keep", "reply"} => Fetching(q)
        BY Zenon DEF Fetching
    <3>4. /\ r(q) \in Request /\ r(q).pc = req[q].pc /\ r(q).active = req[q].active /\ r(q).since = req[q].since
          /\ r(q).late = req[q].late /\ r(q).waiting = req[q].waiting /\ r(q).age = age(q) /\ r(q).read = read(q)
        BY <3>1, <3>2, Zenon DEF Request, r
    <3>5. req'[q] = r(q) /\ Request' = Request
        BY <2>0, <2>1, Zenon DEF Request
    <3>6. req[q].since \in Nat /\ req[q].since <= rev'
        BY <2>2, <3>1 DEF RequestOK, Request
    <3>7. req[q].pc = "keep" => /\ rev' <= read(q) \/ read(q) = SubjectTTL
                                /\ req[q].waiting => rev' <= age(q)
                                /\ notice /= "given"
        BY <2>2, <3>1, <3>2, <3>3 DEF RequestOK
    <3>8. req[q].pc = "reply" /\ req[q].active /\ req[q].waiting => rev' <= age(q) + Behind
        BY <2>1, <2>2, <3>1, <3>2, <3>3 DEF RequestOK
    <3> QED BY <2>0, <2>1, <3>1, <3>4, <3>5, <3>6, <3>7, <3>8, Zenon DEF RequestOK
  <2>5. req' \in [Requests -> Request'] 
    <3>1. Request' = Request
        BY <2>1, Zenon DEF Request
    <3> QED BY <2>0, <2>4, <3>1, Zenon
  <2> QED BY <2>3, <2>4, <2>5, Zenon DEF IntInv
<1>IntNext. ASSUME IntInv, [Next]_vars PROVE IntInv'
  <2> USE <1>IntNext
  <2>1. CASE UNCHANGED vars
    <3>1. UNCHANGED <<kind, opaque, usable, rev, notice, body, subject, rs, req>>
        BY <2>1, Zenon DEF vars
    <3>2. KeptOK'
        BY <3>1, <1>KeptStays, Zenon DEF IntInv
    <3>3. ASSUME NEW q \in Requests PROVE RequestOK(req[q])'
        BY <3>1, Zenon DEF IntInv, RequestOK, Request, Lag, MaxLag, Behind
    <3> QED BY <3>1, <3>2, <3>3, <1>RequestsStay, Zenon
  <2>2. ASSUME NEW q \in Requests,
               \/ RsHit(q) \/ RsMiss(q) \/ RsTimeout(q) \/ RsStore(q) \/ Done(q)
               \/ AsCacheGet(q) \/ CheckDirect(q) \/ SubjectCacheGet(q)
               \/ SubjectLookup(q) \/ SubjectKeep(q) \/ AsCacheSet(q)
        PROVE  IntInv'
      BY <2>2, <1>RsHitKeeps, <1>RsMissKeeps, <1>RsTimeoutKeeps, <1>RsStoreKeeps, <1>DoneKeeps, <1>AsCacheGetKeeps, <1>CheckDirectKeeps,
         <1>SubjectCacheGetKeeps, <1>SubjectLookupKeeps, <1>SubjectKeepKeeps, <1>AsCacheSetKeeps, Zenon
  <2> QED BY <2>1, <2>2, <1>RevokeKeeps, <1>NoticeKeeps, <1>RestoreKeeps, <1>IntTickKeeps, Zenon DEF Next
<1>1. Init => IntInv
    BY <1>IntInit, Zenon
<1>2. IntInv /\ [Next]_vars => IntInv'
    BY <1>IntNext, Zenon
<1>3. IntInv => TypeOK /\ StalenessBounded /\ CleanNoticeHolds
  <2> SUFFICES ASSUME IntInv PROVE TypeOK /\ StalenessBounded /\ CleanNoticeHolds
      BY Zenon
  <2>1. TypeOK
      BY Zenon DEF IntInv, KeptOK, TypeOK
  <2>2. \A q \in Requests : RequestOK(req[q])
      BY Zenon DEF IntInv
  <2> QED BY <2>1, <2>2, Zenon DEF RequestOK, StalenessBounded, CleanNoticeHolds, At
<1> QED BY <1>1, <1>2, <1>3, PTL DEF Spec, AnswersExpire
=============================================================================
