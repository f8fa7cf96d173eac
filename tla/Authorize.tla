------------------------------ MODULE Authorize ------------------------------
(***************************************************************************)
(* The authorization endpoint (internal/as/authz.go, par.go, consent.go,   *)
(* authctx.go): pushed requests, the checks of StartAuthorize, the host's  *)
(* consent, the signed ticket of a consent page, and the code at the end.  *)
(*                                                                         *)
(* One user with one browser session, one client whose registration        *)
(* changes.  A request is the scope asked for and the freshest login it    *)
(* demands.  A ticket cannot be altered (it is signed), so it is its       *)
(* payload.  Request objects (JAR) only replace where the parameters come  *)
(* from and are left out; so is the eviction of a full replay cache.       *)
(***************************************************************************)
EXTENDS Integers, FiniteSets, Sequences

CONSTANTS Calls,        \* calls of the endpoint in progress at a time
          Queries,      \* the requests clients make: [scope, maxAge]
          Catalog,      \* the scopes of the resource
          ClientScopes, \* the scopes a client's registration may name
          AnyAge,       \* the maxAge of a request without max_age
          MaxAuthAge,   \* bound: login ages are counted up to here
          PushTTL,      \* PAR.RequestURITTL
          TicketTTL,    \* ConsentTicketTTL
          MaxPushed, MaxTickets, MaxSessions   \* bounds

VARIABLES drop,     \* ClientCompat.DropUnknownScopes
          client,   \* the registration: scope, and whether the redirect URI is in it
          session,  \* the browser session: id and age of the login
          pushed,   \* pushed[i]: a pushed request, and what is left of its life
          tickets,  \* tickets[j]: a consent ticket, what is left of it, whether it is burnt
          call,     \* call[c]: a call in progress
          issued,   \* history: the codes each ticket and each pushed request led to
          denied    \* history: the tickets answered with access_denied

authorizeVars == <<drop, client, session, pushed, tickets, call, issued, denied>>

NoQuery == [scope |-> {}, maxAge |-> AnyAge]
Idle == [pc |-> "idle", query |-> NoQuery, from |-> 0, ticket |-> 0, scope |-> {}, reg |-> {}, age |-> 0, sid |-> 0]
Decisions == [action: {"approve"}, granted: (SUBSET Catalog) \ {{}}]
                 \cup [action: {"deny", "interact"}, granted: {{}}]

TypeOK ==
    /\ drop \in BOOLEAN /\ client.scope \in ClientScopes /\ client.registered \in BOOLEAN
    /\ session.id \in 1..MaxSessions /\ session.age \in 0..MaxAuthAge
    /\ \A i \in DOMAIN pushed : pushed[i].left \in 0..PushTTL /\ pushed[i].query.scope \subseteq Catalog
    /\ \A j \in DOMAIN tickets : tickets[j].left \in 0..TicketTTL
    /\ \A c \in Calls : /\ call[c].pc \in {"idle", "consent", "burn", "insert"}
                        /\ call[c].scope \subseteq Catalog
    /\ issued \in [ticket: [1..MaxTickets -> Nat], pushed: [1..MaxPushed -> Nat]]
    /\ denied \subseteq DOMAIN tickets

Init ==
    /\ drop \in BOOLEAN
    /\ client = [scope |-> Catalog, registered |-> TRUE]
    /\ session = [id |-> 1, age |-> 0]
    /\ pushed = <<>> /\ tickets = <<>> /\ denied = {}
    /\ issued = [ticket |-> [j \in 1..MaxTickets |-> 0], pushed |-> [i \in 1..MaxPushed |-> 0]]
    /\ call = [c \in Calls |-> Idle]

-----------------------------------------------------------------------------
(* narrowResourceScopes: the scope granted, or {} for an error.            *)
narrowScopes(requested) ==
    IF ~drop THEN IF requested \subseteq Catalog THEN requested ELSE {}
    ELSE requested \cap Catalog \cap (IF client.scope = {} THEN Catalog ELSE client.scope)

reauthNeeded(query) ==
    query.maxAge /= AnyAge /\ (query.maxAge = 0 \/ session.age > query.maxAge)

(* The validation shared by PushAuthorize and startAuthorize.              *)
Valid(query) == client.registered /\ narrowScopes(query.scope) /= {}

(* PushAuthorize stores the request with its narrowed scope.               *)
PushAuthorize(query) ==
    /\ Len(pushed) < MaxPushed /\ Valid(query)
    /\ pushed' = Append(pushed, [query |-> [query EXCEPT !.scope = narrowScopes(query.scope)], left |-> PushTTL])
    /\ UNCHANGED <<drop, client, session, tickets, call, issued, denied>>

(* Mutant of Proceeds: a resumed request is not validated again.           *)
ProceedsOnResume(query, ticket) == ticket > 0 \/ (Valid(query) /\ ~reauthNeeded(query))

Proceeds(query, ticket) == Valid(query) /\ ~reauthNeeded(query)

(* startAuthorize up to the consent step; an error or a login redirect     *)
(* ends the call.  The session is the one the request came with.           *)
StartAuthorize(c, query, from, ticket) ==
    call' = [call EXCEPT ![c] =
                IF ~Proceeds(query, ticket) THEN Idle
                ELSE [pc |-> "consent", query |-> query, from |-> from, ticket |-> ticket,
                      scope |-> narrowScopes(query.scope), reg |-> client.scope,
                      age |-> session.age, sid |-> session.id]]

(* handleAuthorize with inline parameters.                                 *)
AuthorizeInline(c, query) ==
    /\ call[c].pc = "idle"
    /\ StartAuthorize(c, query, 0, 0)
    /\ UNCHANGED <<drop, client, session, pushed, tickets, issued, denied>>

Taken(i) == [pushed EXCEPT ![i].left = 0]

(* handleAuthorize with a request_uri: ConsumePushedRequest gives it to    *)
(* one call only, also when that call then ends in a login redirect.       *)
AuthorizePushed(c, i) ==
    /\ call[c].pc = "idle" /\ pushed[i].left > 0
    /\ pushed' = Taken(i)
    /\ StartAuthorize(c, pushed[i].query, i, 0)
    /\ UNCHANGED <<drop, client, session, tickets, issued, denied>>

ResumeGate(j) == tickets[j].left > 0 /\ tickets[j].sid = session.id

(* CompleteConsent checks the ticket and runs startAuthorize again for the *)
(* request it carries.                                                     *)
CompleteConsent(c, j) ==
    /\ call[c].pc = "idle" /\ ResumeGate(j)
    /\ StartAuthorize(c, tickets[j].query, tickets[j].from, j)
    /\ UNCHANGED <<drop, client, session, pushed, tickets, issued, denied>>

-----------------------------------------------------------------------------
(* consentStep: the host's answer, from the handler or with the ticket.    *)

subsetScopes(granted, requested) == granted \subseteq requested

Approve(c, dec) ==
    /\ call[c].pc = "consent" /\ dec.action = "approve"
    /\ call' = [call EXCEPT ![c] =
                   IF ~subsetScopes(dec.granted, call[c].scope) THEN Idle
                   ELSE [@ EXCEPT !.pc = IF call[c].ticket = 0 THEN "insert" ELSE "burn", !.scope = dec.granted]]
    /\ UNCHANGED <<drop, client, session, pushed, tickets, issued, denied>>

(* interact is an error when it answers a ticket.                          *)
Interact(c, dec) ==
    /\ call[c].pc = "consent" /\ dec.action = "interact"
    /\ call[c].ticket = 0 => Len(tickets) < MaxTickets
    /\ tickets' = IF call[c].ticket > 0 THEN tickets
                  ELSE Append(tickets, [query |-> call[c].query, from |-> call[c].from, sid |-> call[c].sid,
                                        left |-> TicketTTL, burnt |-> FALSE])
    /\ call' = [call EXCEPT ![c] = Idle]
    /\ UNCHANGED <<drop, client, session, pushed, issued, denied>>

Unburnt(j) == ~tickets[j].burnt

Deny(c, dec) ==
    LET j == call[c].ticket
    IN  /\ call[c].pc = "consent" /\ dec.action = "deny"
        /\ IF j > 0 /\ Unburnt(j)
           THEN tickets' = [tickets EXCEPT ![j].burnt = TRUE] /\ denied' = denied \cup {j}
           ELSE UNCHANGED <<tickets, denied>>
        /\ call' = [call EXCEPT ![c] = Idle]
        /\ UNCHANGED <<drop, client, session, pushed, issued>>

(* burnTicket of an approval: SetNX on the ticket's id.                    *)
BurnTicket(c) ==
    LET j == call[c].ticket
    IN  /\ call[c].pc = "burn"
        /\ tickets' = [tickets EXCEPT ![j].burnt = TRUE]
        /\ call' = [call EXCEPT ![c] = IF Unburnt(j) THEN [@ EXCEPT !.pc = "insert"] ELSE Idle]
        /\ UNCHANGED <<drop, client, session, pushed, issued, denied>>

(* The code carries the scope, the query and the login of its call.        *)
InsertAuthorizationCode(c) ==
    /\ call[c].pc = "insert"
    /\ issued' = [ticket |-> [j \in 1..MaxTickets |-> issued.ticket[j] + (IF j = call[c].ticket THEN 1 ELSE 0)],
                  pushed |-> [i \in 1..MaxPushed |-> issued.pushed[i] + (IF i = call[c].from THEN 1 ELSE 0)]]
    /\ call' = [call EXCEPT ![c] = Idle]
    /\ UNCHANGED <<drop, client, session, pushed, tickets, denied>>

-----------------------------------------------------------------------------
(* The client's registration changes (an edit, or a refetched document).   *)
ChangeClient(scope, registered) ==
    /\ client' = [scope |-> scope, registered |-> registered]
    /\ UNCHANGED <<drop, session, pushed, tickets, call, issued, denied>>

(* The user logs in again, in a new session.                               *)
Login ==
    /\ session.id < MaxSessions
    /\ session' = [id |-> session.id + 1, age |-> 0]
    /\ UNCHANGED <<drop, client, pushed, tickets, call, issued, denied>>

(* Time passes between the steps of a call as well.                        *)
Down(n) == IF n > 0 THEN n - 1 ELSE 0
Tick ==
    /\ \/ session.age < MaxAuthAge
       \/ \E i \in DOMAIN pushed : pushed[i].left > 0
       \/ \E j \in DOMAIN tickets : tickets[j].left > 0
    /\ session' = [session EXCEPT !.age = IF @ < MaxAuthAge THEN @ + 1 ELSE @]
    /\ pushed' = [i \in DOMAIN pushed |-> [pushed[i] EXCEPT !.left = Down(pushed[i].left)]]
    /\ tickets' = [j \in DOMAIN tickets |-> [tickets[j] EXCEPT !.left = Down(tickets[j].left)]]
    /\ UNCHANGED <<drop, client, call, issued, denied>>

Next ==
    \/ \E q \in Queries : PushAuthorize(q) \/ \E c \in Calls : AuthorizeInline(c, q)
    \/ \E c \in Calls : \/ \E i \in DOMAIN pushed : AuthorizePushed(c, i)
                        \/ \E j \in DOMAIN tickets : CompleteConsent(c, j)
                        \/ \E dec \in Decisions : Approve(c, dec) \/ Interact(c, dec) \/ Deny(c, dec)
                        \/ BurnTicket(c) \/ InsertAuthorizationCode(c)
    \/ \E s \in ClientScopes, r \in BOOLEAN : ChangeClient(s, r)
    \/ Login \/ Tick

Spec == Init /\ [][Next]_authorizeVars

-----------------------------------------------------------------------------
Issuing == {c \in Calls : call[c].pc = "insert"}

(* A consent page decides once: of overlapping and repeated completions of *)
(* one ticket at most one issues a code, and none does after a denial.     *)
TicketDecidesOnce ==
    \A j \in DOMAIN tickets : issued.ticket[j] + (IF j \in denied THEN 1 ELSE 0) <= 1

(* A pushed request leads to at most one code, whether it is approved at   *)
(* once or by way of a consent page, however often it is presented.        *)
PushedYieldsOneCode == \A i \in DOMAIN pushed : issued.pushed[i] <= 1

(* What a code grants was asked for, is in the resource's catalog and,     *)
(* where unknown scopes are dropped, was in the client's registration when *)
(* the issuing call read it: a ticket outlives no restriction.             *)
CodeWithinRequest ==
    \A c \in Issuing :
        /\ call[c].scope /= {} /\ call[c].scope \subseteq call[c].query.scope \cap Catalog
        /\ (drop /\ call[c].reg /= {}) => call[c].scope \subseteq call[c].reg

(* A code for a request with max_age comes from a login no older than that *)
(* when the issuing call began, even if the consent page was opened when   *)
(* the login was fresh, and a ticket is only completed in the session it   *)
(* was opened in.                                                          *)
CodeFromFreshLogin ==
    \A c \in Issuing :
        /\ call[c].query.maxAge /= AnyAge => call[c].age <= call[c].query.maxAge
        /\ call[c].ticket > 0 => call[c].sid = tickets[call[c].ticket].sid

(* Together: a consent ticket is decided once, a pushed request yields one *)
(* code, and a code is within what was asked and allowed and comes from a  *)
(* login as fresh as was asked.                                            *)
CodesFollowRequests ==
    TypeOK /\ TicketDecidesOnce /\ PushedYieldsOneCode /\ CodeWithinRequest /\ CodeFromFreshLogin
=============================================================================
