--------------------------- MODULE ApprovalGrant ---------------------------
(***************************************************************************)
(* What a decoupled grant promises, whatever its wire protocol: a client   *)
(* opens a request, one user decides it once, and an approval buys exactly *)
(* one set of tokens, for the client that asked and the user that          *)
(* approved.  The device grant (DeviceGrant) and, as long as decisions on  *)
(* one request do not overlap, CIBA (Ciba) implement it.                   *)
(***************************************************************************)
EXTENDS Naturals, Sequences

CONSTANTS Grants,   \* request identifiers, never reused
          Clients,
          Users,
          NoClient,
          NoUser

VARIABLES phase,    \* phase[g]: "none", "pending", "approved", "denied", "consumed"
          opener,   \* the client that opened g
          decider,  \* the user that decided g
          tokens    \* tokens[g]: the token sets issued for g, in order

vars == <<phase, opener, decider, tokens>>

Init ==
  /\ phase = [g \in Grants |-> "none"]
  /\ opener = [g \in Grants |-> NoClient]
  /\ decider = [g \in Grants |-> NoUser]
  /\ tokens = [g \in Grants |-> <<>>]

Open(g, c) ==
  /\ phase[g] = "none"
  /\ phase' = [phase EXCEPT ![g] = "pending"]
  /\ opener' = [opener EXCEPT ![g] = c]
  /\ UNCHANGED <<decider, tokens>>

Decide(g, u, verdict) ==
  /\ phase[g] = "pending"
  /\ phase' = [phase EXCEPT ![g] = verdict]
  /\ decider' = [decider EXCEPT ![g] = u]
  /\ UNCHANGED <<opener, tokens>>

\* Redemption spends the approval first and issues second: a failure in between loses the
\* approval and never doubles it.
Spend(g) ==
  /\ phase[g] = "approved"
  /\ phase' = [phase EXCEPT ![g] = "consumed"]
  /\ UNCHANGED <<opener, decider, tokens>>

Issue(g) ==
  /\ phase[g] = "consumed"
  /\ tokens[g] = <<>>
  /\ tokens' = [tokens EXCEPT ![g] = <<[client |-> opener[g], user |-> decider[g]]>>]
  /\ UNCHANGED <<phase, opener, decider>>

Next ==
  \E g \in Grants :
    \/ \E c \in Clients : Open(g, c)
    \/ \E u \in Users, v \in {"approved", "denied"} : Decide(g, u, v)
    \/ Spend(g)
    \/ Issue(g)

Spec == Init /\ [][Next]_vars
=============================================================================
