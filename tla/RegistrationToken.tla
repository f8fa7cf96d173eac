--------------------------- MODULE RegistrationToken ---------------------------
(***************************************************************************)
(* Initial access tokens of dynamic client registration: the stored token  *)
(* (internal/as/registration_token.go over storage/memory/memory_device.go)*)
(* and the registration requests that spend it (internal/as/handlers,      *)
(* handleRegister).  A request reads the token, spends one use, registers  *)
(* the client, and refunds the use when the registration fails.            *)
(***************************************************************************)
EXTENDS Integers, FiniteSets

CONSTANTS Registrations,   \* concurrent registration requests
          MaxUses,         \* RegistrationToken.MaxUses
          MaxTries         \* bound: requests that start in a behaviour

VARIABLES regToken,   \* the stored token: uses, revoked, expired
          reg,        \* per request: where handleRegister is
          tally       \* history: clients registered, uses never given back, ...

registrationVars == <<regToken, reg, tally>>

TypeOK ==
    /\ regToken \in [uses : 0..MaxUses, revoked : BOOLEAN, expired : BOOLEAN]
    /\ reg \in [Registrations -> {"idle", "read", "spent", "failed"}]
    /\ tally \in [clients : 0..MaxTries, wasted : 0..MaxTries, tries : 0..MaxTries,
                  afterEnd : 0..MaxTries, atEnd : 0..Cardinality(Registrations)]

Init ==
    /\ regToken = [uses |-> 0, revoked |-> FALSE, expired |-> FALSE]
    /\ reg = [r \in Registrations |-> "idle"]
    /\ tally = [clients |-> 0, wasted |-> 0, tries |-> 0, afterEnd |-> 0, atEnd |-> 0]

-----------------------------------------------------------------------------
InFlight == {r \in Registrations : reg[r] \in {"spent", "failed"}}
Ended == regToken.revoked \/ regToken.expired
Active == ~Ended /\ regToken.uses < MaxUses

To(r, st) == reg' = [reg EXCEPT ![r] = st]

(* RegistrationTokenByHash, Active and registrationWithinScope.            *)
Check(r) ==
    /\ reg[r] = "idle" /\ tally.tries < MaxTries /\ Active
    /\ To(r, "read")
    /\ tally' = [tally EXCEPT !.tries = @ + 1]
    /\ UNCHANGED regToken

Redeemable == Active

(* The store spends a use only of a token that is active at that moment.   *)
Redeem(r) ==
    /\ reg[r] = "read"
    /\ IF Redeemable
         THEN To(r, "spent") /\ regToken' = [regToken EXCEPT !.uses = @ + 1]
         ELSE To(r, "idle") /\ regToken' = regToken
    /\ UNCHANGED tally

RegisterClient(r) ==
    /\ reg[r] = "spent"
    /\ \/ /\ To(r, "idle")
          /\ tally' = [tally EXCEPT !.clients = @ + 1, !.afterEnd = IF Ended THEN @ + 1 ELSE @]
       \/ To(r, "failed") /\ tally' = tally
    /\ UNCHANGED regToken

(* Mutant of Refund: the use is never given back.                          *)
RefundNothing(r) ==
    /\ reg[r] = "failed" /\ To(r, "idle")
    /\ UNCHANGED <<regToken, tally>>

(* RefundRegistrationToken; an error of the store is ignored.              *)
Refund(r) ==
    /\ reg[r] = "failed" /\ To(r, "idle")
    /\ \/ /\ regToken' = [regToken EXCEPT !.uses = IF @ > 0 THEN @ - 1 ELSE @]
          /\ tally' = tally
       \/ /\ regToken' = regToken
          /\ tally' = [tally EXCEPT !.wasted = @ + 1]

(* The process dies between spending the use and settling it.              *)
RegistrationCrash(r) ==
    /\ reg[r] \in {"spent", "failed"} /\ To(r, "idle")
    /\ tally' = [tally EXCEPT !.wasted = @ + 1]
    /\ UNCHANGED regToken

RevokeRegistrationToken ==
    /\ ~regToken.revoked /\ regToken' = [regToken EXCEPT !.revoked = TRUE]
    /\ tally' = [tally EXCEPT !.atEnd = IF Ended THEN @ ELSE Cardinality(InFlight)]
    /\ UNCHANGED reg

ExpireRegistrationToken ==
    /\ ~regToken.expired /\ regToken' = [regToken EXCEPT !.expired = TRUE]
    /\ tally' = [tally EXCEPT !.atEnd = IF Ended THEN @ ELSE Cardinality(InFlight)]
    /\ UNCHANGED reg

Next ==
    \/ \E r \in Registrations : \/ Check(r) \/ Redeem(r) \/ RegisterClient(r)
                                \/ Refund(r) \/ RegistrationCrash(r)
    \/ RevokeRegistrationToken \/ ExpireRegistrationToken

Spec == Init /\ [][Next]_registrationVars

-----------------------------------------------------------------------------
(* Every use that is counted is a registered client, a request that still  *)
(* holds it, or one a crash or a failed refund has wasted; so a token      *)
(* never registers more clients than MaxUses, and a failed registration    *)
(* costs nothing otherwise (RedeemRegistrationToken, handleRegister).      *)
UsesAddUp ==
    /\ regToken.uses = tally.clients + tally.wasted + Cardinality(InFlight)
    /\ regToken.uses <= MaxUses

(* Once the token is revoked or has expired, the only clients it can still *)
(* register are those whose use was spent before.                          *)
EndedTokenRegistersNoMore == tally.afterEnd <= tally.atEnd

(* Together: the uses counted are the registrations made or in flight, and *)
(* a revoked or expired token registers no further client.                 *)
UsesAreRegistrations == TypeOK /\ UsesAddUp /\ EndedTokenRegistersNoMore
=============================================================================
