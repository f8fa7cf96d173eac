------------------------------- MODULE ApiTokens -------------------------------
(***************************************************************************)
(* API tokens (internal/apitokens): tokens minted for a user over HTTP and *)
(* through a device code, cut at every use to what the user holds then.    *)
(*                                                                         *)
(* One user, whose abilities change and who may be deactivated, and one    *)
(* device code.  Lookups of a wrong user code, and the polling interval,   *)
(* are left out: they change neither the code's status nor a token.        *)
(***************************************************************************)
EXTENDS Integers, FiniteSets, Sequences

CONSTANTS Pollers,     \* polls of the device code in progress at a time
          HeldSets,    \* the sets of abilities the user may hold
          Requests,    \* the sets of abilities that validateAbilities accepts
          MaxTokens    \* bound: tokens minted

VARIABLES held, active,  \* the user's abilities, and whether it is active
          code,          \* the device code
          decide,        \* a decision in progress
          poll,          \* poll[p]: a poll in progress
          tokens,        \* the tokens minted
          auth           \* an authentication in progress, or its answer

apiTokenVars == <<held, active, code, decide, poll, tokens, auth>>

NoCode == [status |-> "none", requested |-> {}, approved |-> {}]
NoDecision == [pc |-> "idle", approve |-> FALSE, abilities |-> {}]
NoPoll == [pc |-> "idle", abilities |-> {}]
NoAuth == [pc |-> "idle", token |-> 0, abilities |-> {}, seen |-> {}]
DeviceTokens == {i \in DOMAIN tokens : tokens[i].device}

TypeOK ==
    /\ held \in HeldSets /\ active \in BOOLEAN
    /\ code.status \in {"none", "pending", "approved", "denied", "redeemed", "expired"}
    /\ code.approved \subseteq code.requested /\ code.requested \in Requests \cup {{}}
    /\ \A p \in Pollers : poll[p].pc \in {"idle", "claim", "owner", "mint"} /\ poll[p].abilities \subseteq code.requested
    /\ Len(tokens) <= MaxTokens /\ \A i \in DOMAIN tokens : tokens[i].abilities /= {}
    /\ auth.pc \in {"idle", "owner", "clamp", "done"}

Init ==
    /\ held \in HeldSets /\ active = TRUE /\ code = NoCode /\ decide = NoDecision
    /\ poll = [p \in Pollers |-> NoPoll] /\ tokens = <<>> /\ auth = NoAuth

clampAbilities(requested, h) == {r \in requested : r \in h \/ (r /= "root" /\ "root" \in h)}

Minted(abilities, device) == Append(tokens, [abilities |-> abilities, device |-> device, live |-> TRUE])

-----------------------------------------------------------------------------
(* The host changes the user's roles or its status.                        *)
ChangeAbilities(h) ==
    /\ held' = h
    /\ auth' = [auth EXCEPT !.seen = IF auth.pc \in {"owner", "clamp"} THEN @ \cup {h} ELSE @]
    /\ UNCHANGED <<active, code, decide, poll, tokens>>

SetActive(b) == active' = b /\ UNCHANGED <<held, code, decide, poll, tokens, auth>>

(* handleTokenCreate mints only what the user holds now.                   *)
handleTokenCreate(abilities) ==
    /\ Len(tokens) < MaxTokens /\ clampAbilities(abilities, held) = abilities
    /\ tokens' = Minted(abilities, FALSE)
    /\ UNCHANGED <<held, active, code, decide, poll, auth>>

Revoke(i) ==
    /\ tokens' = [tokens EXCEPT ![i].live = FALSE]
    /\ UNCHANGED <<held, active, code, decide, poll, auth>>

RevokeOwner ==
    /\ tokens' = [i \in DOMAIN tokens |-> [tokens[i] EXCEPT !.live = FALSE]]
    /\ UNCHANGED <<held, active, code, decide, poll, auth>>

-----------------------------------------------------------------------------
(* The device code: StartDeviceAuth, the decision and the redemption.      *)
StartDeviceAuth(requested) ==
    /\ code.status = "none"
    /\ code' = [status |-> "pending", requested |-> requested, approved |-> {}]
    /\ UNCHANGED <<held, active, decide, poll, tokens, auth>>

(* lookupPending and the clamp; the decision is written afterwards.        *)
DecideLookup(approve, chosen) ==
    /\ decide.pc = "idle" /\ code.status = "pending" /\ chosen \subseteq code.requested
    /\ LET abilities == IF approve THEN clampAbilities(chosen, held) ELSE {}
       IN  /\ approve => abilities /= {} /\ ("root" \in chosen => "root" \in held)
           /\ decide' = [pc |-> "write", approve |-> approve, abilities |-> abilities]
    /\ UNCHANGED <<held, active, code, poll, tokens, auth>>

DecideDeviceCode ==
    /\ decide.pc = "write"
    /\ decide' = NoDecision
    /\ code' = IF code.status /= "pending" THEN code
               ELSE [code EXCEPT !.status = IF decide.approve THEN "approved" ELSE "denied",
                                 !.approved = decide.abilities]
    /\ UNCHANGED <<held, active, poll, tokens, auth>>

(* RedeemDeviceCode reads the code, claims it, checks the approver, mints. *)
RedeemRead(p) ==
    /\ poll[p].pc = "idle" /\ code.status = "approved"
    /\ poll' = [poll EXCEPT ![p].pc = "claim"]
    /\ UNCHANGED <<held, active, code, decide, tokens, auth>>

(* Mutant of Claimable: a claim succeeds for a redeemed code as well.      *)
ClaimableTwice == code.status \in {"approved", "redeemed"}

Claimable == code.status = "approved"

ClaimDeviceCode(p) ==
    /\ poll[p].pc = "claim"
    /\ IF Claimable
       THEN /\ code' = [code EXCEPT !.status = "redeemed"]
            /\ poll' = [poll EXCEPT ![p] = [pc |-> "owner", abilities |-> code.approved]]
       ELSE poll' = [poll EXCEPT ![p] = NoPoll] /\ UNCHANGED code
    /\ UNCHANGED <<held, active, decide, tokens, auth>>

RedeemOwner(p) ==
    /\ poll[p].pc = "owner"
    /\ poll' = [poll EXCEPT ![p] = IF active THEN [@ EXCEPT !.pc = "mint"] ELSE NoPoll]
    /\ UNCHANGED <<held, active, code, decide, tokens, auth>>

RedeemMint(p) ==
    /\ poll[p].pc = "mint" /\ Len(tokens) < MaxTokens
    /\ tokens' = Minted(poll[p].abilities, TRUE)
    /\ poll' = [poll EXCEPT ![p] = NoPoll]
    /\ UNCHANGED <<held, active, code, decide, auth>>

CodeExpires ==
    /\ code.status \in {"pending", "approved"}
    /\ code' = [code EXCEPT !.status = "expired"]
    /\ UNCHANGED <<held, active, decide, poll, tokens, auth>>

-----------------------------------------------------------------------------
(* Authenticate reads the token, the owner, and the owner's abilities.     *)
AuthToken(i) ==
    /\ auth.pc \in {"idle", "done"} /\ tokens[i].live
    /\ auth' = [pc |-> "owner", token |-> i, abilities |-> {}, seen |-> {held}]
    /\ UNCHANGED <<held, active, code, decide, poll, tokens>>

AuthOwner ==
    /\ auth.pc = "owner"
    /\ auth' = IF active THEN [auth EXCEPT !.pc = "clamp"] ELSE NoAuth
    /\ UNCHANGED <<held, active, code, decide, poll, tokens>>

AuthClamp ==
    /\ auth.pc = "clamp"
    /\ auth' = [auth EXCEPT !.pc = "done", !.abilities = clampAbilities(tokens[auth.token].abilities, held)]
    /\ UNCHANGED <<held, active, code, decide, poll, tokens>>

Next ==
    \/ \E h \in HeldSets : ChangeAbilities(h)
    \/ \E b \in BOOLEAN : SetActive(b)
    \/ \E ab \in Requests : handleTokenCreate(ab) \/ StartDeviceAuth(ab)
    \/ \E i \in DOMAIN tokens : Revoke(i) \/ AuthToken(i)
    \/ \E approve \in BOOLEAN, chosen \in Requests : DecideLookup(approve, chosen)
    \/ \E p \in Pollers : RedeemRead(p) \/ ClaimDeviceCode(p) \/ RedeemOwner(p) \/ RedeemMint(p)
    \/ RevokeOwner \/ DecideDeviceCode \/ CodeExpires \/ AuthOwner \/ AuthClamp

Spec == Init /\ [][Next]_apiTokenVars

-----------------------------------------------------------------------------
(* However many polls race, a device code yields at most one token, and it *)
(* yields one only after an approval of the abilities the token carries:   *)
(* never after a denial, and never more than was requested.                *)
DeviceCodeMintsOnce ==
    /\ Cardinality(DeviceTokens) <= 1
    /\ \A i \in DeviceTokens : code.status = "redeemed" /\ tokens[i].abilities = code.approved

(* A token answers a request with no ability that its owner did not hold   *)
(* at some moment of that request, and with root only if the owner held    *)
(* root itself, although the token may have been minted under other roles. *)
PrincipalWithinOwner ==
    auth.pc = "done" =>
        \E h \in auth.seen : \A x \in auth.abilities : x \in h \/ (x /= "root" /\ "root" \in h)

(* Together: a device code mints one token, and no token ever exceeds what *)
(* its owner holds.                                                        *)
TokenWithinOwner == TypeOK /\ DeviceCodeMintsOnce /\ PrincipalWithinOwner
=============================================================================
