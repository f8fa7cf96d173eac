------------------------------ MODULE TokenVault ------------------------------
(***************************************************************************)
(* The third-party token vault (tokenvault/vault.go) over its store        *)
(* (storage/memory/memory_tokenvault.go), for one user and one provider.   *)
(*                                                                         *)
(* Several nodes refresh the stored credential.  A node refreshes it under *)
(* a mutex of its own; between nodes the version compare-and-swap of the   *)
(* store decides.  The provider rotates refresh tokens: a token it has     *)
(* replaced is refused.  Meanwhile the user connects again or disconnects, *)
(* and an operator re-seals the stored credentials under a new key.        *)
(***************************************************************************)
EXTENDS Integers, FiniteSets

CONSTANTS Nodes, Requests,   \* processes, and the requests each can serve at once
          MaxGrants,         \* bound: times the user connects
          MaxTokens,         \* bound: refresh tokens the provider issues per grant
          MaxVersion,        \* bound: writes to one row
          MaxCrashes,        \* bound: node crashes
          KeysRotate         \* whether the operator adds keys and runs Rewrap

VARIABLES row,      \* the stored credential, or NoRow
          idp,      \* per grant: what the provider accepts
          call,     \* per node and request: where an AccessToken call is
          mutex,    \* per node: the request holding the refresh lock, or 0
          rewrap,   \* the operator's Rewrap
          mishap    \* history: what may explain a lost credential

vaultVars == <<row, idp, call, mutex, rewrap, mishap>>

Grants == 1..MaxGrants
Fields == {"access", "refresh"}
NoRow == [ver |-> 0, grant |-> 0, rt |-> 0, stale |-> FALSE, dead |-> FALSE, old |-> {}]
Rows == {NoRow} \cup [ver : 1..MaxVersion, grant : Grants, rt : 1..MaxTokens,
                      stale : BOOLEAN, dead : BOOLEAN, old : SUBSET Fields]
Idle == [step |-> "idle", cur |-> NoRow, rt |-> 0]

TypeOK ==
    /\ row \in Rows
    /\ idp \in [Grants -> [rt : 0..MaxTokens, revoked : BOOLEAN]]
    /\ call \in [Nodes -> [Requests -> [step : {"idle", "lock", "provider", "invalid", "swap", "reread", "reply"},
                                        cur : Rows, rt : 0..MaxTokens]]]
    /\ mutex \in [Nodes -> Requests \cup {0}]
    /\ rewrap \in [step : {"idle", "swap", "none"}, cur : Rows, quiet : BOOLEAN]
    /\ mishap \in [lost : SUBSET Grants, overlap : SUBSET Grants, cut : BOOLEAN, crashes : 0..MaxCrashes]

Init ==
    /\ row = NoRow
    /\ idp = [g \in Grants |-> [rt |-> 0, revoked |-> FALSE]]
    /\ call = [n \in Nodes |-> [r \in Requests |-> Idle]]
    /\ mutex = [n \in Nodes |-> 0]
    /\ rewrap = [step |-> "idle", cur |-> NoRow, quiet |-> TRUE]
    /\ mishap = [lost |-> {}, overlap |-> {}, cut |-> FALSE, crashes |-> 0]

-----------------------------------------------------------------------------
Latest == Cardinality({g \in Grants : idp[g].rt > 0})

(* Requests that have read the row and not yet written it.                 *)
Window == {"provider", "invalid", "swap"}
InWindow(n, g) == \E r \in Requests : call[n][r].step \in Window /\ call[n][r].cur.grant = g
Rewrapping(g) == rewrap.step = "swap" /\ rewrap.cur.grant = g

(* Rewrap is undisturbed while nothing else writes.                        *)
Disturb == rewrap' = [rewrap EXCEPT !.quiet = FALSE]

(* Connect: PutVaultCredential keeps the version of a row it replaces and  *)
(* starts a new row at 1.  The user has just authorized a new grant.       *)
Connect ==
    /\ Latest < MaxGrants /\ row.ver < MaxVersion
    /\ row' = [ver |-> row.ver + 1, grant |-> Latest + 1, rt |-> 1, stale |-> FALSE, dead |-> FALSE, old |-> {}]
    /\ idp' = [idp EXCEPT ![Latest + 1].rt = 1]
    /\ Disturb
    /\ UNCHANGED <<call, mutex, mishap>>

Disconnect ==
    /\ row /= NoRow /\ row' = NoRow
    /\ mishap' = [mishap EXCEPT !.cut = @ \/ rewrap.step = "swap"
                                          \/ \E n \in Nodes, g \in Grants : InWindow(n, g)]
    /\ Disturb
    /\ UNCHANGED <<idp, call, mutex>>

Expire ==
    /\ row /= NoRow /\ ~row.stale /\ row' = [row EXCEPT !.stale = TRUE]
    /\ UNCHANGED <<idp, call, mutex, rewrap, mishap>>

ProviderRevokes(g) ==
    /\ idp[g].rt > 0 /\ ~idp[g].revoked /\ idp' = [idp EXCEPT ![g].revoked = TRUE]
    /\ UNCHANGED <<row, call, mutex, rewrap, mishap>>

-----------------------------------------------------------------------------
(* AccessToken.  The first read answers at once unless the token is stale. *)
Ask(n, r) ==
    /\ call[n][r].step = "idle"
    /\ row /= NoRow /\ ~row.dead /\ row.stale
    /\ call' = [call EXCEPT ![n][r].step = "lock"]
    /\ UNCHANGED <<row, idp, mutex, rewrap, mishap>>

LockFree(n) == mutex[n] = 0

(* refresh: take the lock and read the row again.  Another request may     *)
(* have refreshed it, or the key ring or the provider be unavailable.      *)
Load(n, r) ==
    /\ call[n][r].step = "lock" /\ LockFree(n)
    /\ \/ /\ call' = [call EXCEPT ![n][r] = Idle]
          /\ UNCHANGED <<mutex, mishap>>
       \/ /\ row /= NoRow /\ ~row.dead /\ row.stale
          /\ call' = [call EXCEPT ![n][r] = [step |-> "provider", cur |-> row, rt |-> row.rt]]
          /\ mutex' = [mutex EXCEPT ![n] = r]
          /\ mishap' = [mishap EXCEPT !.overlap =
                          IF Rewrapping(row.grant) \/ \E o \in Nodes \ {n} : InWindow(o, row.grant)
                          THEN @ \cup {row.grant} ELSE @]
    /\ UNCHANGED <<row, idp, rewrap>>

Release(n, r) ==
    /\ call' = [call EXCEPT ![n][r] = Idle]
    /\ mutex' = [mutex EXCEPT ![n] = 0]

(* The provider's token endpoint: it refuses a replaced or revoked token,  *)
(* and may or may not rotate the one presented.  The answer may be lost.   *)
Refresh(n, r) ==
    LET c == call[n][r]
        g == c.cur.grant
    IN  /\ c.step = "provider"
        /\ \/ /\ idp[g].revoked \/ idp[g].rt /= c.rt
              /\ call' = [call EXCEPT ![n][r].step = "invalid"]
              /\ UNCHANGED <<idp, mutex, mishap>>
           \/ /\ ~idp[g].revoked /\ idp[g].rt = c.rt
              /\ \E rt \in {c.rt, c.rt + 1} \cap 1..MaxTokens :
                   /\ idp' = [idp EXCEPT ![g].rt = rt]
                   /\ \/ /\ call' = [call EXCEPT ![n][r].step = "swap", ![n][r].rt = rt]
                         /\ UNCHANGED <<mutex, mishap>>
                      \/ /\ Release(n, r)
                         /\ mishap' = [mishap EXCEPT !.lost = @ \cup {g}]
        /\ UNCHANGED <<row, rewrap>>

(* SwapVaultCredential writes only over the version that was read.         *)
(* Mutant: it writes whatever the version.                                 *)
SwapVaultCredentialAlways(next, expected) ==
    row /= NoRow /\ row' = [next EXCEPT !.ver = row.ver + 1]

SwapVaultCredential(next, expected) ==
    row.ver = expected /\ row' = [next EXCEPT !.ver = expected + 1]

MarkReauth(c) ==
    IF row.ver = c.cur.ver
      THEN SwapVaultCredential([c.cur EXCEPT !.dead = TRUE], c.cur.ver) /\ Disturb
      ELSE UNCHANGED <<row, rewrap>>

(* invalid_grant: the row is marked, and the next call asks the user.      *)
SwapReauth(n, r) ==
    /\ call[n][r].step = "invalid" /\ row.ver < MaxVersion
    /\ MarkReauth(call[n][r])
    /\ Release(n, r)
    /\ UNCHANGED <<idp, mishap>>

(* The answer's tokens, sealed under the active key.                       *)
Refreshed(c) ==
    [c.cur EXCEPT !.stale = FALSE, !.rt = c.rt,
                  !.old = IF c.rt /= c.cur.rt THEN {} ELSE @ \ {"access"}]

Swap(n, r) ==
    LET c == call[n][r]
    IN  /\ c.step = "swap" /\ row.ver < MaxVersion
        /\ \/ /\ SwapVaultCredential(Refreshed(c), c.cur.ver)
              /\ Disturb
              /\ call' = [call EXCEPT ![n][r].step = "reply"]
           \/ /\ row.ver /= c.cur.ver
              /\ call' = [call EXCEPT ![n][r].step = "reread"]
              /\ UNCHANGED <<row, rewrap>>
        /\ UNCHANGED <<idp, mutex, mishap>>

(* Both ends of refresh read the row once more before they unlock.         *)
Reread(n, r) ==
    /\ call[n][r].step \in {"reread", "reply"} /\ Release(n, r)
    /\ UNCHANGED <<row, idp, rewrap, mishap>>

NodeCrash(n) ==
    /\ mishap.crashes < MaxCrashes /\ mutex[n] /= 0
    /\ mishap' = [mishap EXCEPT !.crashes = @ + 1,
                    !.lost = @ \cup {call[n][r].cur.grant : r \in {q \in Requests : call[n][q].step = "swap"}}]
    /\ call' = [call EXCEPT ![n] = [r \in Requests |-> Idle]]
    /\ mutex' = [mutex EXCEPT ![n] = 0]
    /\ UNCHANGED <<row, idp, rewrap>>

-----------------------------------------------------------------------------
(* A new active key: everything stored is sealed under an old one.         *)
RotateKey ==
    /\ KeysRotate /\ rewrap.step = "idle" /\ row.old = {} /\ row /= NoRow
    /\ row' = [row EXCEPT !.old = Fields]
    /\ UNCHANGED <<idp, call, mutex, rewrap, mishap>>

ToReseal(c) == c.old /= {}

(* Rewrap's scan finds the row, or reports that it moved nothing.          *)
RewrapScan ==
    /\ KeysRotate /\ rewrap.step /= "swap"
    /\ IF ~ToReseal(row)
         THEN rewrap' = [step |-> "none", cur |-> NoRow, quiet |-> TRUE] /\ mishap' = mishap
         ELSE /\ rewrap' = [step |-> "swap", cur |-> row, quiet |-> TRUE]
              /\ mishap' = [mishap EXCEPT !.overlap =
                              IF \E n \in Nodes : InWindow(n, row.grant) THEN @ \cup {row.grant} ELSE @]
    /\ UNCHANGED <<row, idp, call, mutex>>

(* A swap that succeeds counts as moved, a lost one does not.              *)
RewrapSwap ==
    /\ rewrap.step = "swap" /\ row.ver < MaxVersion
    /\ \/ /\ SwapVaultCredential([rewrap.cur EXCEPT !.old = {}], rewrap.cur.ver)
          /\ rewrap' = [rewrap EXCEPT !.step = "idle", !.cur = NoRow]
       \/ /\ row.ver /= rewrap.cur.ver
          /\ rewrap' = [rewrap EXCEPT !.step = "none", !.cur = NoRow] /\ row' = row
    /\ UNCHANGED <<idp, call, mutex, mishap>>

-----------------------------------------------------------------------------
Next ==
    \/ Connect \/ Disconnect \/ Expire \/ RotateKey \/ RewrapScan \/ RewrapSwap
    \/ \E g \in Grants : ProviderRevokes(g)
    \/ \E n \in Nodes : NodeCrash(n)
    \/ \E n \in Nodes, r \in Requests :
         Ask(n, r) \/ Load(n, r) \/ Refresh(n, r) \/ SwapReauth(n, r) \/ Swap(n, r) \/ Reread(n, r)

Spec == Init /\ [][Next]_vaultVars

-----------------------------------------------------------------------------
(* A refresh or a re-sealing that was under way when the user connected    *)
(* again never puts the earlier connection back: the stored credential is  *)
(* of the latest connection.  (A row deleted while such a write is under   *)
(* way starts again at version 1, so the guarantee ends there.)            *)
ReconnectionStays == mishap.cut \/ row = NoRow \/ row.grant = Latest

(* The stored refresh token is the one the provider accepts, or a request  *)
(* that is about to store it has it in hand.  The exceptions are a lost    *)
(* answer and a write by another node or by Rewrap in the same window.     *)
StoredTokenIsCurrent ==
    \/ row = NoRow \/ row.dead \/ mishap.cut
    \/ row.grant \in mishap.lost \cup mishap.overlap
    \/ row.rt = idp[row.grant].rt
    \/ \E n \in Nodes, r \in Requests :
         call[n][r].step = "swap" /\ call[n][r].cur.ver = row.ver /\ call[n][r].rt = idp[row.grant].rt

(* The user is asked to connect again only if the provider has withdrawn   *)
(* the grant, with the same exceptions: the requests of one node never     *)
(* present a token that one of them has already used up.                   *)
ReauthIsJustified ==
    \/ row = NoRow \/ ~row.dead \/ mishap.cut
    \/ row.grant \in mishap.lost \cup mishap.overlap
    \/ idp[row.grant].revoked

(* When Rewrap reports that it moved nothing and no other write came       *)
(* between, no stored token depends on an old key ("once it reports zero   *)
(* for a retired key, that key can be dropped from the ring").             *)
RewrapZeroIsSafe ==
    rewrap.step = "none" /\ rewrap.quiet => row.old = {}
=============================================================================
