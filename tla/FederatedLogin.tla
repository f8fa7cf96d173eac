---------------------------- MODULE FederatedLogin ----------------------------
(***************************************************************************)
(* Sign-in through an external identity: the OAuth callback               *)
(* (internal/oauth) and the SAML response (internal/saml), from the        *)
(* one-time checks of the response to the account it signs in to.          *)
(*                                                                         *)
(* A response is what the browser brings back: an OAuth code with its      *)
(* state, a SAML response to a request, or one the IdP started.  It can be *)
(* delivered again, to any replica.  The replicas share the state store,   *)
(* the tracker's cache and the database.  Times count down.  Organisation  *)
(* membership and the provider's tokens are left out.                      *)
(***************************************************************************)
EXTENDS Integers, FiniteSets, Sequences

CONSTANTS Calls,       \* deliveries in progress at a time
          Responses,   \* the responses
          Kind,        \* Kind[r] \in {"oauth", "sp", "idp"}
          Identity,    \* Identity[r]: the external identity the response proves
          Email,       \* Email[i]: the address the provider gives for it
          Verified,    \* Verified[i]: EmailVerified; TRUE for SAML identities
          RequestTTL,  \* the state's and the AuthnRequest's lifetime
          Validity,    \* how long an assertion is valid
          MinSeen, MaxSeen, \* the least and the greatest ttl given to SeenAssertion
          MarkerTTL,   \* markerTTL
          MaxUsers     \* bound: accounts

VARIABLES config,    \* what is set up: "unique" (one account per address in the database),
                     \* "signup" (checkSignup lets new accounts in), "hook" (onOAuthConflict)
          life,      \* life[r]: how long the response is still valid
          record,    \* record[r]: the stored state or request, and what is left of it
          used,      \* used[r]: the tracker's used marker
          seen,      \* seen[r]: the record of the assertion id
          users,     \* the accounts: address, and the identity that created it
          owner,     \* owner[i]: the account linked to the identity, or 0
          call,      \* call[c]: a delivery in progress
          sessions   \* history: sessions[r], the sessions issued for a response

federatedVars == <<config, life, record, used, seen, users, owner, call, sessions>>

Identities == {Identity[r] : r \in Responses}
Idle == [pc |-> "idle", r |-> CHOOSE r \in Responses : TRUE, user |-> 0]
Saml(r) == Kind[r] /= "oauth"

TypeOK ==
    /\ config \in SUBSET {"unique", "signup", "hook"}
    /\ life \in [Responses -> 0..Validity] /\ record \in [Responses -> 0..RequestTTL]
    /\ used \in [Responses -> 0..MarkerTTL] /\ seen \in [Responses -> 0..MaxSeen]
    /\ Len(users) <= MaxUsers /\ owner \in [Identities -> 0..Len(users)]
    /\ \A c \in Calls : /\ call[c].pc \in {"idle", "mark", "seen", "account", "email", "create", "upsert", "session"}
                        /\ call[c].user \in 0..Len(users)
    /\ sessions \in [Responses -> Nat]

(* Start and BeginLogin have stored the state or request.                  *)
Init ==
    /\ config \in SUBSET {"unique", "signup", "hook"}
    /\ life = [r \in Responses |-> Validity]
    /\ record = [r \in Responses |-> IF Kind[r] = "idp" THEN 0 ELSE RequestTTL]
    /\ used = [r \in Responses |-> 0] /\ seen = [r \in Responses |-> 0]
    /\ users = <<>> /\ owner = [i \in Identities |-> 0]
    /\ call = [c \in Calls |-> Idle] /\ sessions = [r \in Responses |-> 0]

At(c, pc) == call[c].pc = pc
Goto(c, pc) == call' = [call EXCEPT ![c].pc = pc]
Stop(c) == call' = [call EXCEPT ![c] = Idle]

-----------------------------------------------------------------------------
(* The one-time checks.                                                    *)

(* Callback: Take removes the state as it reads it.                        *)
Take(c, r) ==
    /\ At(c, "idle") /\ Kind[r] = "oauth" /\ record[r] > 0
    /\ record' = [record EXCEPT ![r] = 0]
    /\ call' = [call EXCEPT ![c] = [pc |-> "account", r |-> r, user |-> 0]]
    /\ UNCHANGED <<config, life, used, seen, users, owner, sessions>>

(* FinishLogin of a valid assertion; Consume first reads the request.      *)
ConsumeGet(c, r) ==
    /\ At(c, "idle") /\ Saml(r) /\ life[r] > 0 /\ (Kind[r] = "sp" => record[r] > 0)
    /\ call' = [call EXCEPT ![c] = [pc |-> IF Kind[r] = "sp" THEN "mark" ELSE "seen", r |-> r, user |-> 0]]
    /\ UNCHANGED <<config, life, record, used, seen, users, owner, sessions>>

(* Mutant of Won: an existing marker does not stop the caller.             *)
WonAlways(left) == TRUE

Won(left) == left = 0

(* Consume then sets the used marker if absent, and deletes the request;   *)
(* the deletion may fail.                                                  *)
ConsumeMark(c) ==
    LET r == call[c].r
    IN  /\ At(c, "mark")
        /\ IF Won(used[r])
           THEN /\ used' = [used EXCEPT ![r] = MarkerTTL]
                /\ \E left \in {0, record[r]} : record' = [record EXCEPT ![r] = left]
                /\ Goto(c, "seen")
           ELSE Stop(c) /\ UNCHANGED <<used, record>>
        /\ UNCHANGED <<config, life, seen, users, owner, sessions>>

(* The ttl is what is left of the assertion, within bounds.                *)
SeenTTL(r) == IF life[r] < MinSeen THEN MinSeen ELSE IF life[r] > MaxSeen THEN MaxSeen ELSE life[r]

SeenAssertion(c) ==
    LET r == call[c].r
    IN  /\ At(c, "seen")
        /\ IF Won(seen[r]) THEN seen' = [seen EXCEPT ![r] = SeenTTL(r)] /\ Goto(c, "account")
           ELSE Stop(c) /\ UNCHANGED seen
        /\ UNCHANGED <<config, life, record, used, users, owner, sessions>>

-----------------------------------------------------------------------------
(* findOrCreateUser of both packages.                                      *)
FindAccount(c) ==
    LET u == owner[Identity[call[c].r]]
    IN  /\ At(c, "account")
        /\ call' = [call EXCEPT ![c].user = u,
                                ![c].pc = IF u = 0 THEN "email" ELSE IF Saml(call[c].r) THEN "session" ELSE "upsert"]
        /\ UNCHANGED <<config, life, record, used, seen, users, owner, sessions>>

LinksByEmail(r) == Verified[Identity[r]]

ByEmail(e) == {u \in DOMAIN users : users[u].email = e}

FindByEmail(c) ==
    LET r == call[c].r
        found == ByEmail(Email[Identity[r]])
    IN  /\ At(c, "email")
        /\ \/ \E u \in found : /\ LinksByEmail(r) /\ (Saml(r) \/ "hook" \notin config)
                               /\ call' = [call EXCEPT ![c].user = u, ![c].pc = "upsert"]
           \/ found /= {} /\ (~LinksByEmail(r) \/ (~Saml(r) /\ "hook" \in config)) /\ Stop(c)
           \/ found = {} /\ (Saml(r) \/ "signup" \in config) /\ Goto(c, "create")
           \/ found = {} /\ ~Saml(r) /\ "signup" \notin config /\ Stop(c)
        /\ UNCHANGED <<config, life, record, used, seen, users, owner, sessions>>

AddressFree(e) == "unique" \in config => ByEmail(e) = {}

CreateUser(c) ==
    LET i == Identity[call[c].r]
    IN  /\ At(c, "create") /\ Len(users) < MaxUsers
        /\ IF AddressFree(Email[i])
           THEN /\ users' = Append(users, [email |-> Email[i], by |-> i])
                /\ call' = [call EXCEPT ![c].user = Len(users) + 1, ![c].pc = "upsert"]
           ELSE Stop(c) /\ UNCHANGED users
        /\ UNCHANGED <<config, life, record, used, seen, owner, sessions>>

(* UpsertOAuthAccount, UpsertSAMLIdentity: an existing link is overwritten.*)
UpsertIdentity(c) ==
    /\ At(c, "upsert")
    /\ owner' = [owner EXCEPT ![Identity[call[c].r]] = call[c].user]
    /\ Goto(c, "session")
    /\ UNCHANGED <<config, life, record, used, seen, users, sessions>>

Issue(c) ==
    /\ At(c, "session")
    /\ sessions' = [sessions EXCEPT ![call[c].r] = @ + 1]
    /\ Stop(c)
    /\ UNCHANGED <<config, life, record, used, seen, users, owner>>

(* The provider, the cache or the database fails, or the replica crashes.  *)
Fail(c) ==
    /\ ~At(c, "idle") /\ Stop(c)
    /\ UNCHANGED <<config, life, record, used, seen, users, owner, sessions>>

Down(f) == [r \in Responses |-> IF f[r] > 0 THEN f[r] - 1 ELSE 0]
(* A delivery is done with its one-time checks within MinSeen.             *)
Tick ==
    /\ \A c \in Calls : call[c].pc \notin {"mark", "seen"}
    /\ \E r \in Responses : life[r] + record[r] + used[r] + seen[r] > 0
    /\ life' = Down(life) /\ record' = Down(record) /\ used' = Down(used) /\ seen' = Down(seen)
    /\ UNCHANGED <<config, users, owner, call, sessions>>

Next ==
    \/ \E c \in Calls : \/ \E r \in Responses : Take(c, r) \/ ConsumeGet(c, r)
                        \/ ConsumeMark(c) \/ SeenAssertion(c) \/ FindAccount(c) \/ FindByEmail(c)
                        \/ CreateUser(c) \/ UpsertIdentity(c) \/ Issue(c) \/ Fail(c)
    \/ Tick

Spec == Init /\ [][Next]_federatedVars

-----------------------------------------------------------------------------
(* However often a response is delivered, and to however many replicas at  *)
(* once, it issues at most one session, also when the deletion of the SAML *)
(* request failed.  (The records outlive what they guard: MaxSeen is at    *)
(* least Validity and MarkerTTL at least RequestTTL.)                      *)
OneSessionPerResponse == \A r \in Responses : sessions[r] <= 1

(* A provider that does not vouch for the address is linked only to an     *)
(* account that its own sign-in created, whatever other sign-ins with the  *)
(* same address run in between.                                            *)
UnverifiedOwnsItsOwn ==
    \A i \in Identities : owner[i] > 0 /\ ~Verified[i] => users[owner[i]].by = i

(* Where addresses are unique, an external identity signs in to the same   *)
(* account for ever: a later upsert never moves it, however sign-ins of    *)
(* the same identity overlap.                                              *)
OwnersStay == "unique" \in config => \A i \in Identities : owner[i] > 0 => owner'[i] = owner[i]
=============================================================================
