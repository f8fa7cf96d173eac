------------------------------- MODULE Passkey -------------------------------
(***************************************************************************)
(* Passkey sign-in (internal/webauthn): one user, one credential at a      *)
(* time, the one-time challenges and the signature counter.                *)
(*                                                                         *)
(* FinishLogin takes its challenge out of the process's map, validates the *)
(* assertion against the stored credentials, reads the credential again,   *)
(* advances its counter and issues a session; other sign-ins run between   *)
(* these steps.  The authenticator is outside: an assertion answers any    *)
(* challenge with any counter value, so that a copied key, a repeated      *)
(* value and a key without a counter (always 0) are all included.          *)
(* Attestation policy, backup flags and the user handle are left out.      *)
(***************************************************************************)
EXTENDS Integers, FiniteSets

CONSTANTS Calls,          \* sign-ins in progress at a time
          Challenges,     \* challenge tokens
          MaxCount,       \* bound: counter values
          MaxCreds,       \* bound: credentials registered one after the other
          ChallengeTTL    \* cfg.ChallengeTTL

VARIABLES policy,     \* clonePolicy: "reject" or "flag"
          challenge,  \* challenge[t]: "new", what is left of its time, or "gone", and its ceremony
          cred,       \* the stored credential: id (0 when there is none) and counter
          registered, \* credentials registered so far
          signin,     \* signin[c]: a FinishLogin in progress
          accepted,   \* history: accepted[n], the sessions issued on counter value n of cred.id
          answered    \* history: answered[t], what challenge t led to

passkeyVars == <<policy, challenge, cred, registered, signin, accepted, answered>>

NoSignin == [pc |-> "idle", chal |-> CHOOSE t \in Challenges : TRUE, id |-> 0, asserted |-> 0,
             count |-> 0, clone |-> FALSE]
NoCred == [id |-> 0, count |-> 0]

TypeOK ==
    /\ policy \in {"reject", "flag"}
    /\ challenge \in [Challenges -> [kind : {"new", "login", "register", "gone"}, left : 0..ChallengeTTL]]
    /\ cred \in [id : 0..MaxCreds, count : 0..MaxCount] /\ registered \in cred.id..MaxCreds
    /\ \A c \in Calls : /\ signin[c].pc \in {"idle", "validate", "lookup", "update", "issue"}
                        /\ signin[c].count <= MaxCount
    /\ accepted \in [1..MaxCreds -> [0..MaxCount -> Nat]]
    /\ answered \in [Challenges -> Nat]

Init ==
    /\ policy \in {"reject", "flag"}
    /\ challenge = [t \in Challenges |-> [kind |-> "new", left |-> 0]]
    /\ cred = NoCred /\ registered = 0
    /\ signin = [c \in Calls |-> NoSignin]
    /\ accepted = [i \in 1..MaxCreds |-> [n \in 0..MaxCount |-> 0]]
    /\ answered = [t \in Challenges |-> 0]

-----------------------------------------------------------------------------
(* BeginLogin and BeginRegistration store a fresh challenge.               *)
Begin(t, kind) ==
    /\ challenge[t].kind = "new" /\ kind \in {"login", "register"}
    /\ challenge' = [challenge EXCEPT ![t] = [kind |-> kind, left |-> ChallengeTTL]]
    /\ UNCHANGED <<policy, cred, registered, signin, accepted, answered>>

(* LoadAndDelete: whatever follows, the challenge is gone.                 *)
Taken(t) == [challenge EXCEPT ![t] = [kind |-> "gone", left |-> 0]]

(* FinishRegistration: the challenge must be of this user's registration   *)
(* and unexpired; the row is inserted with the counter it reported.        *)
FinishRegistration(t, n) ==
    /\ challenge[t].kind = "register" /\ challenge[t].left > 0
    /\ cred.id = 0 /\ registered < MaxCreds
    /\ challenge' = Taken(t)
    /\ registered' = registered + 1 /\ cred' = [id |-> registered + 1, count |-> n]
    /\ answered' = [answered EXCEPT ![t] = @ + 1]
    /\ UNCHANGED <<policy, signin, accepted>>

(* A challenge of the other ceremony, an expired one, or one answered by   *)
(* what does not verify, is spent for nothing.                             *)
SpendWrong(t) ==
    /\ challenge[t].kind \in {"login", "register"}
    /\ challenge' = Taken(t)
    /\ UNCHANGED <<policy, cred, registered, signin, accepted, answered>>

(* FinishLogin, up to the challenge's checks.  The assertion is signed by  *)
(* the key of credential id with the counter value n.                      *)
FinishLogin(c, t, id, n) ==
    /\ signin[c].pc = "idle" /\ challenge[t].kind = "login" /\ challenge[t].left > 0
    /\ challenge' = Taken(t)
    /\ signin' = [signin EXCEPT ![c] = [pc |-> "validate", chal |-> t, id |-> id, asserted |-> n,
                                        count |-> 0, clone |-> FALSE]]
    /\ UNCHANGED <<policy, cred, registered, accepted, answered>>

(* ValidateDiscoverableLogin (go-webauthn): the credential must be stored; *)
(* a counter that did not advance raises the clone warning and is not      *)
(* taken over.                                                             *)
Validate(c) ==
    LET n == signin[c].asserted
        clone == n <= cred.count /\ (n /= 0 \/ cred.count /= 0)
    IN  /\ signin[c].pc = "validate"
        /\ signin' = [signin EXCEPT ![c] =
               IF cred.id /= signin[c].id THEN NoSignin
               ELSE [@ EXCEPT !.pc = "lookup", !.clone = clone, !.count = IF clone THEN cred.count ELSE n]]
        /\ UNCHANGED <<policy, challenge, cred, registered, accepted, answered>>

(* Mutant of Advances: the counter of a key that has one may stand still.  *)
AdvancesOrStays(new, stored) == new >= stored

Advances(new, stored) == new > stored

(* WebAuthnCredentialByCredentialID, and what the two counters say.        *)
Lookup(c) ==
    LET s == signin[c]
        still == ~Advances(s.count, cred.count)
        clone == s.clone \/ (still /\ (s.count /= 0 \/ cred.count /= 0))
    IN  /\ s.pc = "lookup"
        /\ signin' = [signin EXCEPT ![c] =
               IF cred.id /= s.id THEN NoSignin
               ELSE IF ~still THEN [s EXCEPT !.pc = "update"]
               ELSE IF clone /\ policy = "reject" THEN NoSignin
               ELSE [s EXCEPT !.pc = "issue", !.clone = clone]]
        /\ UNCHANGED <<policy, challenge, cred, registered, accepted, answered>>

CountAccepted(new) == Advances(new, cred.count)

(* UpdateWebAuthnSignCount takes a greater value only; a raised warning    *)
(* still rejects.                                                          *)
UpdateSignCount(c) ==
    LET s == signin[c]
        ok == cred.id = s.id /\ CountAccepted(s.count)
    IN  /\ s.pc = "update"
        /\ cred' = IF ok THEN [cred EXCEPT !.count = s.count] ELSE cred
        /\ signin' = [signin EXCEPT ![c] = IF ~ok \/ (s.clone /\ policy = "reject") THEN NoSignin
                                            ELSE [s EXCEPT !.pc = "issue"]]
        /\ UNCHANGED <<policy, challenge, registered, accepted, answered>>

Issue(c) ==
    LET s == signin[c]
    IN  /\ s.pc = "issue"
        /\ accepted' = [accepted EXCEPT ![s.id][s.asserted] = @ + 1]
        /\ answered' = [answered EXCEPT ![s.chal] = @ + 1]
        /\ signin' = [signin EXCEPT ![c] = NoSignin]
        /\ UNCHANGED <<policy, challenge, cred, registered>>

DeleteCredential ==
    /\ cred.id /= 0 /\ cred' = NoCred
    /\ UNCHANGED <<policy, challenge, registered, signin, accepted, answered>>

Tick ==
    /\ \E t \in Challenges : challenge[t].left > 0
    /\ challenge' = [t \in Challenges |-> [challenge[t] EXCEPT !.left = IF @ > 0 THEN @ - 1 ELSE 0]]
    /\ UNCHANGED <<policy, cred, registered, signin, accepted, answered>>

Next ==
    \/ \E t \in Challenges, kind \in {"login", "register"} : Begin(t, kind)
    \/ \E t \in Challenges, n \in 0..MaxCount : FinishRegistration(t, n)
    \/ \E t \in Challenges : SpendWrong(t)
    \/ \E c \in Calls, t \in Challenges, id \in 1..MaxCreds, n \in 0..MaxCount :
          id <= registered /\ FinishLogin(c, t, id, n)
    \/ \E c \in Calls : Validate(c) \/ Lookup(c) \/ UpdateSignCount(c) \/ Issue(c)
    \/ DeleteCredential \/ Tick

Spec == Init /\ [][Next]_passkeyVars

-----------------------------------------------------------------------------
(* When clone warnings reject, a nonzero counter value of a credential     *)
(* signs in once, however many assertions carry it and however their       *)
(* sign-ins overlap.                                                       *)
CountSpentOnce ==
    policy = "reject" => \A i \in 1..MaxCreds, n \in 1..MaxCount : accepted[i][n] <= 1

(* Whatever the counters say, and for keys that have none, a challenge     *)
(* leads to one credential or one session at most.                         *)
ChallengeAnsweredOnce == \A t \in Challenges : answered[t] <= 1

(* The stored counter of a credential never goes back, also when two       *)
(* sign-ins read it before either wrote.                                   *)
SignCountGrows == cred.id /= 0 /\ cred'.id = cred.id => cred'.count >= cred.count

(* Together: a challenge is answered once and a counter value signs in     *)
(* once.                                                                   *)
PasskeyCountsOnce == TypeOK /\ CountSpentOnce /\ ChallengeAnsweredOnce
=============================================================================
