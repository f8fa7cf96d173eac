------------------------------- MODULE SignIn -------------------------------
(***************************************************************************)
(* How one person gets a session, and what takes it away again: password   *)
(* sign-up and sign-in, magic links, the TOTP second factor and its        *)
(* recovery codes, trusted devices, password reset and change, the account *)
(* block, and the cap on concurrent sessions (internal/session, password,  *)
(* totp, magiclink, trusteddevice, and lifecycle.go and sessions.go of the *)
(* root package).                                                          *)
(*                                                                         *)
(* A request runs one handler. Nothing is held locked across a handler, so *)
(* every storage call is a step and the steps of two requests interleave.  *)
(* Sessions are numbered in the order in which they are stored, which is   *)
(* what EnforceCap sorts by. Storage errors are not modelled.              *)
(***************************************************************************)
EXTENDS Integers, FiniteSets

CONSTANTS
    Deployments,    \* the sets of features an application may use
    Requests,       \* concurrent handler invocations
    MaxSessions,    \* bound: sessions ever stored
    Passwords,      \* the passwords the person ever chooses
    Links, Resets,  \* magic links and reset tokens ever mailed
    Codes,          \* recovery codes of the enrolment
    MaxStep,        \* bound: TOTP time steps
    CapMax,         \* SessionPolicy.MaxConcurrentSessions
    MaxFailures,    \* pendingSessionMaxFailures
    NoPassword

Features == {"signup", "imported", "links", "totp", "change", "reset", "block"}

ASSUME SignInAssumption ==
    /\ Deployments \subseteq SUBSET Features
    /\ IsFiniteSet(Requests) /\ Requests # {}
    /\ MaxSessions \in Nat \ {0} /\ MaxStep \in Nat
    /\ CapMax \in Nat \ {0} /\ MaxFailures \in Nat \ {0}
    /\ NoPassword \notin Passwords
    /\ Links \cap Resets = {} /\ Links \cap Codes = {} /\ Resets \cap Codes = {}
    /\ (Links \cup Resets \cup Codes) \cap (0 .. MaxStep) = {}

VARIABLES
    features,  \* the features this application uses, fixed
    capMode,   \* SessionPolicy overflow mode, fixed at start-up
    acct,      \* the user row and its AccountState row
    factor,    \* the TOTP secret row
    lastStep,  \* last accepted TOTP step (AdvanceTOTPStep)
    ticket,    \* magic links, reset tokens and recovery codes
    sess,      \* the sessions table, with the pending-failure counters
    device,    \* the trusted devices, by their history tag
    req,       \* the handlers in flight
    uses       \* history: how often each one-time proof has taken effect

vars == <<features, capMode, acct, factor, lastStep, ticket, sess, device, req, uses>>

config == <<features, capMode>>

Sids == 1 .. MaxSessions
Tickets == Links \cup Resets \cup Codes
Steps == 1 .. MaxStep
Proofs == Tickets \cup Steps
NoProof == 0

Ages == {"fresh", "stale", "overlap"}

PCs == {"idle", "signup", "upgrade", "account", "factor", "pending", "gate",
        "cap", "evict", "create", "code", "guessed", "promote", "remember",
        "setpw", "clear", "forget", "revoke", "block", "untrust"}

Idle == [pc |-> "idle", sid |-> 0, cred |-> NoPassword, evict |-> {},
         proof |-> NoProof, late |-> FALSE, old |-> FALSE, reissue |-> FALSE]

Request == [pc : PCs, sid : 0 .. MaxSessions, cred : Passwords \cup {NoPassword},
            evict : SUBSET Sids, proof : Proofs \cup {NoProof}, late : BOOLEAN,
            old : BOOLEAN, reissue : BOOLEAN]

Session == [state : {"none", "live", "revoked"}, level : {"full", "pending_2fa"},
            fails : 0 .. MaxFailures + Cardinality(Requests), guesses : 0 .. MaxFailures + Cardinality(Requests),
            late : BOOLEAN, age : Ages]

NoSession == [state |-> "none", level |-> "full", fails |-> 0, guesses |-> 0,
              late |-> FALSE, age |-> "fresh"]

(* Only the second-factor module's counters outlive the revocation of a    *)
(* row: validate refuses it before its level is looked at.                 *)
Revoked(s) == [s EXCEPT !.state = "revoked", !.level = "full",
                        !.late = FALSE, !.age = "fresh"]

\* Every variable holds a value of its type; the second-factor counters stay
\* within the limit and the requests that can pass it.
TypeOK ==
    /\ features \in Deployments
    /\ capMode \in {"evict_oldest", "reject"}
    /\ acct \in [exists : BOOLEAN, password : Passwords \cup {NoPassword},
                 legacy : BOOLEAN, disabled : BOOLEAN, mustChange : BOOLEAN]
    /\ factor \in {"none", "confirmed"}
    /\ lastStep \in 0 .. MaxStep
    /\ ticket \in [Tickets -> {"none", "open", "used"}]
    /\ sess \in [Sids -> Session]
    /\ device \subseteq Ages
    /\ req \in [Requests -> Request]
    /\ uses \in [Proofs -> 0 .. 2]

Init ==
    /\ features \in Deployments
    /\ capMode \in {"evict_oldest", "reject"}
    /\ acct \in [exists : {TRUE}, password : Passwords, legacy : BOOLEAN,
                 disabled : {FALSE}, mustChange : {FALSE}]
                \cup {[exists |-> FALSE, password |-> NoPassword, legacy |-> FALSE,
                       disabled |-> FALSE, mustChange |-> FALSE]}
    /\ acct.legacy => "imported" \in features
    /\ ~acct.exists => features \cap {"signup", "links"} # {}
    /\ factor = "none"
    /\ lastStep = 0
    /\ ticket = [t \in Tickets |-> "none"]
    /\ sess = [s \in Sids |-> NoSession]
    /\ device = {}
    /\ req = [r \in Requests |-> Idle]
    /\ uses = [p \in Proofs |-> 0]

Live(s) == sess[s].state = "live"
LiveFull == {s \in Sids : Live(s) /\ sess[s].level = "full"}
Begin(r, fields) == req[r] = Idle /\ req' = [req EXCEPT ![r] = fields]
Goto(r, to) == req' = [req EXCEPT ![r].pc = to]
Finish(r) == req' = [req EXCEPT ![r] = Idle]
At(r, pc) == req[r].pc = pc

-----------------------------------------------------------------------------
(* Session issuance: internal/session IssueWith, EnforceCap and the        *)
(* second-factor promotion, which share EnforceCap.                        *)

Blocked == acct.disabled \/ acct.mustChange

IssueGateUnchecked(r) ==
    /\ At(r, "gate")
    /\ req' = [req EXCEPT ![r].pc = "cap", ![r].late = FALSE]
    /\ UNCHANGED <<config, acct, factor, lastStep, ticket, sess, device, uses>>

(* IssueWith first runs CheckAccount. A request refused here is over.      *)
IssueGate(r) ==
    /\ At(r, "gate")
    /\ IF Blocked THEN Finish(r)
                  ELSE req' = [req EXCEPT ![r].pc = "cap", ![r].late = FALSE]
    /\ UNCHANGED <<config, acct, factor, lastStep, ticket, sess, device, uses>>

(* EnforceCap lists the live full sessions (all but the one to promote),   *)
(* then refuses, or picks the oldest over the cap, or finds room.          *)
Oldest(S, n) == {s \in S : Cardinality({t \in S : t < s}) < n}
OverOffByOne(S) == Cardinality(S) - CapMax
Over(S) == Cardinality(S) - (CapMax - 1)

Listed(r) == LiveFull \ {req[r].sid}
AfterCap(r) == IF req[r].sid = 0 THEN "create" ELSE "promote"

EnforceCap(r) ==
    /\ At(r, "cap")
    /\ CASE Over(Listed(r)) <= 0 -> Goto(r, AfterCap(r))
         [] Over(Listed(r)) > 0 /\ capMode = "reject" -> Finish(r)
         [] OTHER -> req' = [req EXCEPT ![r].pc = "evict",
                                        ![r].evict = Oldest(Listed(r), Over(Listed(r)))]
    /\ UNCHANGED <<config, acct, factor, lastStep, ticket, sess, device, uses>>

(* The evictions are one RevokeSession call each, oldest first.            *)
Evict(r) ==
    /\ At(r, "evict")
    /\ \E s \in Oldest(req[r].evict, 1) :
        /\ sess' = [sess EXCEPT ![s] = Revoked(@)]
        /\ req' = [req EXCEPT ![r].evict = @ \ {s},
                              ![r].pc = IF req[r].evict = {s} THEN AfterCap(r) ELSE @]
    /\ UNCHANGED <<config, acct, factor, lastStep, ticket, device, uses>>

Store(r, level) ==
    \E s \in Sids :
        /\ sess[s].state = "none" /\ \A t \in 1 .. s - 1 : sess[t].state # "none"
        /\ sess' = [sess EXCEPT ![s] = [NoSession EXCEPT
                        !.state = "live", !.level = level, !.late = req[r].late,
                        !.age = IF req[r].old THEN "overlap" ELSE "fresh"]]

Use(p) == uses' = IF p = NoProof THEN uses ELSE [uses EXCEPT ![p] = @ + 1]

CreateSession(r) ==
    /\ At(r, "create")
    /\ Store(r, "full")
    /\ Use(req[r].proof)
    /\ Finish(r)
    /\ UNCHANGED <<config, acct, factor, lastStep, ticket, device>>

-----------------------------------------------------------------------------
(* Password sign-up and sign-in, internal/password.                        *)

(* Signup looks the address up and creates the user; the unique index      *)
(* decides between two of them, so lookup and insert are one step.         *)
SignupCreate(r, p) ==
    /\ "signup" \in features /\ ~acct.exists
    /\ Begin(r, [Idle EXCEPT !.pc = "signup", !.cred = p])
    /\ acct' = [acct EXCEPT !.exists = TRUE]
    /\ UNCHANGED <<config, factor, lastStep, ticket, sess, device, uses>>

SignupPassword(r) ==
    /\ At(r, "signup")
    /\ acct' = [acct EXCEPT !.password = req[r].cred, !.legacy = FALSE]
    /\ Goto(r, "gate")
    /\ UNCHANGED <<config, factor, lastStep, ticket, sess, device, uses>>

(* Signin reads the user with the hash and verifies the typed password; a  *)
(* wrong one changes nothing modelled here.                                *)
SigninCheck(r) ==
    /\ acct.password # NoPassword
    /\ Begin(r, [Idle EXCEPT !.pc = IF acct.legacy THEN "upgrade" ELSE "account",
                             !.cred = acct.password])
    /\ UNCHANGED <<config, acct, factor, lastStep, ticket, sess, device, uses>>

(* UpgradeAndNotify stores a fresh hash of the password just verified.     *)
UpgradeHash(r) ==
    /\ At(r, "upgrade")
    /\ acct' = [acct EXCEPT !.password = req[r].cred, !.legacy = FALSE]
    /\ Goto(r, "account")
    /\ UNCHANGED <<config, factor, lastStep, ticket, sess, device, uses>>

CheckAccount(r) ==
    /\ At(r, "account")
    /\ IF Blocked THEN Finish(r) ELSE Goto(r, "factor")
    /\ UNCHANGED <<config, acct, factor, lastStep, ticket, sess, device, uses>>

(* A confirmed secret asks for the second factor unless the request        *)
(* carries the cookie of a device that is still trusted.                   *)
ReadFactor(r) ==
    /\ At(r, "factor")
    /\ \/ factor = "confirmed" /\ Goto(r, "pending")
       \/ (factor # "confirmed" \/ device # {}) /\ Goto(r, "gate")
    /\ UNCHANGED <<config, acct, factor, lastStep, ticket, sess, device, uses>>

(* A pending session counts against no cap and passes no further gate.     *)
IssuePending2FA(r) ==
    /\ At(r, "pending")
    /\ Store(r, "pending_2fa")
    /\ Finish(r)
    /\ UNCHANGED <<config, acct, factor, lastStep, ticket, device, uses>>

-----------------------------------------------------------------------------
(* One-time tickets: magic links, reset tokens.                            *)

Mail(t) ==
    /\ ticket[t] = "none"
    /\ \/ t \in Links /\ "links" \in features
       \/ t \in Resets /\ "reset" \in features /\ acct.exists
    /\ ticket' = [ticket EXCEPT ![t] = "open"]
    /\ UNCHANGED <<config, acct, factor, lastStep, sess, device, req, uses>>

SpendUnchecked(t) == ticket' = [ticket EXCEPT ![t] = "used"]
Spend(t) == ticket[t] = "open" /\ ticket' = [ticket EXCEPT ![t] = "used"]

(* Consume spends the link, finds or creates the user, then issues; it     *)
(* never asks for the second factor.                                       *)
ConsumeMagicLink(r, l) ==
    /\ Spend(l)
    /\ Begin(r, [Idle EXCEPT !.pc = "gate", !.proof = l])
    /\ acct' = [acct EXCEPT !.exists = TRUE]
    /\ UNCHANGED <<config, factor, lastStep, sess, device, uses>>

-----------------------------------------------------------------------------
(* The second factor, internal/totp.                                       *)

(* Enrolment is driven from a full session and leaves the recovery codes.  *)
FinishEnrollment ==
    /\ "totp" \in features /\ factor = "none" /\ LiveFull # {}
    /\ factor' = "confirmed"
    /\ ticket' = [t \in Tickets |-> IF t \in Codes /\ ticket[t] = "none"
                                    THEN "open" ELSE ticket[t]]
    /\ UNCHANGED <<config, acct, lastStep, sess, device, req, uses>>

(* Delete drops the secret, neither the recovery codes nor the last step.  *)
DeleteTOTP ==
    /\ factor = "confirmed" /\ LiveFull # {}
    /\ factor' = "none"
    /\ UNCHANGED <<config, acct, lastStep, ticket, sess, device, req, uses>>

(* Verify and ConsumeRecoveryCode validate the session, which must be      *)
(* pending, and ask capRoom before anything is spent.                      *)
VerifyStart(r, s) ==
    /\ Live(s) /\ sess[s].level = "pending_2fa"
    /\ capMode = "reject" => Over(LiveFull \ {s}) <= 0
    /\ Begin(r, [Idle EXCEPT !.pc = "code", !.sid = s, !.old = sess[s].age # "fresh"])
    /\ UNCHANGED <<config, acct, factor, lastStep, ticket, sess, device, uses>>

Proved(r, p) ==
    /\ req' = [req EXCEPT ![r].pc = "cap", ![r].proof = p]
    /\ sess' = [sess EXCEPT ![req[r].sid].fails = 0, ![req[r].sid].guesses = 0]

AdvanceStep(n) == n > lastStep /\ lastStep' = n

VerifyCode(r, n) ==
    /\ At(r, "code") /\ factor = "confirmed"
    /\ AdvanceStep(n)
    /\ Proved(r, n)
    /\ UNCHANGED <<config, acct, factor, ticket, device, uses>>

ConsumeRecoveryCode(r, c) ==
    /\ At(r, "code")
    /\ Spend(c)
    /\ Proved(r, c)
    /\ UNCHANGED <<config, acct, factor, lastStep, device, uses>>

(* A wrong code bumps the counter of the session under its mutex; the      *)
(* MaxFailures-th revokes the session and then drops the counter.          *)
WrongCodeNeverCounted(r) ==
    /\ At(r, "code")
    /\ sess' = [sess EXCEPT ![req[r].sid].guesses = @ + 1]
    /\ Finish(r)
    /\ UNCHANGED <<config, acct, factor, lastStep, ticket, device, uses>>

WrongCode(r) ==
    LET s == req[r].sid IN
    /\ At(r, "code")
    /\ sess' = [sess EXCEPT ![s].guesses = @ + 1, ![s].fails = @ + 1]
    /\ IF sess[s].fails + 1 >= MaxFailures THEN Goto(r, "guessed") ELSE Finish(r)
    /\ UNCHANGED <<config, acct, factor, lastStep, ticket, device, uses>>

RevokeGuessed(r) ==
    /\ At(r, "guessed")
    /\ sess' = [sess EXCEPT ![req[r].sid] = [Revoked(@) EXCEPT !.fails = 0]]
    /\ Finish(r)
    /\ UNCHANGED <<config, acct, factor, lastStep, ticket, device, uses>>

(* Without a confirmed secret decryptSecret ends Verify, nothing counted.  *)
NoSecret(r) ==
    /\ At(r, "code") /\ factor # "confirmed"
    /\ Finish(r)
    /\ UNCHANGED <<config, acct, factor, lastStep, ticket, sess, device, uses>>

(* UpdateSessionAuthLevel writes the level whether or not the row has been *)
(* revoked meanwhile; a revoked row stays revoked.                         *)
UpdateSessionAuthLevel(r) ==
    LET s == req[r].sid IN
    /\ At(r, "promote")
    /\ sess' = [sess EXCEPT ![s] = IF Live(s) THEN [@ EXCEPT !.level = "full"] ELSE @]
    /\ Use(req[r].proof)
    /\ \/ Finish(r)
       \/ req' = [req EXCEPT ![r] = [Idle EXCEPT !.pc = "remember", !.old = req[r].old]]
    /\ UNCHANGED <<config, acct, factor, lastStep, ticket, device>>

RememberDevice(r) ==
    /\ At(r, "remember")
    /\ device' = device \cup {IF req[r].old THEN "overlap" ELSE "fresh"}
    /\ Finish(r)
    /\ UNCHANGED <<config, acct, factor, lastStep, ticket, sess, uses>>

-----------------------------------------------------------------------------
(* Replacing the password: Reset and ChangePassword share their tail.      *)

ConsumeReset(r, t, p) ==
    /\ p # acct.password
    /\ Spend(t)
    /\ Begin(r, [Idle EXCEPT !.pc = "setpw", !.cred = p, !.proof = t])
    /\ UNCHANGED <<config, acct, factor, lastStep, sess, device, uses>>

(* ChangePassword comes from a validated full session and verifies the     *)
(* current password; it ends by issuing a session.                         *)
ChangeCheck(r, s, p) ==
    /\ "change" \in features /\ s \in LiveFull
    /\ acct.password \notin {NoPassword, p}
    /\ Begin(r, [Idle EXCEPT !.pc = "setpw", !.cred = p, !.reissue = TRUE])
    /\ UNCHANGED <<config, acct, factor, lastStep, ticket, sess, device, uses>>

(* History: what exists when the password is replaced is stale; what a     *)
(* request still makes of something it checked before that is an overlap.  *)
Aged(s) == IF s.state = "live" THEN [s EXCEPT !.age = "stale"] ELSE s
Overtaken(q) == q.cred # NoPassword \/ q.reissue \/ q.sid # 0 \/ q.pc = "remember"

SetUserPassword(r) ==
    /\ At(r, "setpw")
    /\ acct' = [acct EXCEPT !.password = req[r].cred, !.legacy = FALSE]
    /\ sess' = [s \in Sids |-> Aged(sess[s])]
    /\ device' = IF device = {} THEN {} ELSE {"stale"}
    /\ req' = [q \in Requests |->
                  IF q = r THEN [Idle EXCEPT !.pc = "clear", !.reissue = req[r].reissue]
                           ELSE [req[q] EXCEPT !.old = @ \/ Overtaken(req[q])]]
    /\ Use(req[r].proof)
    /\ UNCHANGED <<config, factor, lastStep, ticket>>

(* PasswordChanged: clear the forced-change flag, then drop the devices.   *)
ClearMustChange(r) ==
    /\ At(r, "clear")
    /\ acct' = [acct EXCEPT !.mustChange = FALSE]
    /\ Goto(r, "forget")
    /\ UNCHANGED <<config, factor, lastStep, ticket, sess, device, uses>>

RevokeDevicesSkipped(r) ==
    /\ At(r, "forget")
    /\ Goto(r, "revoke")
    /\ UNCHANGED <<config, acct, factor, lastStep, ticket, sess, device, uses>>

RevokeDevices(r) ==
    /\ At(r, "forget")
    /\ device' = {}
    /\ Goto(r, "revoke")
    /\ UNCHANGED <<config, acct, factor, lastStep, ticket, sess, uses>>

AllRevoked == [s \in Sids |-> IF Live(s) THEN Revoked(sess[s]) ELSE sess[s]]

RevokeUserSessions(r) ==
    /\ At(r, "revoke")
    /\ sess' = AllRevoked
    /\ IF req[r].reissue THEN Goto(r, "gate") ELSE Finish(r)
    /\ UNCHANGED <<config, acct, factor, lastStep, ticket, device, uses>>

-----------------------------------------------------------------------------
(* Blocking the account: DisableUser and SetMustChangePassword write their *)
(* flag, then revoke the sessions; DisableUser then drops the devices.     *)
(* History: a request past its last gate is late from here on.             *)

PastGate(q) == q.sid = 0 /\ q.pc \in {"factor", "pending", "cap", "evict", "create"}

Block(r, flagged, pc) ==
    /\ "block" \in features /\ acct.exists /\ req[r] = Idle
    /\ acct' = flagged
    /\ sess' = [s \in Sids |-> [sess[s] EXCEPT !.late = FALSE]]
    /\ req' = [q \in Requests |-> IF q = r THEN [Idle EXCEPT !.pc = pc]
                                  ELSE [req[q] EXCEPT !.late = PastGate(req[q])]]
    /\ UNCHANGED <<config, factor, lastStep, ticket, device, uses>>

DisableUser(r) == Block(r, [acct EXCEPT !.disabled = TRUE], "block")
RequireChange(r) == Block(r, [acct EXCEPT !.mustChange = TRUE], "revoke")

BlockRevoke(r) ==
    /\ At(r, "block")
    /\ sess' = AllRevoked
    /\ Goto(r, "untrust")
    /\ UNCHANGED <<config, acct, factor, lastStep, ticket, device, uses>>

BlockUntrust(r) ==
    /\ At(r, "untrust")
    /\ device' = {}
    /\ Finish(r)
    /\ UNCHANGED <<config, acct, factor, lastStep, ticket, sess, uses>>

EnableUser ==
    /\ acct.disabled
    /\ acct' = [acct EXCEPT !.disabled = FALSE]
    /\ UNCHANGED <<config, factor, lastStep, ticket, sess, device, req, uses>>

UnsetMustChange ==
    /\ acct.mustChange
    /\ acct' = [acct EXCEPT !.mustChange = FALSE]
    /\ UNCHANGED <<config, factor, lastStep, ticket, sess, device, req, uses>>

-----------------------------------------------------------------------------
(* Session management: logout and RevokeOwnedSession, RevokeOtherSessions, *)
(* and the revocation of trusted devices.                                  *)

RevokeSession(s) ==
    /\ Live(s)
    /\ sess' = [sess EXCEPT ![s] = Revoked(@)]
    /\ UNCHANGED <<config, acct, factor, lastStep, ticket, device, req, uses>>

RevokeOtherSessions(keep) ==
    /\ keep \in LiveFull
    /\ sess' = [AllRevoked EXCEPT ![keep] = sess[keep]]
    /\ UNCHANGED <<config, acct, factor, lastStep, ticket, device, req, uses>>

RevokeTrustedDevices ==
    /\ device # {} /\ LiveFull # {}
    /\ device' = {}
    /\ UNCHANGED <<config, acct, factor, lastStep, ticket, sess, req, uses>>

Step(r) ==
    \/ IssueGate(r) \/ EnforceCap(r) \/ Evict(r) \/ CreateSession(r)
    \/ \E p \in Passwords : SignupCreate(r, p)
    \/ SignupPassword(r) \/ SigninCheck(r) \/ UpgradeHash(r) \/ CheckAccount(r)
    \/ ReadFactor(r) \/ IssuePending2FA(r)
    \/ \E l \in Links : ConsumeMagicLink(r, l)
    \/ \E s \in Sids : VerifyStart(r, s)
    \/ \E n \in Steps : VerifyCode(r, n)
    \/ \E c \in Codes : ConsumeRecoveryCode(r, c)
    \/ WrongCode(r) \/ RevokeGuessed(r) \/ NoSecret(r)
    \/ UpdateSessionAuthLevel(r) \/ RememberDevice(r)
    \/ \E t \in Resets, p \in Passwords : ConsumeReset(r, t, p)
    \/ \E s \in Sids, p \in Passwords : ChangeCheck(r, s, p)
    \/ SetUserPassword(r) \/ ClearMustChange(r) \/ RevokeDevices(r)
    \/ RevokeUserSessions(r)
    \/ DisableUser(r) \/ RequireChange(r) \/ BlockRevoke(r) \/ BlockUntrust(r)

Next ==
    \/ \E r \in Requests : Step(r)
    \/ \E t \in Links \cup Resets : Mail(t)
    \/ FinishEnrollment \/ DeleteTOTP
    \/ EnableUser \/ UnsetMustChange \/ RevokeTrustedDevices
    \/ \E s \in Sids : RevokeSession(s) \/ RevokeOtherSessions(s)

Spec == Init /\ [][Next]_vars

-----------------------------------------------------------------------------
(* The cap is best effort under concurrency, as its comment says; this is  *)
(* how far off it can be: by one session for each other sign-in in flight, *)
(* in both overflow modes, and whether a session enters the count by being *)
(* created or by being promoted.                                           *)
CapOvershoot == Cardinality(LiveFull) <= CapMax + Cardinality(Requests) - 1

(* Everything is well typed, and the session cap is exceeded by no more    *)
(* than the requests that were between its check and their insert.         *)
SessionsCapped == TypeOK /\ CapOvershoot

(* Once DisableUser or SetMustChangePassword has returned, and until the   *)
(* block is lifted, the only live sessions are those of requests that had  *)
(* passed their last account check before the flag was written. Flag first *)
(* and revocation second is what makes it so.                              *)
BlockedMeansOut ==
    Blocked /\ (\A r \in Requests : ~At(r, "block") /\ ~(At(r, "revoke") /\ ~req[r].reissue))
        => \A s \in Sids : Live(s) => sess[s].late

(* Once Reset or ChangePassword has returned, no session and no trusted    *)
(* device from before the new password is left: what survives was made by  *)
(* a request that had checked the old password, or had validated an old    *)
(* session, before the new password was stored.                            *)
PasswordChangeEndsSessions ==
    (\A r \in Requests : req[r].pc \notin {"clear", "forget", "revoke"})
        => /\ \A s \in Sids : Live(s) => sess[s].age # "stale"
           /\ "stale" \notin device

(* A magic link, a reset token, a recovery code and a TOTP step each take  *)
(* effect at most once, however many requests present them at a time.      *)
ProofsSpentOnce == \A p \in Proofs : uses[p] <= 1

(* Guesses at the second factor of one sign-in are bounded: MaxFailures    *)
(* since the last right code, and one more for each other request that had *)
(* validated the session before it was revoked.                            *)
GuessesBounded ==
    \A s \in Sids : sess[s].guesses <= MaxFailures + Cardinality(Requests) - 1

=============================================================================
