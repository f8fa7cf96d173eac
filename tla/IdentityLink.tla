----------------------------- MODULE IdentityLink -----------------------------
(***************************************************************************)
(* Linking, unlinking and merging of sign-in methods                       *)
(* (internal/identitylink): calls of two users that check first and write  *)
(* afterwards, and a merge that moves one kind of method after the other   *)
(* and may fail between two moves.                                         *)
(*                                                                         *)
(* The user "p" merges the user "s" into its own account.  Sign-in itself  *)
(* is not part of this module: a session of "s" is live until the merge    *)
(* revokes it.                                                             *)
(***************************************************************************)
EXTENDS Integers, FiniteSets

CONSTANTS Calls,       \* concurrent calls
          Accounts,    \* provider accounts
          Provider,    \* Provider[a]: the provider of an account
          MaxFaults    \* bound: storage calls that fail

VARIABLES owner,     \* owner[a]: the user an account is linked to, or "none"
          passkey,   \* the user who holds the passkey, or "none"
          password,  \* the users with a password
          totp,      \* the users with a confirmed second factor
          sessions,  \* the users with a live full session
          call,      \* call[c]: a call in progress
          faults,
          raced,     \* history: users whose unlink or link overlapped another
          alone,     \* history: no call of "s" has overlapped the merge
          merged     \* history: a merge that ran alone has succeeded

linkVars == <<owner, passkey, password, totp, sessions, call, faults, raced, alone, merged>>

Users == {"p", "s"}
Idle == [op |-> "idle", user |-> "none", what |-> "none", todo |-> {}]
Begun(op, u, what, todo) == [op |-> op, user |-> u, what |-> what, todo |-> todo]
AccountsOf(u) == {a \in Accounts : owner[a] = u}
Merging == \E c \in Calls : call[c].op \in {"moving", "passkeys", "totp", "revoke"}

authMethodCount(u) ==
    Cardinality(AccountsOf(u)) + Cardinality({x \in {passkey} : x = u})
      + Cardinality({x \in password : x = u}) + Cardinality({x \in totp : x = u})

TypeOK ==
    /\ owner \in [Accounts -> Users \cup {"none"}] /\ passkey \in Users \cup {"none"}
    /\ password \subseteq Users /\ totp \subseteq Users /\ sessions \subseteq Users
    /\ \A c \in Calls : /\ call[c].user \in Users \cup {"none"} /\ call[c].todo \subseteq Accounts
                        /\ call[c].op = "idle" => call[c] = Idle
    /\ faults \in 0..MaxFaults /\ raced \subseteq Users /\ alone \in BOOLEAN /\ merged \in BOOLEAN

(* Each user starts with a session, and with an account or a password.     *)
Init ==
    /\ owner \in [Accounts -> Users \cup {"none"}]
    /\ passkey \in {"none", "s"} /\ password \in SUBSET Users /\ totp \in {{}, Users}
    /\ \A u \in Users : u \in password \/ AccountsOf(u) /= {}
    /\ sessions = Users
    /\ call = [c \in Calls |-> Idle]
    /\ faults = 0 /\ raced = {} /\ alone = TRUE /\ merged = FALSE

(* requireFullSession, and the bookkeeping of what a call overlaps.        *)
Starts(c, rec) ==
    /\ call[c] = Idle /\ rec.user \in sessions
    /\ call' = [call EXCEPT ![c] = rec]
    /\ alone' = (alone /\ ~(rec.user = "s" /\ Merging))

Ends(c) == call' = [call EXCEPT ![c] = Idle]

-----------------------------------------------------------------------------
HasAnother(u) == authMethodCount(u) > 1

(* UnlinkOAuthProvider counts the methods, and then deletes.               *)
UnlinkCheck(c, u, provider) ==
    /\ HasAnother(u)
    /\ Starts(c, Begun("unlink", u, provider, {}))
    /\ raced' = IF \E d \in Calls : call[d].op = "unlink" /\ call[d].user = u THEN raced \cup {u} ELSE raced
    /\ UNCHANGED <<owner, passkey, password, totp, sessions, faults, merged>>

UnlinkDelete(c) ==
    /\ call[c].op = "unlink" /\ Ends(c)
    /\ LET linked == {a \in AccountsOf(call[c].user) : Provider[a] = call[c].what}
       IN  \/ \E a \in linked : owner' = [owner EXCEPT ![a] = "none"]
           \/ linked = {} /\ UNCHANGED owner
    /\ UNCHANGED <<passkey, password, totp, sessions, faults, raced, alone, merged>>

(* LinkOAuthToCurrentUser looks the account up, and then upserts it.       *)
LinkCheck(c, u, a) ==
    /\ owner[a] = "none"
    /\ Starts(c, Begun("link", u, a, {}))
    /\ UNCHANGED <<owner, passkey, password, totp, sessions, faults, raced, merged>>

LinkUpsert(c) ==
    /\ call[c].op = "link" /\ Ends(c)
    /\ owner' = [owner EXCEPT ![call[c].what] = call[c].user]
    /\ raced' = raced \cup ({owner[call[c].what]} \cap (Users \ {call[c].user}))
    /\ UNCHANGED <<passkey, password, totp, sessions, faults, alone, merged>>

LinkPasswordToCurrentUser(u) ==
    /\ u \in sessions /\ password' = password \cup {u}
    /\ alone' = (alone /\ ~(u = "s" /\ Merging))
    /\ UNCHANGED <<owner, passkey, totp, sessions, call, faults, raced, merged>>

-----------------------------------------------------------------------------
(* MergeAccounts, one storage call after the other.                        *)
MergeBegin(c) ==
    /\ call[c] = Idle /\ "p" \in sessions
    /\ call' = [call EXCEPT ![c] = Begun("moving", "p", "none", AccountsOf("s"))]
    /\ alone' = (\A d \in Calls : call[d].user /= "s" /\ call[d].op \in {"idle", "unlink", "link"})
    /\ UNCHANGED <<owner, passkey, password, totp, sessions, faults, raced, merged>>

(* MoveOAuthAccount; an account unlinked meanwhile ends the merge.         *)
MergeMove(c) ==
    /\ call[c].op = "moving"
    /\ \E a \in call[c].todo :
         IF owner[a] = "none"
         THEN Ends(c) /\ UNCHANGED owner
         ELSE /\ owner' = [owner EXCEPT ![a] = "p"]
              /\ call' = [call EXCEPT ![c].todo = @ \ {a}]
    /\ UNCHANGED <<passkey, password, totp, sessions, faults, raced, alone, merged>>

(* Mutant of MovedTOTP: a secret that "p" does not need stays with "s".    *)
MovedTOTPKeeping(t) == IF "p" \in t THEN t ELSE (t \ {"s"}) \cup {"p"}

MovedTOTP(t) == IF "s" \in t THEN (t \ {"s"}) \cup {"p"} ELSE t

MergePassword(c) ==
    /\ call[c].op = "moving" /\ call[c].todo = {}
    /\ call' = [call EXCEPT ![c].op = "passkeys"]
    /\ password' = IF "s" \in password THEN {"p"} ELSE password
    /\ UNCHANGED <<owner, passkey, totp, sessions, faults, raced, alone, merged>>

MergePasskeys(c) ==
    /\ call[c].op = "passkeys"
    /\ call' = [call EXCEPT ![c].op = "totp"]
    /\ passkey' = IF passkey = "s" THEN "p" ELSE passkey
    /\ UNCHANGED <<owner, password, totp, sessions, faults, raced, alone, merged>>

MergeTOTP(c) ==
    /\ call[c].op = "totp"
    /\ call' = [call EXCEPT ![c].op = "revoke"]
    /\ totp' = MovedTOTP(totp)
    /\ UNCHANGED <<owner, passkey, password, sessions, faults, raced, alone, merged>>

MergeRevoke(c) ==
    /\ call[c].op = "revoke" /\ Ends(c)
    /\ sessions' = sessions \ {"s"}
    /\ merged' = (merged \/ alone)
    /\ UNCHANGED <<owner, passkey, password, totp, faults, raced, alone>>

(* A storage call fails: the merge returns and may be tried again.         *)
MergeFails(c) ==
    /\ call[c].op \in {"moving", "passkeys", "totp", "revoke"} /\ faults < MaxFaults
    /\ faults' = faults + 1 /\ Ends(c)
    /\ UNCHANGED <<owner, passkey, password, totp, sessions, raced, alone, merged>>

Next ==
    \/ \E c \in Calls, u \in Users :
         \/ \E a \in Accounts : UnlinkCheck(c, u, Provider[a]) \/ LinkCheck(c, u, a)
         \/ LinkPasswordToCurrentUser(u)
    \/ \E c \in Calls :
         \/ UnlinkDelete(c) \/ LinkUpsert(c)
         \/ MergeBegin(c) \/ MergeMove(c) \/ MergePassword(c) \/ MergePasskeys(c)
         \/ MergeTOTP(c) \/ MergeRevoke(c) \/ MergeFails(c)

Spec == Init /\ [][Next]_linkVars

-----------------------------------------------------------------------------
(* Unlinking never takes the last sign-in method of the merging user,      *)
(* unless two of its unlinks overlap or a concurrent link of the other     *)
(* user takes over one of its accounts.                                    *)
LastMethodKept == "p" \notin raced => authMethodCount("p") > 0

(* A merge that succeeds leaves the other account with no method and no    *)
(* session for good, whatever failed in an earlier attempt, provided no    *)
(* call of the other user overlapped it.                                   *)
MergeEmptiesSecondary == merged => authMethodCount("s") = 0 /\ "s" \notin sessions

(* Together: unlinking leaves a way to sign in, and a merge, also one that *)
(* is retried, leaves nothing on the secondary account.                    *)
MethodsSurvive == TypeOK /\ LastMethodKept /\ MergeEmptiesSecondary
=============================================================================
