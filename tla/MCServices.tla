-------------------------------- MODULE MCServices --------------------------------
(***************************************************************************)
(* Small instances, for TLC, of components that share no state with each   *)
(* other.  A behaviour is one of the component that which selects; the     *)
(* selected component keeps its state in v1, v2, ... and the others are    *)
(* not there.  A component whose cases need different sizes has several    *)
(* instances.  The policy engine keeps its own variables.                  *)
(*                                                                         *)
(* Where two handlers, processes or pollers of a component run at a time   *)
(* they are the two Workers; no definition tells the one from the other.   *)
(***************************************************************************)
EXTENDS PolicyEval, TLC

CONSTANT Workers

VARIABLES which, v1, v2, v3, v4, v5, v6, v7, v8, v9, v10

state == <<v1, v2, v3, v4, v5, v6, v7, v8, v9, v10>>

Symmetry == Permutations(Workers)

S1 == INSTANCE Signals WITH
             Pushers <- Workers, MaxSets <- 1, MaxAttempts <- 2, ReplayCap <- 1, MaxCrashes <- 1,
             stream <- v1, patch <- v2, emit <- v3, queue <- v4, pass <- v5,
             late <- v6, seen <- v7, running <- v8, past <- v9
S2 == INSTANCE Signals WITH
             Pushers <- {1}, MaxSets <- 2, MaxAttempts <- 2, ReplayCap <- 1, MaxCrashes <- 0,
             stream <- v1, patch <- v2, emit <- v3, queue <- v4, pass <- v5,
             late <- v6, seen <- v7, running <- v8, past <- v9
V1 == INSTANCE TokenVault WITH
             Nodes <- Workers, Requests <- {1}, MaxGrants <- 1, MaxTokens <- 2,
             MaxVersion <- 3, MaxCrashes <- 0, KeysRotate <- TRUE,
             row <- v1, idp <- v2, call <- v3, mutex <- v4, rewrap <- v5, mishap <- v6
V2 == INSTANCE TokenVault WITH
             Nodes <- {1}, Requests <- Workers, MaxGrants <- 2, MaxTokens <- 2,
             MaxVersion <- 3, MaxCrashes <- 1, KeysRotate <- FALSE,
             row <- v1, idp <- v2, call <- v3, mutex <- v4, rewrap <- v5, mishap <- v6
V3 == INSTANCE TokenVault WITH
             Nodes <- {1}, Requests <- {1}, MaxGrants <- 2, MaxTokens <- 1,
             MaxVersion <- 3, MaxCrashes <- 0, KeysRotate <- TRUE,
             row <- v1, idp <- v2, call <- v3, mutex <- v4, rewrap <- v5, mishap <- v6
R == INSTANCE RegistrationToken WITH
             Registrations <- {1, 2, 3}, MaxUses <- 2, MaxTries <- 4,
             regToken <- v1, reg <- v2, tally <- v3
K == INSTANCE Checkpoint WITH
             MaxRows <- 5, MaxFaults <- 1,
             rows <- v1, written <- v2, faults <- v3, heads <- v4
L == INSTANCE IdentityLink WITH
             Calls <- Workers, Accounts <- {1, 2}, Provider <- <<1, 2>>, MaxFaults <- 1,
             owner <- v1, passkey <- v2, password <- v3, totp <- v4, sessions <- v5, call <- v6,
             faults <- v7, raced <- v8, alone <- v9, merged <- v10
T == INSTANCE ToolGuard WITH
             Runs <- Workers, Admins <- {1, 2}, Contents <- {"x", "y"}, TTL <- 1, MaxOpen <- 1,
             hooked <- v1, approvals <- v2, guard <- v3, deciding <- v4, spent <- v5, decided <- v6
A == INSTANCE ApiTokens WITH
             Pollers <- Workers, HeldSets <- {{}, {"a"}, {"root"}}, Requests <- {{"root"}, {"a", "b"}}, MaxTokens <- 2,
             held <- v1, active <- v2, code <- v3, decide <- v4, poll <- v5, tokens <- v6, auth <- v7
F1 == INSTANCE FederatedLogin WITH
             Calls <- Workers, Responses <- {1, 2, 3}, Kind <- <<"oauth", "oauth", "idp">>,
             Identity <- <<"g", "g", "h">>, Email <- [i \in {"g", "h"} |-> "e"], Verified <- [i \in {"g", "h"} |-> i = "h"],
             RequestTTL <- 1, Validity <- 2, MinSeen <- 1, MaxSeen <- 2, MarkerTTL <- 2, MaxUsers <- 2,
             config <- v1, life <- v2, record <- v3, used <- v4, seen <- v5,
             users <- v6, owner <- v7, call <- v8, sessions <- v9
F2 == INSTANCE FederatedLogin WITH
             Calls <- Workers, Responses <- {1, 2}, Kind <- <<"sp", "idp">>,
             Identity <- <<"g", "g">>, Email <- [i \in {"g"} |-> "e"], Verified <- [i \in {"g"} |-> TRUE],
             RequestTTL <- 1, Validity <- 2, MinSeen <- 1, MaxSeen <- 2, MarkerTTL <- 2, MaxUsers <- 2,
             config <- v1, life <- v2, record <- v3, used <- v4, seen <- v5,
             users <- v6, owner <- v7, call <- v8, sessions <- v9
P == INSTANCE Passkey WITH
             Calls <- Workers, Challenges <- {1, 2, 3}, MaxCount <- 2, MaxCreds <- 2, ChallengeTTL <- 1,
             policy <- v1, challenge <- v2, cred <- v3, registered <- v4,
             signin <- v5, accepted <- v6, answered <- v7
G == INSTANCE Glob WITH
             Chars <- {"a", "*", "\\"}, MaxPattern <- 4, MaxText <- 3,
             pattern <- v1, text <- v2, p <- v3, i <- v4, starP <- v5, starI <- v6, result <- v7

(* The policies: every kind of statement that the evaluation tells apart.  *)
Stmt(effect, target, fails) == [effect |-> effect, target |-> target, fails |-> fails]
MCStatements ==
    {Stmt("allow", "yes", "none"), Stmt("deny", "yes", "none"), Stmt("escalate", "yes", "none"),
     Stmt("deny", "unresolved", "none"), Stmt("allow", "unresolved", "none"), Stmt("allow", "yes", "ip")}
MCIdentityPolicies == UNION {[1..n -> MCStatements] : n \in 0..3}
MCBoundaries == {<<>>} \union {<<s>> : s \in MCStatements}
Tier(matching, require) == [matches |-> matching, require |-> require]
MCRiskSets == {{}, {Tier(TRUE, "approval"), Tier(TRUE, "step_up")}, {Tier(FALSE, "step_up"), Tier(TRUE, "none")}}
ArgRule(forbid, require) == [forbid |-> forbid, require |-> require]
Rule(strict, effect, call, arg) ==
    [applies |-> TRUE, strict |-> strict, effect |-> effect, call |-> call, args |-> [a \in Args |-> arg]]
MCTaintSets ==
    {{}, {Rule(FALSE, "deny", ArgRule({"l"}, {}), ArgRule({}, {})),
          Rule(TRUE, "escalate", ArgRule({}, {}), ArgRule({}, {"m"}))}}
MCProvenances == {[a \in Args \union {""} |-> {}], [a \in Args \union {""} |-> IF a = "" THEN {"l"} ELSE {}],
                  [a \in Args \union {""} |-> IF a = "" THEN {} ELSE {"m"}]}

(* The theorems about the engine assume this of the policies they are      *)
(* asked about.                                                            *)
ASSUME QuestionsAreTyped == QuestionAssumption

(* The policy engine when it is not selected.                              *)
NoQuestion ==
    /\ identity = <<>> /\ boundary = <<>> /\ risk = {} /\ taint = {} /\ prov = [a \in Args \union {""} |-> {}]
    /\ stage = "taint" /\ pos = 1 /\ escalate = 0 /\ allow = 0 /\ decision = Pending

MCInit ==
    \/ which = "policy" /\ Init /\ v1 = 0 /\ v2 = 0 /\ v3 = 0 /\ v4 = 0 /\ v5 = 0 /\ v6 = 0 /\ v7 = 0 /\ v8 = 0 /\ v9 = 0 /\ v10 = 0
    \/ /\ NoQuestion
       /\ \/ which = "signals1" /\ S1!Init /\ v10 = 0
          \/ which = "signals2" /\ S2!Init /\ v10 = 0
          \/ which = "vault1" /\ V1!Init /\ v7 = 0 /\ v8 = 0 /\ v9 = 0 /\ v10 = 0
          \/ which = "vault2" /\ V2!Init /\ v7 = 0 /\ v8 = 0 /\ v9 = 0 /\ v10 = 0
          \/ which = "vault3" /\ V3!Init /\ v7 = 0 /\ v8 = 0 /\ v9 = 0 /\ v10 = 0
          \/ which = "registration" /\ R!Init /\ v4 = 0 /\ v5 = 0 /\ v6 = 0 /\ v7 = 0 /\ v8 = 0 /\ v9 = 0 /\ v10 = 0
          \/ which = "checkpoint" /\ K!Init /\ v5 = 0 /\ v6 = 0 /\ v7 = 0 /\ v8 = 0 /\ v9 = 0 /\ v10 = 0
          \/ which = "link" /\ L!Init
          \/ which = "guard" /\ T!Init /\ v7 = 0 /\ v8 = 0 /\ v9 = 0 /\ v10 = 0
          \/ which = "apitokens" /\ A!Init /\ v8 = 0 /\ v9 = 0 /\ v10 = 0
          \/ which = "federated1" /\ F1!Init /\ v10 = 0
          \/ which = "federated2" /\ F2!Init /\ v10 = 0
          \/ which = "passkey" /\ P!Init /\ v8 = 0 /\ v9 = 0 /\ v10 = 0
          \/ which = "glob" /\ G!Init /\ v8 = 0 /\ v9 = 0 /\ v10 = 0

MCNext ==
    \/ which = "policy" /\ Next /\ UNCHANGED <<which, state>>
    \/ which = "signals1" /\ S1!Next /\ UNCHANGED <<which, policyVars, v10>>
    \/ which = "signals2" /\ S2!Next /\ UNCHANGED <<which, policyVars, v10>>
    \/ which = "vault1" /\ V1!Next /\ UNCHANGED <<which, policyVars, v7, v8, v9, v10>>
    \/ which = "vault2" /\ V2!Next /\ UNCHANGED <<which, policyVars, v7, v8, v9, v10>>
    \/ which = "vault3" /\ V3!Next /\ UNCHANGED <<which, policyVars, v7, v8, v9, v10>>
    \/ which = "registration" /\ R!Next /\ UNCHANGED <<which, policyVars, v4, v5, v6, v7, v8, v9, v10>>
    \/ which = "checkpoint" /\ K!Next /\ UNCHANGED <<which, policyVars, v5, v6, v7, v8, v9, v10>>
    \/ which = "link" /\ L!Next /\ UNCHANGED <<which, policyVars>>
    \/ which = "guard" /\ T!Next /\ UNCHANGED <<which, policyVars, v7, v8, v9, v10>>
    \/ which = "apitokens" /\ A!Next /\ UNCHANGED <<which, policyVars, v8, v9, v10>>
    \/ which = "federated1" /\ F1!Next /\ UNCHANGED <<which, policyVars, v10>>
    \/ which = "federated2" /\ F2!Next /\ UNCHANGED <<which, policyVars, v10>>
    \/ which = "passkey" /\ P!Next /\ UNCHANGED <<which, policyVars, v8, v9, v10>>
    \/ which = "glob" /\ G!Next /\ UNCHANGED <<which, policyVars, v8, v9, v10>>

MCSpec == MCInit /\ [][MCNext]_<<which, state, policyVars>>

-----------------------------------------------------------------------------
(* Signals: an acknowledged SET was processed, once while the replay cache *)
(* remembers it, each pusher pushes it at most MaxAttempts times, and one  *)
(* that left the queue never comes back, whatever answers are lost.        *)
SetsProcessedOnce ==
    /\ [](which = "signals1" => S1!TypeOK /\ S1!AckedWasProcessed /\ S1!ProcessedOnce /\ S1!PushesBounded)
    /\ [](which = "signals2" => S2!TypeOK /\ S2!AckedWasProcessed /\ S2!ProcessedOnce /\ S2!PushesBounded)
    /\ [][(which = "signals1" => S1!StaysOut) /\ (which = "signals2" => S2!StaysOut)]_<<which, state>>

(* TokenVault: a late refresh never overwrites a reconnected credential,   *)
(* the stored refresh token is the provider's current one, reauthorisation *)
(* is asked for only when the credential is lost, and when Rewrap reports  *)
(* nothing left the old key can go.                                        *)
VaultKeepsToken ==
    /\ which = "vault1" => V1!TypeOK /\ V1!ReconnectionStays /\ V1!StoredTokenIsCurrent /\ V1!ReauthIsJustified /\ V1!RewrapZeroIsSafe
    /\ which = "vault2" => V2!TypeOK /\ V2!ReconnectionStays /\ V2!StoredTokenIsCurrent /\ V2!ReauthIsJustified /\ V2!RewrapZeroIsSafe
    /\ which = "vault3" => V3!TypeOK /\ V3!ReconnectionStays /\ V3!StoredTokenIsCurrent /\ V3!ReauthIsJustified /\ V3!RewrapZeroIsSafe

(* RegistrationToken: the uses counted are the registrations made or in    *)
(* flight, and a revoked or expired token registers no further client.     *)
UsesAreRegistrations == which = "registration" => R!UsesAreRegistrations

(* Checkpoint: an inclusion proof verifies for its row and no other, a     *)
(* consistency proof between a log and its extension only, and a log that  *)
(* was only appended to proves all its checkpoints.                        *)
ProofsAreExact ==
    which = "checkpoint" => K!TypeOK /\ K!InclusionIsExact /\ K!ConsistencyIsExact /\ K!AppendOnlyProves

(* IdentityLink: unlinking leaves a way to sign in, and a merge, also one  *)
(* that is retried, leaves nothing on the secondary account.               *)
MethodsSurvive == which = "link" => L!MethodsSurvive

(* ToolGuard: an approval is decided once and runs one call, the one       *)
(* approved.                                                               *)
ApprovalSpentOnce == which = "guard" => T!ApprovalSpentOnce

(* ApiTokens: a device code mints one token, and no token ever exceeds     *)
(* what its owner holds.                                                   *)
TokenWithinOwner == which = "apitokens" => A!TokenWithinOwner

(* FederatedLogin: a provider's response issues one session, an unverified *)
(* address takes over no account, and an external identity keeps its       *)
(* account.                                                                *)
ResponseSignsInOnce ==
    /\ [](which = "federated1" => F1!TypeOK /\ F1!OneSessionPerResponse /\ F1!UnverifiedOwnsItsOwn)
    /\ [](which = "federated2" => F2!TypeOK /\ F2!OneSessionPerResponse /\ F2!UnverifiedOwnsItsOwn)
    /\ [][(which = "federated1" => F1!OwnersStay) /\ (which = "federated2" => F2!OwnersStay)]_<<which, state>>

(* Passkey: a challenge is answered once, a counter value signs in once,   *)
(* and the stored counter never goes back.                                 *)
PasskeyCountsOnce ==
    /\ [](which = "passkey" => P!PasskeyCountsOnce)
    /\ [][which = "passkey" => P!SignCountGrows]_<<which, state>>

(* Glob: Match agrees with the meaning of the pattern, and an escaped      *)
(* value matches itself only.                                              *)
PatternsAreExact == which = "glob" => G!TypeOK /\ G!MatchIsExact /\ G!EscapedIsLiteral
=============================================================================
