--------------------------------- MODULE MCCaches ---------------------------------
(***************************************************************************)
(* Small instances, for TLC, of the components that rest on caches,        *)
(* snapshots and counters with a lifetime.  A behaviour is one of the      *)
(* component that which selects; the selected component keeps its state in *)
(* v1, v2, ... and the others are not there.  The introspection caches     *)
(* keep their own variables.                                               *)
(***************************************************************************)
EXTENDS Introspection, TLC

VARIABLES which, v1, v2, v3, v4, v5, v6, v7, v8

state == <<v1, v2, v3, v4, v5, v6, v7, v8>>

Query(scope, maxAge) == [scope |-> scope, maxAge |-> maxAge]

J == INSTANCE Jwks WITH
             Instances <- {1, 2}, MaxKeys <- 7,
             rotator <- v1, rows <- v2, snap <- v3, inst <- v4, behind <- v5
A1 == INSTANCE Authorize WITH
             Calls <- {1}, Queries <- {Query({"a", "b"}, 9), Query({"a", "x"}, 1)}, Catalog <- {"a", "b"},
             ClientScopes <- {{"a"}, {"a", "b"}}, AnyAge <- 9, MaxAuthAge <- 2, PushTTL <- 1, TicketTTL <- 2,
             MaxPushed <- 1, MaxTickets <- 1, MaxSessions <- 2,
             drop <- v1, client <- v2, session <- v3, pushed <- v4, tickets <- v5,
             call <- v6, issued <- v7, denied <- v8
A2 == INSTANCE Authorize WITH
             Calls <- {1, 2}, Queries <- {Query({"a", "b"}, 9)}, Catalog <- {"a", "b"},
             ClientScopes <- {{"a", "b"}}, AnyAge <- 9, MaxAuthAge <- 0, PushTTL <- 1, TicketTTL <- 1,
             MaxPushed <- 1, MaxTickets <- 1, MaxSessions <- 1,
             drop <- v1, client <- v2, session <- v3, pushed <- v4, tickets <- v5,
             call <- v6, issued <- v7, denied <- v8
K1 == INSTANCE VerifierKeys WITH
             Lookups <- {1, 2}, Kids <- {"k1", "k2"}, ttl <- 1, minRefreshInterval <- 1,
             maxStale <- 2, FetchTimeout <- 1, MaxChanges <- 2,
             published <- v1, keys <- v2, age <- v3, lookup <- v4, withdrawn <- v5, changes <- v6, accepted <- v7
C1 == INSTANCE CimdCache WITH
             Nodes <- {1}, Calls <- {1, 2}, CacheTTL <- 2, NegativeCacheTTL <- 1, CallTime <- 1,
             SiteFails <- TRUE, MaxVersions <- 2,
             site <- v1, local <- v2, shared <- v3, flight <- v4, call <- v5, answers <- v6
C2 == INSTANCE CimdCache WITH
             Nodes <- {1, 2}, Calls <- {1, 2}, CacheTTL <- 2, NegativeCacheTTL <- 1, CallTime <- 1,
             SiteFails <- FALSE, MaxVersions <- 2,
             site <- v1, local <- v2, shared <- v3, flight <- v4, call <- v5, answers <- v6
O == INSTANCE Otp WITH
             Verifiers <- {1, 2}, MaxAttempts <- 2, CodeTTL <- 2, LockTTL <- 2, Cooldown <- 1, MaxCodes <- 2,
             cache <- v1, issuer <- v2, verify <- v3, codes <- v4, log <- v5
H == INSTANCE Throttle WITH
             Attempts <- {1, 2}, GraceFailures <- 2, MaxDelay <- 2, ResetAfter <- 3,
             UserMaxFailures <- 3, UserLockout <- 2, casAttempts <- 4, MaxFailures <- 5,
             login <- v1, user <- v2, att <- v3, guesses <- v4

(* No definition names a request of the introspection caches.              *)
Symmetry == Permutations(Requests)

(* The introspection caches when they are not selected.                    *)
NoToken ==
    /\ kind = "direct" /\ opaque = FALSE /\ usable = TRUE /\ rev = 0 /\ notice = "none"
    /\ body = [left |-> 0, active |-> FALSE] /\ subject = 0 /\ rs = [left |-> 0, active |-> FALSE]
    /\ req = [q \in Requests |-> Idle]

MCInit ==
    \/ which = "introspection" /\ Init /\ v1 = 0 /\ v2 = 0 /\ v3 = 0 /\ v4 = 0 /\ v5 = 0 /\ v6 = 0 /\ v7 = 0 /\ v8 = 0
    \/ /\ NoToken
       /\ \/ which = "jwks" /\ J!Init /\ v6 = 0 /\ v7 = 0 /\ v8 = 0
          \/ which = "authorize1" /\ A1!Init
          \/ which = "authorize2" /\ A2!Init
          \/ which = "verifierkeys" /\ K1!Init /\ v8 = 0
          \/ which = "cimd1" /\ C1!Init /\ v7 = 0 /\ v8 = 0
          \/ which = "cimd2" /\ C2!Init /\ v7 = 0 /\ v8 = 0
          \/ which = "otp" /\ O!Init /\ v6 = 0 /\ v7 = 0 /\ v8 = 0
          \/ which = "throttle" /\ H!Init /\ v5 = 0 /\ v6 = 0 /\ v7 = 0 /\ v8 = 0

MCNext ==
    \/ which = "introspection" /\ Next /\ UNCHANGED <<which, state>>
    \/ which = "jwks" /\ J!Next /\ UNCHANGED <<which, vars, v6, v7, v8>>
    \/ which = "authorize1" /\ A1!Next /\ UNCHANGED <<which, vars>>
    \/ which = "authorize2" /\ A2!Next /\ UNCHANGED <<which, vars>>
    \/ which = "verifierkeys" /\ K1!Next /\ UNCHANGED <<which, vars, v8>>
    \/ which = "cimd1" /\ C1!Next /\ UNCHANGED <<which, vars, v7, v8>>
    \/ which = "cimd2" /\ C2!Next /\ UNCHANGED <<which, vars, v7, v8>>
    \/ which = "otp" /\ O!Next /\ UNCHANGED <<which, vars, v6, v7, v8>>
    \/ which = "throttle" /\ H!Next /\ UNCHANGED <<which, vars, v5, v6, v7, v8>>

MCSpec == MCInit /\ [][MCNext]_<<which, state, vars>>

-----------------------------------------------------------------------------
(* Jwks: a signer one rotation behind signs with a published key, and a    *)
(* key moves one state at a time and never back, whoever rotates.          *)
KeysRotateSafely ==
    /\ [](which = "jwks" => J!TypeOK /\ J!LaggingSignerPublished)
    /\ [][which = "jwks" => J!KeysAdvance]_<<which, state>>

(* Authorize: a consent ticket is decided once, a pushed request yields    *)
(* one code, and a code is within what was asked and allowed and comes     *)
(* from a login as fresh as was asked.                                     *)
CodesFollowRequests ==
    /\ which = "authorize1" => A1!CodesFollowRequests
    /\ which = "authorize2" => A2!CodesFollowRequests

(* VerifierKeys and CimdCache, what is fetched and kept: a withdrawn key, a *)
(* replaced document and a failure are served for a bounded time, a        *)
(* replica runs one fetch at a time, and a bad answer never empties the    *)
(* keys.                                                                   *)
FetchedIsBounded ==
    /\ [](which = "verifierkeys" => K1!TypeOK /\ K1!WithdrawnKeyBounded)
    /\ [](which = "cimd1" => C1!TypeOK /\ C1!StaleDocumentBounded /\ C1!FailureForgotten /\ C1!OneFetch)
    /\ [](which = "cimd2" => C2!TypeOK /\ C2!StaleDocumentBounded /\ C2!FailureForgotten /\ C2!OneFetch)
    /\ [][which = "verifierkeys" => K1!KeysKept]_<<which, state>>

(* Otp and Throttle: a code is guessed at most MaxAttempts times per lock  *)
(* and not accepted again later, and the lockout bounds the guesses of a   *)
(* window, however the attempts overlap.                                   *)
GuessingIsBounded ==
    /\ which = "otp" => O!GuessingIsBounded
    /\ which = "throttle" => H!TypeOK /\ H!LockoutBoundsGuesses
=============================================================================
