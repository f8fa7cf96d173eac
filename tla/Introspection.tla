---------------------------- MODULE Introspection ----------------------------
(***************************************************************************)
(* How long a revoked access token is still accepted. A resource server    *)
(* (mcpresource) asks the authorization server (internal/as/introspect.go) *)
(* and keeps the answer; the authorization server keeps whole answers and, *)
(* apart from them, positive answers about the token's subject.            *)
(*                                                                         *)
(* One token, one node of each kind. What makes the token unusable is read *)
(* from storage on every call (a delegation grant, a denied jti, a revoked *)
(* device: kind "direct"), or behind the subject cache (a suspended agent, *)
(* a disabled user: kind "subject"), or only when the AS has no answer     *)
(* kept (the row of an opaque or a refresh token: kind "row").             *)
(*                                                                         *)
(* Time is relative: a cache entry counts down the ticks it has left, a    *)
(* request counts up its age, so no clock runs out of bound.               *)
(***************************************************************************)
EXTENDS Naturals

CONSTANTS
    Requests,      \* concurrent requests at the resource server
    RsTTL,         \* Validator.cacheTTL, or the max-age the AS sends
    AsTTL,         \* Config.IntrospectionCacheTTL
    SubjectTTL,    \* Config.SubjectActiveCacheTTL; 0 turns the cache off
    FetchTimeout   \* the resource server's HTTP client timeout

ASSUME IntrospectionAssumption ==
    /\ RsTTL \in Nat \ {0} /\ AsTTL \in Nat \ {0}
    /\ SubjectTTL \in Nat /\ FetchTimeout \in Nat \ {0}

VARIABLES
    kind,      \* what the token's validity depends on, fixed
    opaque,    \* whether it is an opaque token, fixed
    usable,    \* the row in storage
    rev,       \* history: ticks since the row was last revoked
    notice,    \* the invalidation that follows a revocation
    body,      \* introspectCache of the AS: ticks left and the answer kept
    subject,   \* subjectCache of the AS: ticks left of a positive answer
    rs,        \* introspectCache of the resource server
    req

vars == <<kind, opaque, usable, rev, notice, body, subject, rs, req>>

Kinds == {"direct", "subject", "row"}

(* The windows a revocation of each kind may have to outlast.              *)
Lag == RsTTL + FetchTimeout + (CASE kind = "direct" -> 0
                                 [] kind = "subject" -> SubjectTTL
                                 [] kind = "row" -> AsTTL)
MaxLag == RsTTL + FetchTimeout + SubjectTTL + AsTTL

(* A request: where it is; whether the resource server still waits; the    *)
(* age of its fetch and of the clock reading the subject cache entry will  *)
(* carry; whether the AS had a cached body; the verdict so far; and, as    *)
(* history, how long the token had been revoked when the request came in   *)
(* and whether its fetch began after a clean invalidation.                 *)
Idle == [pc |-> "idle", waiting |-> TRUE, age |-> 0, read |-> 0, hit |-> FALSE,
         active |-> FALSE, since |-> 0, late |-> FALSE]

Request == [pc : {"idle", "fetch", "check", "lookup", "keep", "set", "reply", "done"},
            waiting : BOOLEAN, age : 0 .. FetchTimeout, read : 0 .. SubjectTTL,
            hit : BOOLEAN, active : BOOLEAN, since : 0 .. MaxLag, late : BOOLEAN]

(* Every variable holds a value of its type, no entry outlives its TTL and *)
(* no fetch its timeout.                                                   *)
TypeOK ==
    /\ kind \in Kinds /\ opaque \in BOOLEAN
    /\ usable \in BOOLEAN
    /\ rev \in 0 .. MaxLag
    /\ notice \in {"none", "due", "given", "missed"}
    /\ body \in [left : 0 .. AsTTL + 1, active : BOOLEAN]
    /\ subject \in 0 .. SubjectTTL
    /\ rs \in [left : 0 .. RsTTL, active : BOOLEAN]
    /\ req \in [Requests -> Request]

Init ==
    /\ kind \in Kinds /\ opaque \in BOOLEAN
    /\ kind = "row" => opaque
    /\ usable = TRUE
    /\ rev = 0
    /\ notice = "none"
    /\ body = [left |-> 0, active |-> FALSE]
    /\ subject = 0
    /\ rs = [left |-> 0, active |-> FALSE]
    /\ req = [q \in Requests |-> Idle]

At(q, pc) == req[q].pc = pc
Goto(q, pc) == req' = [req EXCEPT ![q].pc = pc]
Less(n) == IF n = 0 THEN 0 ELSE n - 1
More(n, max) == IF n = max THEN max ELSE n + 1
Fetching(q) == req[q].waiting /\ req[q].pc \in {"fetch", "check", "lookup", "keep", "set", "reply"}

-----------------------------------------------------------------------------
(* The resource server: Lookup.                                            *)

RsHit(q) ==
    /\ At(q, "idle") /\ rs.left > 0
    /\ req' = [req EXCEPT ![q] = [Idle EXCEPT !.pc = "done", !.active = rs.active,
                                              !.since = IF usable THEN 0 ELSE rev]]
    /\ UNCHANGED <<kind, opaque, usable, rev, notice, body, subject, rs>>

RsMiss(q) ==
    /\ At(q, "idle") /\ rs.left = 0
    /\ req' = [req EXCEPT ![q] = [Idle EXCEPT !.pc = "fetch",
                                              !.since = IF usable THEN 0 ELSE rev,
                                              !.late = notice = "given"]]
    /\ UNCHANGED <<kind, opaque, usable, rev, notice, body, subject, rs>>

(* The HTTP client gives up; the AS finishes what it is doing.             *)
RsTimeout(q) ==
    /\ Fetching(q) /\ req[q].age = FetchTimeout
    /\ req' = [req EXCEPT ![q].waiting = FALSE, ![q].age = 0, ![q].since = 0, ![q].late = FALSE]
    /\ UNCHANGED <<kind, opaque, usable, rev, notice, body, subject, rs>>

(* The answer arrives. Under the write lock an entry that another request  *)
(* has stored meanwhile wins over it, and is what this request goes by. An *)
(* inactive verdict drops the entry (Invalidate), except on the path of    *)
(* opaque tokens, which leaves it to expire.                               *)
Kept(q) == IF rs.left > 0 THEN rs ELSE [left |-> RsTTL, active |-> req[q].active]

RsStore(q) ==
    /\ At(q, "reply")
    /\ IF req[q].waiting
       THEN /\ rs' = IF Kept(q).active \/ opaque THEN Kept(q) ELSE [rs EXCEPT !.left = 0]
            /\ req' = [req EXCEPT ![q].pc = "done", ![q].age = 0, ![q].active = Kept(q).active]
       ELSE rs' = rs /\ req' = [req EXCEPT ![q] = Idle]
    /\ UNCHANGED <<kind, opaque, usable, rev, notice, body, subject>>

Done(q) ==
    /\ At(q, "done")
    /\ req' = [req EXCEPT ![q] = Idle]
    /\ UNCHANGED <<kind, opaque, usable, rev, notice, body, subject, rs>>

-----------------------------------------------------------------------------
(* The authorization server: IntrospectToken.                              *)

(* The answer of the AS, straight away or, after a miss, once it is kept.  *)
Reply(q, a) ==
    req' = [req EXCEPT ![q].active = a, ![q].read = 0, ![q].hit = FALSE,
                       ![q].pc = IF req[q].hit THEN "reply" ELSE "set"]

(* introspectCacheGet: a kept inactive answer is final; a kept active one  *)
(* is checked again, but for the row of the token itself.                  *)
AsCacheGet(q) ==
    /\ At(q, "fetch")
    /\ req' = [req EXCEPT ![q] =
                  IF body.left > 0 /\ (~body.active \/ kind = "row")
                  THEN [@ EXCEPT !.pc = "reply", !.active = body.active]
                  ELSE [@ EXCEPT !.pc = "check", !.hit = body.left > 0]]
    /\ UNCHANGED <<kind, opaque, usable, rev, notice, body, subject, rs>>

CheckDirect(q) ==
    /\ At(q, "check") /\ kind \in {"direct", "row"}
    /\ Reply(q, usable)
    /\ UNCHANGED <<kind, opaque, usable, rev, notice, body, subject, rs>>

(* subjectActive: the clock is read first, then the cache, then storage.   *)
SubjectCacheGet(q) ==
    /\ At(q, "check") /\ kind = "subject"
    /\ IF subject > 0 THEN Reply(q, TRUE)
                      ELSE req' = [req EXCEPT ![q].pc = "lookup", ![q].read = 0]
    /\ UNCHANGED <<kind, opaque, usable, rev, notice, body, subject, rs>>

SubjectLookup(q) ==
    /\ At(q, "lookup")
    /\ IF usable THEN Goto(q, "keep") ELSE Reply(q, FALSE)
    /\ UNCHANGED <<kind, opaque, usable, rev, notice, body, subject, rs>>

(* Only active answers are kept, under the clock reading made before the   *)
(* lookup: an entry is never younger than what it reports.                 *)
EntryFromNow(q) == SubjectTTL
Entry(q) == SubjectTTL - req[q].read

SubjectKeep(q) ==
    /\ At(q, "keep")
    /\ subject' = Entry(q)
    /\ Reply(q, TRUE)
    /\ UNCHANGED <<kind, opaque, usable, rev, notice, body, rs>>

(* introspectCacheSet; an entry is good up to and including its expiry.    *)
AsCacheSet(q) ==
    /\ At(q, "set")
    /\ body' = [left |-> AsTTL + 1, active |-> req[q].active]
    /\ Goto(q, "reply")
    /\ UNCHANGED <<kind, opaque, usable, rev, notice, subject, rs>>

-----------------------------------------------------------------------------
(* Revocation. The row is written first; the subject cache hears of it by  *)
(* the call of the node that wrote it or over the bus, which may lose the  *)
(* event; the revocation of an opaque token purges the answers kept on the *)
(* node that handles it, that of a refresh token purges nothing. An        *)
(* invalidation is clean when no request holds a positive answer that it   *)
(* has still to keep.                                                      *)

Revoke ==
    /\ usable
    /\ usable' = FALSE /\ rev' = 0 /\ notice' = "due"
    /\ UNCHANGED <<kind, opaque, body, subject, rs, req>>

Keeping(q) == At(q, "keep") \/ (At(q, "set") /\ req[q].active /\ kind = "row")
Notified == IF \E q \in Requests : Keeping(q) THEN "missed" ELSE "given"

InvalidateSubject ==
    /\ notice = "due" /\ kind # "row"
    /\ subject' = 0
    /\ notice' = Notified
    /\ UNCHANGED <<kind, opaque, usable, rev, body, rs, req>>

PurgeIntrospectCache ==
    /\ notice = "due" /\ kind = "row"
    /\ body' = [left |-> 0, active |-> FALSE]
    /\ notice' = Notified
    /\ UNCHANGED <<kind, opaque, usable, rev, subject, rs, req>>

LoseNotice ==
    /\ notice = "due"
    /\ notice' = "missed"
    /\ UNCHANGED <<kind, opaque, usable, rev, body, subject, rs, req>>

(* An agent is resumed or a user enabled; other revocations are final.     *)
Restore ==
    /\ ~usable /\ kind = "subject" /\ notice # "due"
    /\ usable' = TRUE /\ rev' = 0 /\ notice' = "none"
    /\ req' = [q \in Requests |-> [req[q] EXCEPT !.since = 0, !.late = FALSE]]
    /\ UNCHANGED <<kind, opaque, body, subject, rs>>

(* Nothing blocks between a verdict of the AS and its being kept, so no    *)
(* time passes there; everything else may take any time.                   *)
Tick ==
    /\ \A q \in Requests : ~At(q, "set") /\ (Fetching(q) => req[q].age < FetchTimeout)
    /\ rev' = IF usable THEN 0 ELSE More(rev, MaxLag)
    /\ body' = [body EXCEPT !.left = Less(@)]
    /\ subject' = Less(subject)
    /\ rs' = [rs EXCEPT !.left = Less(@)]
    /\ req' = [q \in Requests |->
                  [req[q] EXCEPT !.age = IF Fetching(q) THEN @ + 1 ELSE @,
                                 !.read = IF req[q].pc \in {"lookup", "keep"}
                                          THEN More(@, SubjectTTL) ELSE @]]
    /\ UNCHANGED <<kind, opaque, usable, notice>>

Next ==
    \/ \E q \in Requests :
        \/ RsHit(q) \/ RsMiss(q) \/ RsTimeout(q) \/ RsStore(q) \/ Done(q)
        \/ AsCacheGet(q) \/ CheckDirect(q) \/ SubjectCacheGet(q)
        \/ SubjectLookup(q) \/ SubjectKeep(q) \/ AsCacheSet(q)
    \/ Revoke \/ InvalidateSubject \/ PurgeIntrospectCache \/ LoseNotice \/ Restore \/ Tick

Spec == Init /\ [][Next]_vars

-----------------------------------------------------------------------------
(* However the lookups, the caches and the notices interleave, a request   *)
(* that arrives when the token has been revoked for as long as all the     *)
(* windows together is refused: the resource server's cache, one fetch,    *)
(* and the subject cache or the kept answer. It holds because a subject    *)
(* entry carries the time before its lookup, and because a kept answer is  *)
(* checked again for everything but the token's own row.                   *)
StalenessBounded ==
    \A q \in Requests : At(q, "done") /\ req[q].active => req[q].since < Lag

(* An invalidation that met no lookup in flight is complete: a fetch that  *)
(* begins after it is answered inactive.                                   *)
CleanNoticeHolds ==
    \A q \in Requests : At(q, "reply") /\ req[q].late => ~req[q].active

(* Together: a revoked token is answered active only for a bounded time,   *)
(* and not at all after a notice that no lookup overlapped.                *)
AnswersExpire == TypeOK /\ StalenessBounded /\ CleanNoticeHolds
=============================================================================
