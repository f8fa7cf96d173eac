---------------------------- MODULE SignInProofs ----------------------------
(***************************************************************************)
(* What sign-in keeps for every number of requests, sessions, passwords    *)
(* and proofs: how far the session cap can be passed, how many guesses a   *)
(* second factor takes, that a proof takes effect once, and what is left   *)
(* after the account was blocked or its password replaced.                 *)
(***************************************************************************)
EXTENDS SignIn, TLAPS

\* A session is picked for eviction before its request counts, and the session that is to be
\* promoted does not count yet. The requests that have passed the cap check, and what each set W of
\* them still takes out of the live sessions: whichever of them finish first, there is room.
Approved == {q \in Requests : req[q].pc \in {"evict", "create", "promote"}}
Leaving(W) == UNION {req[q].evict \cup {req[q].sid} : q \in W}

CapInv ==
  \A W \in SUBSET Approved :
    Cardinality(LiveFull \ Leaving(W)) + Cardinality(W) <= CapMax + Cardinality(Requests) - 1

\* The guesses still to come at session s, and the ones that are about to revoke it.
Guessing(s) == {q \in Requests : At(q, "code") /\ req[q].sid = s}
Guessed(s) == {q \in Requests : At(q, "guessed") /\ req[q].sid = s}

GuessAt(s) ==
  /\ sess[s].fails <= sess[s].guesses
  /\ sess[s].guesses + Cardinality(Guessing(s)) <= MaxFailures + Cardinality(Requests) - 1
  /\ Live(s) => /\ sess[s].guesses = sess[s].fails
                /\ sess[s].guesses <= MaxFailures - 1 + Cardinality(Guessed(s))

GuessInv == \A s \in Sids : GuessAt(s)

\* A proof is spent before the request that presented it goes on, and only that request holds it.
Spent(p) == IF p \in Tickets THEN ticket[p] = "used" ELSE p <= lastStep

ProofInv ==
  \A p \in Proofs :
    /\ uses[p] \in {0, 1} /\ (~Spent(p) => uses[p] = 0)
    /\ \A q \in Requests : req[q].proof = p => Spent(p) /\ uses[p] = 0
    /\ \A q1, q2 \in Requests : req[q1].proof = p /\ req[q2].proof = p => q1 = q2

\* What a request holds where.
Fresh == {"upgrade", "account", "factor", "pending", "create"}

PcInv ==
  \A q \in Requests :
    /\ req[q].pc # "evict" => req[q].evict = {}
    /\ req[q].pc \in Fresh => req[q].sid = 0
    /\ req[q].pc = "code" => req[q].sid \in Sids

\* While the account is blocked, a request past its last check is one the block overtook.
LateInv == Blocked => \A q \in Requests : PastGate(req[q]) => req[q].late

\* What is stale is there only while the change that made it so still has to revoke it.
StaleInv ==
  /\ (\E s \in Sids : Live(s) /\ sess[s].age = "stale")
       => \E q \in Requests : req[q].pc \in {"clear", "forget", "revoke"}
  /\ "stale" \in device => \E q \in Requests : req[q].pc \in {"clear", "forget"}

-----------------------------------------------------------------------------
(* Counting.                                                               *)

\* What the steps need to know of finite sets. It is a hypothesis of their lemmas, and CountingHolds
\* below proves it from the library, which would otherwise be in the way of every one of them.
Counting ==
  /\ IsFiniteSet({}) /\ Cardinality({}) = 0
  /\ IsFiniteSet(Sids)
  /\ \A S : IsFiniteSet(S) =>
       /\ Cardinality(S) \in Nat
       /\ \A T \in SUBSET S : /\ IsFiniteSet(T) /\ Cardinality(T) <= Cardinality(S)
                             /\ Cardinality(S \ T) = Cardinality(S) - Cardinality(T)
       /\ \A x : IsFiniteSet(S \cup {x}) /\ (x \notin S => Cardinality(S \cup {x}) = Cardinality(S) + 1)
  /\ \A X \in SUBSET Sids, n \in Nat :
       n <= Cardinality(X) => Cardinality(X \ Oldest(X, n)) <= Cardinality(X) - n

LEMMA Subsets ==
  ASSUME Counting, NEW S, IsFiniteSet(S)
  PROVE  /\ Cardinality(S) \in Nat
         /\ \A T \in SUBSET S : IsFiniteSet(T) /\ Cardinality(T) <= Cardinality(S)
BY Zenon DEF Counting

LEMMA Differences ==
  ASSUME Counting, NEW S, IsFiniteSet(S), NEW T \in SUBSET S
  PROVE  Cardinality(S \ T) = Cardinality(S) - Cardinality(T)
BY Zenon DEF Counting

LEMMA OneMore ==
  ASSUME Counting, NEW S, IsFiniteSet(S), NEW x
  PROVE  /\ IsFiniteSet(S \cup {x})
         /\ Cardinality(S \cup {x}) = IF x \in S THEN Cardinality(S) ELSE Cardinality(S) + 1
<1>1. IsFiniteSet(S \cup {x}) /\ (x \notin S => Cardinality(S \cup {x}) = Cardinality(S) + 1)
    BY Zenon DEF Counting
<1>2. x \in S => S \cup {x} = S
    BY Zenon
<1> QED BY <1>1, <1>2, Zenon

LEMMA OneLess ==
  ASSUME Counting, NEW S, IsFiniteSet(S), NEW x \in S
  PROVE  /\ IsFiniteSet(S \ {x})
         /\ Cardinality(S \ {x}) = Cardinality(S) - 1
<1>1. S \ {x} \in SUBSET S /\ (S \ {x}) \cup {x} = S /\ x \notin S \ {x}
    BY Zenon
<1>2. IsFiniteSet(S \ {x}) /\ Cardinality(S \ {x}) \in Nat
    BY <1>1, Subsets, Zenon
<1>3. Cardinality((S \ {x}) \cup {x}) = Cardinality(S \ {x}) + 1
    BY <1>1, <1>2, OneMore, Zenon
<1>4. Cardinality(S) = Cardinality(S \ {x}) + 1
    BY <1>1, <1>3, Zenon
<1> QED BY <1>2, <1>4

LEMMA RequestsFinite ==
  ASSUME Counting
  PROVE  /\ IsFiniteSet(Requests) /\ Cardinality(Requests) \in Nat
         /\ \A W \in SUBSET Requests :
              IsFiniteSet(W) /\ Cardinality(W) \in Nat /\ Cardinality(W) <= Cardinality(Requests)
BY SignInAssumption, Subsets, Zenon

LEMMA SidsFinite ==
  ASSUME Counting
  PROVE  \A X \in SUBSET Sids : IsFiniteSet(X) /\ Cardinality(X) \in Nat
<1>1. IsFiniteSet(Sids)
    BY Zenon DEF Counting
<1> QED BY <1>1, Subsets, Zenon

-----------------------------------------------------------------------------
(* Types of what the handlers write.                                       *)

LEMMA IdleType ==
  /\ Idle \in Request
  /\ Idle.pc = "idle" /\ Idle.sid = 0 /\ Idle.evict = {} /\ Idle.proof = NoProof
  /\ Idle.cred = NoPassword /\ Idle.late = FALSE /\ Idle.old = FALSE /\ Idle.reissue = FALSE
BY SignInAssumption DEF Idle, Request, PCs

LEMMA RequestUpdates ==
  ASSUME NEW q \in Request
  PROVE  /\ \A x \in PCs : [q EXCEPT !.pc = x] \in Request
         /\ \A x \in BOOLEAN : [q EXCEPT !.late = x] \in Request /\ [q EXCEPT !.old = x] \in Request
BY Zenon DEF Request

\* IssueGate lets a request pass.
Passed(q) == [q EXCEPT !.pc = "cap", !.late = FALSE]

LEMMA PassedType ==
  ASSUME NEW q \in Request
  PROVE  /\ Passed(q) \in Request
         /\ Passed(q).pc = "cap" /\ Passed(q).sid = q.sid /\ Passed(q).evict = q.evict
         /\ Passed(q).proof = q.proof
<1>1. Passed(q) \in Request
    BY Zenon DEF Passed, Request, PCs
<1>2. Passed(q).pc = "cap" /\ Passed(q).sid = q.sid /\ Passed(q).evict = q.evict
    BY Zenon DEF Passed, Request
<1>3. Passed(q).proof = q.proof
    BY Zenon DEF Passed, Request
<1> QED BY <1>1, <1>2, <1>3, Zenon

\* EnforceCap picks what to evict, and Evict goes on from there.
Evicting(q, gone) == [q EXCEPT !.pc = "evict", !.evict = gone]

LEMMA EvictingType ==
  ASSUME NEW q \in Request, NEW gone \in SUBSET Sids
  PROVE  /\ Evicting(q, gone) \in Request
         /\ Evicting(q, gone).pc = "evict" /\ Evicting(q, gone).sid = q.sid
         /\ Evicting(q, gone).evict = gone /\ Evicting(q, gone).proof = q.proof
         /\ Evicting(q, gone).late = q.late
<1>1. Evicting(q, gone) \in Request
    BY Zenon DEF Evicting, Request, PCs
<1>2. Evicting(q, gone).pc = "evict" /\ Evicting(q, gone).evict = gone
    BY Zenon DEF Evicting, Request
<1>3. Evicting(q, gone).sid = q.sid /\ Evicting(q, gone).proof = q.proof
    BY Zenon DEF Evicting, Request
<1>4. Evicting(q, gone).late = q.late
    BY Zenon DEF Evicting, Request
<1> QED BY <1>1, <1>2, <1>3, <1>4, Zenon

Evicted(q, s, to) == [q EXCEPT !.evict = @ \ {s}, !.pc = to]

LEMMA EvictedType ==
  ASSUME NEW q \in Request, NEW s, NEW to \in PCs
  PROVE  /\ Evicted(q, s, to) \in Request
         /\ Evicted(q, s, to).pc = to /\ Evicted(q, s, to).evict = q.evict \ {s}
         /\ Evicted(q, s, to).sid = q.sid /\ Evicted(q, s, to).proof = q.proof
         /\ Evicted(q, s, to).late = q.late
<1>1. Evicted(q, s, to) \in Request
    BY Zenon DEF Evicted, Request
<1>2. Evicted(q, s, to).pc = to /\ Evicted(q, s, to).evict = q.evict \ {s}
    BY Zenon DEF Evicted, Request
<1>3. Evicted(q, s, to).sid = q.sid /\ Evicted(q, s, to).proof = q.proof
    BY Zenon DEF Evicted, Request
<1>4. Evicted(q, s, to).late = q.late
    BY Zenon DEF Evicted, Request
<1> QED BY <1>1, <1>2, <1>3, <1>4, Zenon

LEMMA SessionUpdates ==
  ASSUME NEW s \in Session
  PROVE  /\ Revoked(s) \in Session
         /\ Revoked(s).state = "revoked" /\ Revoked(s).level = "full"
         /\ Revoked(s).guesses = s.guesses /\ Revoked(s).fails = s.fails
         /\ Aged(s) \in Session
         /\ Aged(s).state = s.state /\ Aged(s).level = s.level /\ Aged(s).late = s.late
         /\ Aged(s).guesses = s.guesses /\ Aged(s).fails = s.fails
BY Zenon DEF Session, Revoked, Aged, Ages

LEMMA NoSessionType ==
  ASSUME Counting
  PROVE  NoSession \in Session
BY RequestsFinite, SignInAssumption DEF NoSession, Session, Ages

LEMMA AllRevokedType ==
  ASSUME sess \in [Sids -> Session]
  PROVE  /\ AllRevoked \in [Sids -> Session]
         /\ \A s \in Sids : /\ AllRevoked[s].state # "live"
                            /\ AllRevoked[s].guesses = sess[s].guesses
                            /\ AllRevoked[s].fails = sess[s].fails
BY SessionUpdates DEF AllRevoked, Live

LEMMA StoreEffect ==
  ASSUME Counting, sess \in [Sids -> Session], req \in [Requests -> Request],
         NEW r \in Requests, NEW level \in {"full", "pending_2fa"}, Store(r, level)
  PROVE  \E s \in Sids :
           /\ sess[s].state = "none"
           /\ sess' \in [Sids -> Session]
           /\ sess'[s].state = "live" /\ sess'[s].level = level
           /\ sess'[s].guesses = 0 /\ sess'[s].fails = 0
           /\ sess'[s].late = req[r].late
           /\ sess'[s].age # "stale"
           /\ \A t \in Sids : t # s => sess'[t] = sess[t]
<1>1. PICK s \in Sids :
        /\ sess[s].state = "none"
        /\ sess' = [sess EXCEPT ![s] = [NoSession EXCEPT
                        !.state = "live", !.level = level, !.late = req[r].late,
                        !.age = IF req[r].old THEN "overlap" ELSE "fresh"]]
    BY Zenon DEF Store
<1> DEFINE new == [NoSession EXCEPT !.state = "live", !.level = level, !.late = req[r].late,
                        !.age = IF req[r].old THEN "overlap" ELSE "fresh"]
<1>2. req[r].late \in BOOLEAN
    BY Zenon DEF Request
<1>3. /\ new \in Session
      /\ new.state = "live" /\ new.level = level /\ new.guesses = 0 /\ new.fails = 0
      /\ new.late = req[r].late /\ new.age # "stale"
    BY <1>2, NoSessionType, Zenon DEF NoSession, Session, Ages
<1> HIDE DEF new
<1>4. sess' = [sess EXCEPT ![s] = new]
    BY <1>1, Zenon DEF new
<1>5. /\ sess' \in [Sids -> Session] /\ sess'[s] = new
      /\ \A t \in Sids : t # s => sess'[t] = sess[t]
    BY <1>3, <1>4, Zenon
<1> QED BY <1>1, <1>3, <1>5, Zenon

-----------------------------------------------------------------------------
(* What a step does to the requests: the one that takes it, and the others. *)

ReqOK == req \in [Requests -> Request]
Others(r) == \A q \in Requests : q # r => req'[q] = req[q]

\* Everything of request q but its history flags.
Same(q) ==
  /\ req'[q].pc = req[q].pc /\ req'[q].sid = req[q].sid /\ req'[q].evict = req[q].evict
  /\ req'[q].proof = req[q].proof /\ req'[q].cred = req[q].cred
  /\ req'[q].reissue = req[q].reissue

LEMMA FinishEffect ==
  ASSUME ReqOK, NEW r \in Requests, Finish(r)
  PROVE  ReqOK' /\ req'[r] = Idle /\ Others(r)
BY IdleType, Zenon DEF ReqOK, Finish, Others

LEMMA BeginEffect ==
  ASSUME ReqOK, NEW r \in Requests, NEW f \in Request, Begin(r, f)
  PROVE  ReqOK' /\ req[r] = Idle /\ req'[r] = f /\ Others(r)
BY Zenon DEF ReqOK, Begin, Others

LEMMA GotoEffect ==
  ASSUME ReqOK, NEW r \in Requests, NEW to \in PCs, Goto(r, to)
  PROVE  /\ ReqOK' /\ Others(r)
         /\ req'[r].pc = to /\ req'[r].sid = req[r].sid /\ req'[r].evict = req[r].evict
         /\ req'[r].proof = req[r].proof /\ req'[r].cred = req[r].cred
         /\ req'[r].reissue = req[r].reissue /\ req'[r].late = req[r].late
         /\ req'[r].old = req[r].old
<1>1. req[r] \in Request /\ [req[r] EXCEPT !.pc = to] \in Request
    BY RequestUpdates, Zenon DEF ReqOK
<1>2. req' = [req EXCEPT ![r] = [req[r] EXCEPT !.pc = to]]
    BY Zenon DEF Goto
<1>3. ReqOK' /\ Others(r) /\ req'[r] = [req[r] EXCEPT !.pc = to]
    BY <1>1, <1>2, Zenon DEF ReqOK, Others
<1> QED BY <1>1, <1>3, Zenon DEF Request

\* The records a handler starts with.
LEMMA BeginTypes ==
  /\ \A p \in Passwords, pc \in {"signup", "upgrade", "account"} :
       [Idle EXCEPT !.pc = pc, !.cred = p] \in Request
  /\ \A l \in Links : [Idle EXCEPT !.pc = "gate", !.proof = l] \in Request
  /\ \A s \in Sids, b \in BOOLEAN : [Idle EXCEPT !.pc = "code", !.sid = s, !.old = b] \in Request
  /\ \A t \in Resets, p \in Passwords :
       [Idle EXCEPT !.pc = "setpw", !.cred = p, !.proof = t] \in Request
  /\ \A p \in Passwords : [Idle EXCEPT !.pc = "setpw", !.cred = p, !.reissue = TRUE] \in Request
  /\ \A b \in BOOLEAN : [Idle EXCEPT !.pc = "remember", !.old = b] \in Request
  /\ \A b \in BOOLEAN : [Idle EXCEPT !.pc = "clear", !.reissue = b] \in Request
  /\ \A pc \in {"block", "revoke"} : [Idle EXCEPT !.pc = pc] \in Request
<1>1. \A p \in Passwords, pc \in {"signup", "upgrade", "account"} :
        [Idle EXCEPT !.pc = pc, !.cred = p] \in Request
    BY IdleType, Zenon DEF Idle, Request, PCs
<1>2. \A l \in Links : [Idle EXCEPT !.pc = "gate", !.proof = l] \in Request
    BY IdleType, Zenon DEF Idle, Request, PCs, Proofs, Tickets
<1>3. \A s \in Sids, b \in BOOLEAN : [Idle EXCEPT !.pc = "code", !.sid = s, !.old = b] \in Request
  <2>1. \A s \in Sids : s \in 0 .. MaxSessions
      BY SignInAssumption DEF Sids
  <2> QED BY <2>1, IdleType, Zenon DEF Idle, Request, PCs
<1>4. \A t \in Resets, p \in Passwords :
        [Idle EXCEPT !.pc = "setpw", !.cred = p, !.proof = t] \in Request
    BY IdleType, Zenon DEF Idle, Request, PCs, Proofs, Tickets
<1>5. \A p \in Passwords : [Idle EXCEPT !.pc = "setpw", !.cred = p, !.reissue = TRUE] \in Request
    BY IdleType, Zenon DEF Idle, Request, PCs
<1>6. \A b \in BOOLEAN : [Idle EXCEPT !.pc = "remember", !.old = b] \in Request
    BY IdleType, Zenon DEF Idle, Request, PCs
<1>7. \A b \in BOOLEAN : [Idle EXCEPT !.pc = "clear", !.reissue = b] \in Request
    BY IdleType, Zenon DEF Idle, Request, PCs
<1>8. \A pc \in {"block", "revoke"} : [Idle EXCEPT !.pc = pc] \in Request
    BY IdleType, Zenon DEF Idle, Request, PCs
<1> QED BY <1>1, <1>2, <1>3, <1>4, <1>5, <1>6, <1>7, <1>8, Zenon

-----------------------------------------------------------------------------
(* Frames: what is enough for a step to keep one of the invariants. A step *)
(* with all of them concerns none.                                         *)

CapFrame ==
  /\ LiveFull' \subseteq LiveFull
  /\ \A q \in Approved' :
       /\ q \in Approved
       /\ LiveFull' \cap (req[q].evict \cup {req[q].sid}) \subseteq req'[q].evict \cup {req'[q].sid}

GuessFrameAt(s) ==
  /\ sess'[s].guesses = sess[s].guesses /\ sess'[s].fails = sess[s].fails
  /\ Live(s)' => Live(s)
  /\ Guessing(s)' \subseteq Guessing(s) /\ Guessed(s) \subseteq Guessed(s)'

GuessFrame == \A s \in Sids : GuessFrameAt(s)

ProofFrame ==
  /\ UNCHANGED <<lastStep, uses>>
  /\ \A t \in Tickets : ticket'[t] = "used" <=> ticket[t] = "used"
  /\ \A q \in Requests : req'[q].proof \in {req[q].proof, NoProof}

Blocking(q) == req[q].pc = "block" \/ (req[q].pc = "revoke" /\ ~req[q].reissue)

LateFrame ==
  /\ Blocked' => Blocked
  /\ \A s \in Sids : Live(s)' => Live(s) /\ sess'[s].late = sess[s].late
  /\ \A q \in Requests :
       /\ PastGate(req[q])' => PastGate(req[q]) /\ req'[q].late = req[q].late
       /\ Blocking(q) => Blocking(q)'

StaleFrame ==
  /\ \A s \in Sids : Live(s)' /\ sess'[s].age = "stale" => Live(s) /\ sess[s].age = "stale"
  /\ "stale" \in device' => "stale" \in device
  /\ \A q \in Requests :
       /\ req[q].pc \in {"clear", "forget"} => req'[q].pc \in {"clear", "forget"}
       /\ req[q].pc = "revoke" => req'[q].pc = "revoke"

\* No session comes to life, and none changes but by ending.
Shrinks ==
  \A s \in Sids : \/ sess'[s] = sess[s]
                 \/ /\ sess'[s].state # "live"
                    /\ sess'[s].guesses = sess[s].guesses /\ sess'[s].fails = sess[s].fails

LEMMA CapHop ==
  ASSUME NEW r \in Requests, Others(r), Shrinks,
         req'[r].pc \notin {"evict", "create", "promote"}
  PROVE  CapFrame
BY Zenon DEF CapFrame, Others, Approved, LiveFull, Live, Shrinks

LEMMA GuessHop ==
  ASSUME NEW r \in Requests, Others(r), Shrinks, req'[r].pc # "code", req[r].pc # "guessed"
  PROVE  GuessFrame
BY Zenon DEF GuessFrame, GuessFrameAt, Guessing, Guessed, At, Others, Live, Shrinks

LEMMA ProofHop ==
  ASSUME NEW r \in Requests, Others(r), UNCHANGED <<ticket, lastStep, uses>>,
         req'[r].proof \in {req[r].proof, NoProof}
  PROVE  ProofFrame
BY Zenon DEF ProofFrame, Others

LEMMA LateHop ==
  ASSUME NEW r \in Requests, Others(r), Shrinks, Blocked' => Blocked,
         req[r].pc \notin {"block", "revoke"},
         PastGate(req'[r]) => PastGate(req[r]) /\ req'[r].late = req[r].late
  PROVE  LateFrame
BY Zenon DEF LateFrame, Others, Live, Shrinks, Blocking

LEMMA StaleHop ==
  ASSUME NEW r \in Requests, Others(r), Shrinks, "stale" \in device' => "stale" \in device,
         req[r].pc \notin {"forget", "revoke"}, req[r].pc = "clear" => req'[r].pc = "forget"
  PROVE  StaleFrame
BY Zenon DEF StaleFrame, Others, Live, Shrinks

\* Most steps move one request from a place to a place, and nothing else that matters.
Plain == CapFrame /\ GuessFrame /\ ProofFrame /\ LateFrame /\ StaleFrame

LEMMA PlainHop ==
  ASSUME NEW r \in Requests, Others(r), Shrinks, UNCHANGED <<ticket, lastStep, uses>>,
         "stale" \in device' => "stale" \in device, Blocked' => Blocked,
         req'[r].proof \in {req[r].proof, NoProof},
         req[r].pc \notin {"guessed", "forget", "revoke", "block"},
         req[r].pc = "clear" => req'[r].pc = "forget",
         req'[r].pc \notin {"evict", "create", "promote", "code"},
         PastGate(req'[r]) => PastGate(req[r]) /\ req'[r].late = req[r].late
  PROVE  Plain
<1>1. CapFrame
    BY CapHop, Zenon
<1>2. GuessFrame
    BY GuessHop, Zenon
<1>3. ProofFrame
    BY ProofHop, Zenon
<1>4. LateFrame
    BY LateHop, Zenon
<1>5. StaleFrame
    BY StaleHop, Zenon
<1> QED BY <1>1, <1>2, <1>3, <1>4, <1>5, Zenon DEF Plain

LEMMA CapKept ==
  ASSUME Counting, CapInv, CapFrame
  PROVE  CapInv'
<1> SUFFICES ASSUME NEW W \in SUBSET Approved'
             PROVE  Cardinality(LiveFull' \ Leaving(W)') + Cardinality(W)
                      <= CapMax + Cardinality(Requests) - 1
    BY Zenon DEF CapInv
<1>1. W \in SUBSET Approved
    BY Zenon DEF CapFrame
<1>2. \A q \in W :
        LiveFull' \cap (req[q].evict \cup {req[q].sid}) \subseteq req'[q].evict \cup {req'[q].sid}
    BY Zenon DEF CapFrame
<1>3. LiveFull' \ Leaving(W)' \in SUBSET (LiveFull \ Leaving(W))
  <2>1. LiveFull' \cap Leaving(W) \subseteq Leaving(W)'
      BY <1>2 DEF Leaving
  <2> QED BY <2>1, Zenon DEF CapFrame
<1>4. LiveFull \ Leaving(W) \in SUBSET Sids
    BY Zenon DEF LiveFull
<1>5. /\ Cardinality(LiveFull' \ Leaving(W)') <= Cardinality(LiveFull \ Leaving(W))
      /\ Cardinality(LiveFull' \ Leaving(W)') \in Nat
      /\ Cardinality(LiveFull \ Leaving(W)) \in Nat
    BY <1>3, <1>4, SidsFinite, Subsets, Zenon
<1>6. Cardinality(LiveFull \ Leaving(W)) + Cardinality(W) <= CapMax + Cardinality(Requests) - 1
    BY <1>1, Zenon DEF CapInv
<1>7. Cardinality(W) \in Nat /\ Cardinality(Requests) \in Nat /\ CapMax \in Nat
    BY <1>1, RequestsFinite, SignInAssumption, Zenon DEF Approved
<1> QED BY <1>5, <1>6, <1>7

\* The numbers of the guessing invariant are numbers.
LEMMA GuessNumbers ==
  ASSUME Counting, sess \in [Sids -> Session], NEW s \in Sids
  PROVE  /\ sess[s].guesses \in Nat /\ sess[s].fails \in Nat
         /\ sess[s].guesses <= MaxFailures + Cardinality(Requests)
         /\ sess[s].fails <= MaxFailures + Cardinality(Requests)
         /\ IsFiniteSet(Guessing(s)) /\ IsFiniteSet(Guessed(s))
         /\ Cardinality(Guessing(s)) \in Nat /\ Cardinality(Guessed(s)) \in Nat
         /\ Cardinality(Requests) \in Nat /\ MaxFailures \in Nat /\ MaxFailures >= 1
<1>1. sess[s].guesses \in 0 .. MaxFailures + Cardinality(Requests)
    BY Zenon DEF Session
<1>2. sess[s].fails \in 0 .. MaxFailures + Cardinality(Requests)
    BY Zenon DEF Session
<1>3. Guessing(s) \in SUBSET Requests /\ Guessed(s) \in SUBSET Requests
    BY Zenon DEF Guessing, Guessed
<1>4. Cardinality(Requests) \in Nat /\ MaxFailures \in Nat /\ MaxFailures >= 1
    BY RequestsFinite, SignInAssumption
<1>5. IsFiniteSet(Guessing(s)) /\ Cardinality(Guessing(s)) \in Nat
    BY <1>3, RequestsFinite, Zenon
<1>6. IsFiniteSet(Guessed(s)) /\ Cardinality(Guessed(s)) \in Nat
    BY <1>3, RequestsFinite, Zenon
<1> QED BY <1>1, <1>2, <1>4, <1>5, <1>6

\* The numbers, of this state and of the next one, without the sets behind them.
LEMMA GuessKeptAt ==
  ASSUME Counting, sess \in [Sids -> Session], NEW s \in Sids, GuessAt(s), GuessFrameAt(s)
  PROVE  GuessAt(s)'
<1>1. /\ Guessing(s)' \in SUBSET Guessing(s) /\ Guessed(s) \in SUBSET Guessed(s)'
      /\ Guessing(s) \in SUBSET Requests /\ Guessed(s)' \in SUBSET Requests
    BY Zenon DEF GuessFrameAt, Guessing, Guessed
<1>2. /\ Cardinality(Guessing(s)') \in Nat /\ Cardinality(Guessing(s)') <= Cardinality(Guessing(s))
      /\ Cardinality(Guessed(s)') \in Nat /\ Cardinality(Guessed(s)) <= Cardinality(Guessed(s)')
  <2>1. IsFiniteSet(Guessing(s)) /\ IsFiniteSet(Guessed(s)')
      BY <1>1, RequestsFinite, Zenon
  <2> QED BY <1>1, <2>1, Subsets, Zenon
<1>3. /\ sess[s].fails <= sess[s].guesses
      /\ sess[s].guesses + Cardinality(Guessing(s)) <= MaxFailures + Cardinality(Requests) - 1
      /\ Live(s) => /\ sess[s].guesses = sess[s].fails
                    /\ sess[s].guesses <= MaxFailures - 1 + Cardinality(Guessed(s))
    BY Zenon DEF GuessAt
<1>4. /\ sess'[s].guesses = sess[s].guesses /\ sess'[s].fails = sess[s].fails
      /\ Live(s)' => Live(s)
    BY Zenon DEF GuessFrameAt
<1>5. sess'[s].guesses + Cardinality(Guessing(s)') <= MaxFailures + Cardinality(Requests) - 1
    BY <1>2, <1>3, <1>4, GuessNumbers
<1>6. Live(s)' => sess'[s].guesses <= MaxFailures - 1 + Cardinality(Guessed(s)')
    BY <1>2, <1>3, <1>4, GuessNumbers
<1> QED BY <1>3, <1>4, <1>5, <1>6, Zenon DEF GuessAt

LEMMA GuessKept ==
  ASSUME Counting, sess \in [Sids -> Session], GuessInv, GuessFrame
  PROVE  GuessInv'
BY GuessKeptAt, Zenon DEF GuessInv, GuessFrame

\* A session without guesses is within every bound.
LEMMA GuessNone ==
  ASSUME Counting, NEW s \in Sids, sess'[s].guesses = 0, sess'[s].fails = 0
  PROVE  GuessAt(s)'
<1>1. Guessing(s)' \in SUBSET Requests /\ Guessed(s)' \in SUBSET Requests
    BY Zenon DEF Guessing, Guessed
<1>2. /\ Cardinality(Guessing(s)') \in Nat /\ Cardinality(Guessing(s)') <= Cardinality(Requests)
      /\ Cardinality(Guessed(s)') \in Nat /\ Cardinality(Requests) \in Nat
      /\ MaxFailures \in Nat /\ MaxFailures >= 1
    BY <1>1, RequestsFinite, SignInAssumption
<1> QED BY <1>2 DEF GuessAt

LEMMA NoProofNoProof == NoProof \notin Proofs
BY SignInAssumption DEF NoProof, Proofs, Tickets, Steps

LEMMA ProofKept ==
  ASSUME ProofInv, ProofFrame
  PROVE  ProofInv'
<1>1. \A p \in Proofs : Spent(p)' <=> Spent(p)
    BY Zenon DEF ProofFrame, Spent
<1>2. /\ \A p \in Proofs, q \in Requests : req'[q].proof = p => req[q].proof = p
      /\ uses' = uses
    BY NoProofNoProof, Zenon DEF ProofFrame
<1> QED BY <1>1, <1>2 DEF ProofInv

LEMMA LateKept ==
  ASSUME LateInv, BlockedMeansOut, LateFrame
  PROVE  LateInv' /\ BlockedMeansOut'
<1>1. LateInv'
    BY Zenon DEF LateInv, LateFrame
<1>2. BlockedMeansOut'
  <2> SUFFICES ASSUME Blocked',
                      \A q \in Requests : ~At(q, "block")' /\ ~(At(q, "revoke")' /\ ~req'[q].reissue),
                      NEW s \in Sids, Live(s)'
               PROVE  sess'[s].late
      BY Zenon DEF BlockedMeansOut
  <2>1. \A q \in Requests : ~Blocking(q)'
      BY Zenon DEF At, Blocking
  <2>2. \A q \in Requests : ~Blocking(q)
      BY <2>1, Zenon DEF LateFrame
  <2>3. Blocked /\ Live(s) /\ sess'[s].late = sess[s].late
      BY Zenon DEF LateFrame
  <2> QED BY <2>2, <2>3, Zenon DEF BlockedMeansOut, Blocking, At
<1> QED BY <1>1, <1>2, Zenon

LEMMA StaleKept ==
  ASSUME StaleInv, StaleFrame
  PROVE  StaleInv'
BY Zenon DEF StaleInv, StaleFrame

-----------------------------------------------------------------------------
(* The steps that concern no invariant but the types.                      *)

LEMMA PcHop ==
  ASSUME PcInv, NEW r \in Requests, Others(r),
         req'[r].pc # "evict" => req'[r].evict = {},
         req'[r].pc \in Fresh => req'[r].sid = 0,
         req'[r].pc = "code" => req'[r].sid \in Sids
  PROVE  PcInv'
BY Zenon DEF PcInv, Others

AcctOK == acct \in [exists : BOOLEAN, password : Passwords \cup {NoPassword},
                    legacy : BOOLEAN, disabled : BOOLEAN, mustChange : BOOLEAN]

LEMMA Types ==
  ASSUME TypeOK
  PROVE  ReqOK /\ AcctOK /\ sess \in [Sids -> Session]
BY Zenon DEF TypeOK, ReqOK, AcctOK

LEMMA AcctUpdates ==
  ASSUME AcctOK
  PROVE  /\ acct' = [acct EXCEPT !.exists = TRUE] => AcctOK' /\ (Blocked' <=> Blocked)
         /\ \A p \in Passwords \cup {NoPassword} :
              acct' = [acct EXCEPT !.password = p, !.legacy = FALSE] => AcctOK' /\ (Blocked' <=> Blocked)
         /\ acct' = [acct EXCEPT !.mustChange = FALSE] => AcctOK' /\ (Blocked' => Blocked)
         /\ acct' = [acct EXCEPT !.disabled = FALSE] => AcctOK' /\ (Blocked' => Blocked)
         /\ acct' = [acct EXCEPT !.mustChange = TRUE] => AcctOK'
         /\ acct' = [acct EXCEPT !.disabled = TRUE] => AcctOK'
         /\ acct' = acct => AcctOK' /\ (Blocked' <=> Blocked)
BY Zenon DEF AcctOK, Blocked

Moved == ReqOK' /\ AcctOK' /\ PcInv'

\* A handler that starts, goes on or ends with nothing but its own record changed.
LEMMA BeginPlain ==
  ASSUME TypeOK, PcInv, NEW r \in Requests, NEW f \in Request, Begin(r, f),
         UNCHANGED <<sess, ticket, lastStep, uses, device>>, AcctOK', Blocked' => Blocked,
         f.evict = {}, f.proof = NoProof, f.sid = 0,
         f.pc \notin {"evict", "create", "promote", "code", "factor", "pending", "cap"}
  PROVE  Plain /\ Moved
<1>1. ReqOK' /\ req[r] = Idle /\ req'[r] = f /\ Others(r)
    BY Types, BeginEffect, Zenon
<1>2. Plain
    BY <1>1, IdleType, PlainHop, Zenon DEF PastGate, Shrinks
<1> QED BY <1>1, <1>2, PcHop, Zenon DEF Moved

LEMMA GotoPlain ==
  ASSUME TypeOK, PcInv, NEW r \in Requests, NEW to \in PCs, Goto(r, to),
         UNCHANGED <<sess, ticket, lastStep, uses, device>>, AcctOK', Blocked' => Blocked,
         req[r].pc \notin {"evict", "guessed", "forget", "revoke", "block"},
         req[r].pc = "clear" => to = "forget",
         to \notin {"evict", "create", "promote", "code", "upgrade", "factor", "cap"},
         to = "pending" => req[r].pc = "factor", to = "account" => req[r].pc = "upgrade"
  PROVE  Plain /\ Moved
<1>1. /\ ReqOK' /\ Others(r) /\ req'[r].pc = to /\ req'[r].proof = req[r].proof
      /\ req'[r].evict = req[r].evict /\ req'[r].sid = req[r].sid /\ req'[r].late = req[r].late
    BY Types, GotoEffect, Zenon
<1>2. Plain
    BY <1>1, PlainHop, Zenon DEF PastGate, Shrinks
<1>3. req[r].evict = {} /\ (to \in {"pending", "account"} => req[r].sid = 0)
    BY Zenon DEF PcInv, Fresh
<1>4. to \in Fresh => req'[r].sid = 0
    BY <1>1, <1>3, Zenon DEF Fresh
<1>5. PcInv'
    BY <1>1, <1>3, <1>4, PcHop, Zenon
<1> QED BY <1>1, <1>2, <1>5, Zenon DEF Moved

LEMMA FinishPlain ==
  ASSUME TypeOK, PcInv, NEW r \in Requests, Finish(r),
         UNCHANGED <<sess, ticket, lastStep, uses, acct>>, "stale" \in device' => "stale" \in device,
         req[r].pc \notin {"guessed", "clear", "forget", "revoke", "block"}
  PROVE  Plain /\ Moved
<1>1. ReqOK' /\ req'[r] = Idle /\ Others(r)
    BY Types, FinishEffect, Zenon
<1>2. AcctOK' /\ (Blocked' => Blocked)
    BY Types, AcctUpdates, Zenon
<1>3. Plain
    BY <1>1, <1>2, IdleType, PlainHop, Zenon DEF PastGate, Shrinks
<1> QED BY <1>1, <1>2, <1>3, IdleType, PcHop, Zenon DEF Moved, Fresh

LEMMA PlainSteps ==
  ASSUME TypeOK, PcInv, NEW r \in Requests,
         \/ \E p \in Passwords : SignupCreate(r, p)
         \/ SignupPassword(r) \/ SigninCheck(r) \/ UpgradeHash(r) \/ ReadFactor(r)
         \/ NoSecret(r) \/ RememberDevice(r)
         \/ \E s \in Sids, p \in Passwords : ChangeCheck(r, s, p)
         \/ ClearMustChange(r) \/ BlockUntrust(r)
  PROVE  Plain /\ Moved
<1>0. req[r].cred \in Passwords \cup {NoPassword}
    BY Types, Zenon DEF ReqOK, Request
<1>1. ASSUME NEW p \in Passwords, SignupCreate(r, p) PROVE Plain /\ Moved
  <2> DEFINE f == [Idle EXCEPT !.pc = "signup", !.cred = p]
  <2>1. f \in Request /\ f.pc = "signup" /\ f.proof = NoProof /\ f.evict = {} /\ f.sid = 0
      BY BeginTypes, Zenon DEF Idle
  <2>2. Begin(r, f) /\ UNCHANGED <<sess, ticket, lastStep, uses, device>>
      BY <1>1, Zenon DEF SignupCreate
  <2>3. AcctOK' /\ (Blocked' => Blocked)
      BY <1>1, Types, AcctUpdates, Zenon DEF SignupCreate
  <2> HIDE DEF f
  <2> QED BY <2>1, <2>2, <2>3, BeginPlain, Zenon
<1>2. CASE SignupPassword(r)
  <2>1. AcctOK' /\ (Blocked' => Blocked)
      BY <1>0, <1>2, Types, AcctUpdates, Zenon DEF SignupPassword
  <2> QED BY <1>2, <2>1, GotoPlain, Zenon DEF SignupPassword, At, PCs
<1>3. CASE SigninCheck(r)
  <2> DEFINE f == [Idle EXCEPT !.pc = IF acct.legacy THEN "upgrade" ELSE "account",
                               !.cred = acct.password]
  <2>1. acct.password \in Passwords
      BY <1>3, Types, Zenon DEF AcctOK, SigninCheck
  <2>2. /\ f \in Request /\ f.proof = NoProof /\ f.evict = {} /\ f.sid = 0 /\ f.pc \in {"upgrade", "account"}
      BY <2>1, BeginTypes, Zenon DEF Idle
  <2>3. Begin(r, f) /\ UNCHANGED <<sess, ticket, lastStep, uses, device, acct>>
      BY <1>3, Zenon DEF SigninCheck
  <2>4. AcctOK' /\ (Blocked' => Blocked)
      BY <2>3, Types, AcctUpdates, Zenon
  <2> HIDE DEF f
  <2> QED BY <2>2, <2>3, <2>4, BeginPlain, Zenon
<1>4. CASE UpgradeHash(r)
  <2>1. AcctOK' /\ (Blocked' => Blocked)
      BY <1>0, <1>4, Types, AcctUpdates, Zenon DEF UpgradeHash
  <2> QED BY <1>4, <2>1, GotoPlain, Zenon DEF UpgradeHash, At, PCs
<1>5. CASE ReadFactor(r)
  <2>1. AcctOK' /\ (Blocked' => Blocked)
      BY <1>5, Types, AcctUpdates, Zenon DEF ReadFactor
  <2>2. /\ req[r].pc = "factor" /\ UNCHANGED <<sess, ticket, lastStep, uses, device>>
        /\ Goto(r, "pending") \/ Goto(r, "gate")
      BY <1>5, Zenon DEF ReadFactor, At
  <2> QED BY <2>1, <2>2, GotoPlain, Zenon DEF PCs
<1>6. CASE NoSecret(r)
    BY <1>6, FinishPlain, Zenon DEF NoSecret, At
<1>7. CASE RememberDevice(r)
    BY <1>7, FinishPlain, Zenon DEF RememberDevice, At
<1>8. ASSUME NEW s \in Sids, NEW p \in Passwords, ChangeCheck(r, s, p) PROVE Plain /\ Moved
  <2> DEFINE f == [Idle EXCEPT !.pc = "setpw", !.cred = p, !.reissue = TRUE]
  <2>1. f \in Request /\ f.pc = "setpw" /\ f.proof = NoProof /\ f.evict = {} /\ f.sid = 0
      BY BeginTypes, Zenon DEF Idle
  <2>2. Begin(r, f) /\ UNCHANGED <<sess, ticket, lastStep, uses, device, acct>>
      BY <1>8, Zenon DEF ChangeCheck
  <2>3. AcctOK' /\ (Blocked' => Blocked)
      BY <2>2, Types, AcctUpdates, Zenon
  <2> HIDE DEF f
  <2> QED BY <2>1, <2>2, <2>3, BeginPlain, Zenon
<1>9. CASE ClearMustChange(r)
  <2>1. AcctOK' /\ (Blocked' => Blocked)
      BY <1>9, Types, AcctUpdates, Zenon DEF ClearMustChange
  <2> QED BY <1>9, <2>1, GotoPlain, Zenon DEF ClearMustChange, At, PCs
<1>10. CASE BlockUntrust(r)
    BY <1>10, FinishPlain, Zenon DEF BlockUntrust, At
<1> QED BY <1>1, <1>2, <1>3, <1>4, <1>5, <1>6, <1>7, <1>8, <1>9, <1>10, Zenon

LEMMA RevokedShrinks ==
  ASSUME sess \in [Sids -> Session]
  PROVE  /\ \A s : sess' = [sess EXCEPT ![s] = Revoked(@)]
                     => Shrinks /\ sess' \in [Sids -> Session]
         /\ sess' = AllRevoked => Shrinks /\ sess' \in [Sids -> Session]
         /\ \A s \in Sids : sess' = [AllRevoked EXCEPT ![s] = sess[s]]
                              => Shrinks /\ sess' \in [Sids -> Session]
         /\ sess' = sess => Shrinks
BY SessionUpdates, AllRevokedType DEF Shrinks

\* The steps nobody's handler in flight takes: mail, enrolment, lifting a block, revocations.
LEMMA PlainGlobal ==
  ASSUME TypeOK, PcInv,
         \/ \E t \in Links \cup Resets : Mail(t)
         \/ FinishEnrollment \/ DeleteTOTP
         \/ EnableUser \/ UnsetMustChange \/ RevokeTrustedDevices
         \/ \E s \in Sids : RevokeSession(s) \/ RevokeOtherSessions(s)
  PROVE  Plain /\ Moved /\ sess' \in [Sids -> Session]
<1>1. UNCHANGED <<req, lastStep, uses>> /\ ("stale" \in device' => "stale" \in device)
    BY Zenon DEF Mail, FinishEnrollment, DeleteTOTP, EnableUser, UnsetMustChange, RevokeTrustedDevices,
           RevokeSession, RevokeOtherSessions
<1>2. AcctOK' /\ (Blocked' => Blocked)
  <2>1. \/ acct' = acct
        \/ acct' = [acct EXCEPT !.disabled = FALSE]
        \/ acct' = [acct EXCEPT !.mustChange = FALSE]
      BY Zenon DEF Mail, FinishEnrollment, DeleteTOTP, EnableUser, UnsetMustChange, RevokeTrustedDevices,
             RevokeSession, RevokeOtherSessions
  <2> QED BY <2>1, Types, AcctUpdates, Zenon
<1>3. Shrinks /\ sess' \in [Sids -> Session]
  <2>1. \/ sess' = sess
        \/ \E s \in Sids : sess' = [sess EXCEPT ![s] = Revoked(@)]
        \/ \E s \in Sids : sess' = [AllRevoked EXCEPT ![s] = sess[s]]
      BY Zenon DEF Mail, FinishEnrollment, DeleteTOTP, EnableUser, UnsetMustChange, RevokeTrustedDevices,
             RevokeSession, RevokeOtherSessions
  <2> QED BY <2>1, Types, RevokedShrinks, Zenon
<1>4. \A t \in Tickets : ticket'[t] = "used" <=> ticket[t] = "used"
  <2>0. ticket \in [Tickets -> {"none", "open", "used"}]
      BY Zenon DEF TypeOK
  <2>1. ASSUME NEW u \in Links \cup Resets, Mail(u), NEW t \in Tickets
        PROVE  ticket'[t] = "used" <=> ticket[t] = "used"
      BY <2>0, <2>1, Zenon DEF Mail, Tickets
  <2>2. CASE FinishEnrollment
      BY <2>0, <2>2, Zenon DEF FinishEnrollment
  <2>3. CASE ticket' = ticket
      BY <2>3, Zenon
  <2> QED BY <2>1, <2>2, <2>3, Zenon DEF DeleteTOTP, EnableUser, UnsetMustChange, RevokeTrustedDevices,
             RevokeSession, RevokeOtherSessions
<1>5. CapFrame
    BY <1>1, <1>3, Zenon DEF CapFrame, Shrinks, Approved, LiveFull, Live
<1>6. GuessFrame
    BY <1>1, <1>3, Zenon DEF GuessFrame, GuessFrameAt, Guessing, Guessed, At, Shrinks, Live
<1>7. ProofFrame
    BY <1>1, <1>4, Zenon DEF ProofFrame
<1>8. LateFrame
    BY <1>1, <1>2, <1>3, Zenon DEF LateFrame, Shrinks, Live, Blocking, PastGate
<1>9. StaleFrame
    BY <1>1, <1>3, Zenon DEF StaleFrame, Shrinks, Live
<1>10. Moved
    BY <1>1, <1>2, Types, Zenon DEF Moved, ReqOK, PcInv
<1> QED BY <1>3, <1>5, <1>6, <1>7, <1>8, <1>9, <1>10, Zenon DEF Plain

-----------------------------------------------------------------------------
(* The gate of a sign-in: a request that passes it found no block.         *)

LEMMA NotBlocked ==
  ASSUME ~Blocked'
  PROVE  LateInv' /\ BlockedMeansOut'
BY Zenon DEF LateInv, BlockedMeansOut

LEMMA GateSteps ==
  ASSUME TypeOK, PcInv, LateInv, BlockedMeansOut, NEW r \in Requests, IssueGate(r) \/ CheckAccount(r)
  PROVE  /\ CapFrame /\ GuessFrame /\ ProofFrame /\ StaleFrame /\ Moved
         /\ LateInv' /\ BlockedMeansOut'
<1>1. /\ req[r].pc \in {"gate", "account"}
      /\ UNCHANGED <<acct, sess, ticket, lastStep, uses, device>>
    BY Zenon DEF IssueGate, CheckAccount, At
<1>2. CASE Finish(r)
  <2>1. Plain /\ Moved
      BY <1>1, <1>2, FinishPlain, Zenon
  <2> QED BY <2>1, LateKept, Zenon DEF Plain
<1>3. CASE /\ ~Blocked
           /\ \/ req[r].pc = "gate" /\ req' = [req EXCEPT ![r].pc = "cap", ![r].late = FALSE]
              \/ req[r].pc = "account" /\ Goto(r, "factor")
  <2>1. AcctOK' /\ ~Blocked' /\ Shrinks
      BY <1>1, <1>3, Types, AcctUpdates, RevokedShrinks, Zenon
  <2>2. /\ ReqOK' /\ Others(r) /\ req'[r].proof = req[r].proof /\ req'[r].evict = req[r].evict
        /\ req'[r].sid = req[r].sid
        /\ req'[r].pc \in {"cap", "factor"} /\ (req'[r].pc = "factor" => req[r].pc = "account")
    <3>1. CASE req[r].pc = "account" /\ Goto(r, "factor")
        BY <3>1, Types, GotoEffect, Zenon DEF PCs
    <3>2. CASE req[r].pc = "gate" /\ req' = [req EXCEPT ![r].pc = "cap", ![r].late = FALSE]
      <4>1. req[r] \in Request /\ req' = [req EXCEPT ![r] = Passed(req[r])]
          BY <3>2, Types, Zenon DEF ReqOK, Passed
      <4>2. ReqOK' /\ Others(r) /\ req'[r] = Passed(req[r])
          BY <4>1, PassedType, Types, Zenon DEF ReqOK, Others
      <4> QED BY <4>1, <4>2, PassedType, Zenon
    <3> QED BY <1>3, <3>1, <3>2, Zenon
  <2>3. CapFrame /\ GuessFrame /\ ProofFrame /\ StaleFrame
      BY <1>1, <2>1, <2>2, CapHop, GuessHop, ProofHop, StaleHop, Zenon
  <2>4. req[r].evict = {} /\ (req[r].pc = "account" => req[r].sid = 0)
      BY <1>1, Zenon DEF PcInv, Fresh
  <2>5. PcInv'
      BY <2>2, <2>4, PcHop, Zenon DEF Fresh
  <2> QED BY <2>1, <2>2, <2>3, <2>5, NotBlocked, Zenon DEF Moved
<1> QED BY <1>1, <1>2, <1>3, Zenon DEF IssueGate, CheckAccount, At

-----------------------------------------------------------------------------
(* The session cap.                                                        *)

\* A request joins those past the check when what it saw, less what it takes out, is below the cap:
\* that is room for itself and, one each, for all the others.
LEMMA CapJoin ==
  ASSUME Counting, CapInv, NEW r \in Requests, Others(r), sess' = sess,
         Cardinality(LiveFull \ (req'[r].evict \cup {req'[r].sid})) <= CapMax - 1
  PROVE  CapInv'
<1> SUFFICES ASSUME NEW W \in SUBSET Approved'
             PROVE  Cardinality(LiveFull' \ Leaving(W)') + Cardinality(W)
                      <= CapMax + Cardinality(Requests) - 1
    BY Zenon DEF CapInv
<1>1. LiveFull' = LiveFull
    BY Zenon DEF LiveFull, Live
<1>2. CASE r \notin W
  <2>1. \A q \in W : req'[q] = req[q] /\ q \in Approved
      BY <1>2, Zenon DEF Approved, Others
  <2>2. W \in SUBSET Approved /\ Leaving(W)' = Leaving(W)
      BY <2>1, Zenon DEF Leaving
  <2> QED BY <1>1, <2>2, Zenon DEF CapInv
<1>3. CASE r \in W
  <2>1. LiveFull' \ Leaving(W)' \in SUBSET (LiveFull \ (req'[r].evict \cup {req'[r].sid}))
      BY <1>1, <1>3, Zenon DEF Leaving
  <2>2. LiveFull \ (req'[r].evict \cup {req'[r].sid}) \in SUBSET Sids
      BY Zenon DEF LiveFull
  <2>3. /\ Cardinality(LiveFull' \ Leaving(W)') <= CapMax - 1
        /\ Cardinality(LiveFull' \ Leaving(W)') \in Nat
    <3> DEFINE A == LiveFull' \ Leaving(W)'
               B == LiveFull \ (req'[r].evict \cup {req'[r].sid})
    <3>1. A \in SUBSET B /\ B \in SUBSET Sids /\ Cardinality(B) <= CapMax - 1
        BY <2>1, <2>2, Zenon
    <3> HIDE DEF A, B
    <3>2. IsFiniteSet(B) /\ Cardinality(B) \in Nat /\ Cardinality(A) \in Nat
        BY <3>1, SidsFinite, Zenon
    <3>3. Cardinality(A) <= Cardinality(B)
        BY <3>1, <3>2, Subsets, Zenon
    <3>4. Cardinality(A) <= CapMax - 1 /\ Cardinality(A) \in Nat
        BY <3>1, <3>2, <3>3, SignInAssumption
    <3> QED BY <3>4, Zenon DEF A
  <2>4. Cardinality(W) \in Nat /\ Cardinality(Requests) \in Nat /\ Cardinality(W) <= Cardinality(Requests)
      BY RequestsFinite, Zenon DEF Approved
  <2> QED BY <2>3, <2>4, SignInAssumption
<1> QED BY <1>2, <1>3, Zenon

\* A request leaves those past the check with the one session it had room for.
LEMMA CapLeave ==
  ASSUME Counting, CapInv, NEW r \in Approved, Others(r), r \notin Approved', req[r].evict = {},
         NEW new, LiveFull' \subseteq LiveFull \cup {new},
         req[r].sid \in Sids => req[r].sid = new
  PROVE  CapInv'
<1> SUFFICES ASSUME NEW W \in SUBSET Approved'
             PROVE  Cardinality(LiveFull' \ Leaving(W)') + Cardinality(W)
                      <= CapMax + Cardinality(Requests) - 1
    BY Zenon DEF CapInv
<1> DEFINE V == W \cup {r}
           A == LiveFull' \ Leaving(W)'
           B == LiveFull \ Leaving(V)
<1>1. /\ W \in SUBSET Requests /\ r \notin W /\ V \in SUBSET Approved
      /\ \A q \in W : req'[q] = req[q]
    BY Zenon DEF Approved, Others
<1>2. A \in SUBSET (B \cup {new})
  <2> SUFFICES ASSUME NEW x \in A, x # new PROVE x \in B
      BY Zenon
  <2>1. x \in LiveFull /\ x \in Sids /\ x \notin Leaving(W)'
      BY Zenon DEF LiveFull
  <2>2. \A q \in W : x \notin req[q].evict /\ x # req[q].sid
      BY <1>1, <2>1 DEF Leaving
  <2>3. x \notin req[r].evict /\ x # req[r].sid
      BY <2>1, Zenon
  <2> QED BY <2>1, <2>2, <2>3 DEF Leaving
<1>3. B \in SUBSET Sids
    BY Zenon DEF LiveFull
<1>4. Cardinality(B) + Cardinality(V) <= CapMax + Cardinality(Requests) - 1
    BY <1>1, Zenon DEF CapInv
<1> HIDE DEF A, B
<1>5. IsFiniteSet(B) /\ Cardinality(B) \in Nat
    BY <1>3, SidsFinite, Zenon
<1>6. Cardinality(A) \in Nat /\ Cardinality(A) <= Cardinality(B) + 1
  <2>1. IsFiniteSet(B \cup {new}) /\ Cardinality(B \cup {new}) <= Cardinality(B) + 1
    <3>1. /\ IsFiniteSet(B \cup {new})
          /\ Cardinality(B \cup {new}) = IF new \in B THEN Cardinality(B) ELSE Cardinality(B) + 1
        BY <1>5, OneMore, Zenon
    <3> QED BY <1>5, <3>1
  <2> QED BY <1>2, <1>5, <2>1, Subsets
<1>7. Cardinality(V) = Cardinality(W) + 1 /\ Cardinality(W) \in Nat /\ Cardinality(Requests) \in Nat
    BY <1>1, RequestsFinite, OneMore, Zenon
<1>8. Cardinality(A) + Cardinality(W) <= CapMax + Cardinality(Requests) - 1
  <2> HIDE DEF V
  <2> QED BY <1>4, <1>5, <1>6, <1>7, SignInAssumption
<1> QED BY <1>8, Zenon DEF A

LEMMA ListedRoom ==
  ASSUME Counting, NEW r \in Requests
  PROVE  /\ Listed(r) \in SUBSET Sids /\ Cardinality(Listed(r)) \in Nat
         /\ Over(Listed(r)) \in Int
         /\ Over(Listed(r)) <= 0 => Cardinality(Listed(r)) <= CapMax - 1
         /\ Over(Listed(r)) > 0
              => Cardinality(Listed(r) \ Oldest(Listed(r), Over(Listed(r)))) <= CapMax - 1
<1>1. Listed(r) \in SUBSET Sids /\ Cardinality(Listed(r)) \in Nat
    BY SidsFinite, Zenon DEF Listed, LiveFull
<1> DEFINE X == Listed(r)
           n == Over(Listed(r))
<1>2. n = Cardinality(X) - (CapMax - 1) /\ CapMax \in Nat /\ CapMax >= 1
    BY SignInAssumption DEF Over
<1> HIDE DEF X, n
<1>3. X \in SUBSET Sids /\ Cardinality(X) \in Nat
    BY <1>1, Zenon DEF X
<1>4. n \in Int /\ (n <= 0 => Cardinality(X) <= CapMax - 1)
    BY <1>2, <1>3
<1>5. ASSUME n > 0 PROVE Cardinality(X \ Oldest(X, n)) <= CapMax - 1
  <2>1. n \in Nat /\ n <= Cardinality(X) /\ Cardinality(X) - n = CapMax - 1
      BY <1>2, <1>3, <1>5
  <2>2. Cardinality(X \ Oldest(X, n)) <= Cardinality(X) - n
      BY <1>3, <2>1, Zenon DEF Counting
  <2> QED BY <2>1, <2>2, Zenon
<1> QED BY <1>1, <1>4, <1>5, Zenon DEF X, n

LEMMA EnforceCapStep ==
  ASSUME Counting, TypeOK, PcInv, CapInv, NEW r \in Requests, EnforceCap(r)
  PROVE  CapInv' /\ GuessFrame /\ ProofFrame /\ LateFrame /\ StaleFrame /\ Moved
<1>1. /\ req[r].pc = "cap" /\ UNCHANGED <<acct, sess, ticket, lastStep, uses, device>>
      /\ \/ Over(Listed(r)) <= 0 /\ Goto(r, AfterCap(r))
         \/ Finish(r)
         \/ /\ ~(Over(Listed(r)) <= 0)
            /\ req' = [req EXCEPT ![r].pc = "evict", ![r].evict = Oldest(Listed(r), Over(Listed(r)))]
    BY Zenon DEF EnforceCap, At
<1>2. req[r].evict = {} /\ AcctOK' /\ (Blocked' => Blocked) /\ Shrinks
    BY <1>1, Types, AcctUpdates, RevokedShrinks, Zenon DEF PcInv
<1>3. CASE Finish(r)
    BY <1>1, <1>3, FinishPlain, CapKept, Zenon DEF Plain
<1>4. CASE Over(Listed(r)) <= 0 /\ Goto(r, AfterCap(r))
  <2>1. AfterCap(r) \in {"create", "promote"} /\ (AfterCap(r) = "create" => req[r].sid = 0)
      BY Zenon DEF AfterCap
  <2>2. /\ ReqOK' /\ Others(r) /\ req'[r].pc = AfterCap(r) /\ req'[r].proof = req[r].proof
        /\ req'[r].evict = {} /\ req'[r].sid = req[r].sid /\ req'[r].late = req[r].late
      BY <1>2, <1>4, <2>1, Types, GotoEffect DEF PCs
  <2>3. CapInv'
    <3>1. LiveFull \ (req'[r].evict \cup {req'[r].sid}) = Listed(r)
        BY <2>2, Zenon DEF Listed
    <3> QED BY <1>1, <1>4, <2>2, <3>1, ListedRoom, CapJoin, Zenon
  <2>4. GuessFrame /\ ProofFrame /\ StaleFrame
      BY <1>1, <1>2, <2>1, <2>2, GuessHop, ProofHop, StaleHop, Zenon
  <2>5. LateFrame
      BY <1>1, <1>2, <2>1, <2>2, LateHop, Zenon DEF PastGate
  <2>6. PcInv'
      BY <2>1, <2>2, PcHop, Zenon DEF Fresh
  <2> QED BY <1>2, <2>2, <2>3, <2>4, <2>5, <2>6, Zenon DEF Moved
<1>5. CASE /\ ~(Over(Listed(r)) <= 0)
           /\ req' = [req EXCEPT ![r].pc = "evict", ![r].evict = Oldest(Listed(r), Over(Listed(r)))]
  <2> DEFINE gone == Oldest(Listed(r), Over(Listed(r)))
  <2>1. gone \in SUBSET Sids
      BY ListedRoom, Zenon DEF Oldest
  <2>2. /\ ReqOK' /\ Others(r) /\ req'[r].pc = "evict" /\ req'[r].proof = req[r].proof
        /\ req'[r].evict = gone /\ req'[r].sid = req[r].sid /\ req'[r].late = req[r].late
    <3> HIDE DEF gone
    <3>0. req' = [req EXCEPT ![r].pc = "evict", ![r].evict = gone]
        BY <1>5, Zenon DEF gone
    <3>1. req[r] \in Request /\ req' = [req EXCEPT ![r] = Evicting(req[r], gone)]
        BY <3>0, Types, Zenon DEF ReqOK, Evicting
    <3>2. ReqOK' /\ Others(r) /\ req'[r] = Evicting(req[r], gone)
        BY <2>1, <3>1, EvictingType, Types, Zenon DEF ReqOK, Others
    <3> QED BY <2>1, <3>1, <3>2, EvictingType
  <2>3. CapInv'
    <3>1. LiveFull \ (req'[r].evict \cup {req'[r].sid}) = Listed(r) \ gone
        BY <2>2, Zenon DEF Listed
    <3>2. Over(Listed(r)) > 0
      <4>1. Over(Listed(r)) \in Int
          BY ListedRoom, Zenon
      <4>2. ~(Over(Listed(r)) <= 0)
          BY <1>5, Zenon
      <4> QED BY <4>1, <4>2
    <3> QED BY <1>1, <2>2, <3>1, <3>2, ListedRoom, CapJoin, Zenon
  <2> HIDE DEF gone
  <2>4. GuessFrame /\ ProofFrame /\ StaleFrame
      BY <1>1, <1>2, <2>2, GuessHop, ProofHop, StaleHop, Zenon
  <2>5. LateFrame
      BY <1>1, <1>2, <2>2, LateHop, Zenon DEF PastGate
  <2>6. PcInv'
      BY <2>2, PcHop, Zenon DEF Fresh
  <2> QED BY <1>2, <2>2, <2>3, <2>4, <2>5, <2>6, Zenon DEF Moved
<1> QED BY <1>1, <1>3, <1>4, <1>5, Zenon

LEMMA EvictStep ==
  ASSUME TypeOK, PcInv, NEW r \in Requests, Evict(r)
  PROVE  Plain /\ Moved /\ sess' \in [Sids -> Session]
<1>1. PICK s :
        /\ sess' = [sess EXCEPT ![s] = Revoked(@)]
        /\ req' = [req EXCEPT ![r].evict = @ \ {s},
                              ![r].pc = IF req[r].evict = {s} THEN AfterCap(r) ELSE @]
    BY Zenon DEF Evict
<1>2. req[r].pc = "evict" /\ UNCHANGED <<acct, ticket, lastStep, uses, device>>
    BY Zenon DEF Evict, At
<1>3. AcctOK' /\ (Blocked' => Blocked) /\ Shrinks /\ sess' \in [Sids -> Session]
    BY <1>1, <1>2, Types, AcctUpdates, RevokedShrinks, Zenon
<1>4. s \in Sids => s \notin LiveFull'
    BY <1>1, Types, SessionUpdates, Zenon DEF LiveFull, Live
<1> DEFINE to == IF req[r].evict = {s} THEN AfterCap(r) ELSE "evict"
<1>5. /\ to \in {"evict", "create", "promote"} /\ (to = "create" => req[r].sid = 0)
      /\ to # "evict" => req[r].evict = {s}
    BY Zenon DEF AfterCap
<1>6. /\ ReqOK' /\ Others(r) /\ req'[r].pc = to /\ req'[r].proof = req[r].proof
      /\ req'[r].evict = req[r].evict \ {s} /\ req'[r].sid = req[r].sid
      /\ req'[r].late = req[r].late
  <2>1. req[r] \in Request /\ req' = [req EXCEPT ![r] = Evicted(req[r], s, to)] /\ to \in PCs
      BY <1>1, <1>2, <1>5, Types, Zenon DEF ReqOK, Evicted, PCs
  <2> HIDE DEF to
  <2>2. ReqOK' /\ Others(r) /\ req'[r] = Evicted(req[r], s, to)
      BY <2>1, EvictedType, Types, Zenon DEF ReqOK, Others
  <2> QED BY <2>1, <2>2, EvictedType
<1> HIDE DEF to
<1>7. CapFrame
  <2>1. LiveFull' \subseteq LiveFull /\ LiveFull' \subseteq Sids
      BY <1>3, Zenon DEF Shrinks, LiveFull, Live
  <2>2. Approved' = Approved /\ r \in Approved
      BY <1>2, <1>5, <1>6, Zenon DEF Approved, Others
  <2>3. LiveFull' \cap (req[r].evict \cup {req[r].sid}) \subseteq req'[r].evict \cup {req'[r].sid}
      BY <1>4, <1>6, <2>1, Zenon
  <2>4. \A q \in Requests : q # r => req'[q] = req[q]
      BY <1>6, Zenon DEF Others
  <2> QED BY <2>1, <2>2, <2>3, <2>4, Zenon DEF CapFrame, Approved
<1>8. GuessFrame /\ ProofFrame /\ StaleFrame
    BY <1>2, <1>3, <1>5, <1>6, GuessHop, ProofHop, StaleHop, Zenon
<1>9. LateFrame
    BY <1>2, <1>3, <1>5, <1>6, LateHop, Zenon DEF PastGate
<1>10. PcInv'
  <2>1. to # "evict" => req'[r].evict = {}
      BY <1>5, <1>6, Zenon
  <2> QED BY <1>5, <1>6, <2>1, PcHop, Zenon DEF Fresh
<1> QED BY <1>3, <1>6, <1>7, <1>8, <1>9, <1>10, Zenon DEF Moved, Plain

-----------------------------------------------------------------------------
(* The steps that make a session, or use a proof.                          *)

\* What takes effect was held by this request alone, and is held by nobody afterwards.
LEMMA UseOnce ==
  ASSUME TypeOK, ProofInv, NEW r \in Requests, Use(req[r].proof), UNCHANGED <<ticket, lastStep>>,
         req'[r].proof = NoProof,
         \A q \in Requests : q # r => req'[q].proof = req[q].proof
  PROVE  ProofInv' /\ uses' \in [Proofs -> 0 .. 2]
<1> DEFINE p0 == req[r].proof
<1>0. uses \in [Proofs -> 0 .. 2] /\ p0 \in Proofs \cup {NoProof} /\ NoProof \notin Proofs
    BY Types, NoProofNoProof, Zenon DEF TypeOK, ReqOK, Request
<1>1. \A p \in Proofs : Spent(p)' <=> Spent(p)
    BY Zenon DEF Spent
<1>2. uses' \in [Proofs -> 0 .. 2] /\ \A p \in Proofs : uses'[p] = IF p = p0 THEN 1 ELSE uses[p]
  <2>1. CASE p0 = NoProof
      BY <1>0, <2>1, Zenon DEF Use
  <2>2. CASE p0 \in Proofs
    <3>1. uses[p0] = 0
        BY <2>2, Zenon DEF ProofInv
    <3>2. uses' = [uses EXCEPT ![p0] = 1]
        BY <1>0, <2>2, <3>1 DEF Use
    <3> QED BY <1>0, <2>2, <3>2
  <2> QED BY <1>0, <2>1, <2>2, Zenon
<1>3. \A p \in Proofs, q \in Requests : req'[q].proof = p => q # r /\ req[q].proof = p
    BY <1>0, Zenon
<1>4. ASSUME NEW p \in Proofs
      PROVE  /\ uses'[p] \in {0, 1} /\ (~Spent(p)' => uses'[p] = 0)
             /\ \A q \in Requests : req'[q].proof = p => Spent(p)' /\ uses'[p] = 0
             /\ \A q1, q2 \in Requests : req'[q1].proof = p /\ req'[q2].proof = p => q1 = q2
  <2>1. CASE p = p0
    <3>1. Spent(p) /\ \A q \in Requests : req[q].proof = p => q = r
        BY <2>1, Zenon DEF ProofInv
    <3> QED BY <1>1, <1>2, <1>3, <2>1, <3>1, Zenon
  <2>2. CASE p # p0
      BY <1>1, <1>2, <1>3, <2>2 DEF ProofInv
  <2> QED BY <2>1, <2>2, Zenon
<1> QED BY <1>2, <1>4, Zenon DEF ProofInv

\* A session that is stored has the history its request has; it is the only one that changes.
LEMMA StoreFrames ==
  ASSUME Counting, TypeOK, PcInv, GuessInv, LateInv, BlockedMeansOut, NEW r \in Requests,
         NEW level \in {"full", "pending_2fa"}, Store(r, level), Finish(r),
         req[r].pc \in {"create", "pending"}, UNCHANGED <<acct, device>>
  PROVE  /\ GuessInv' /\ LateInv' /\ BlockedMeansOut' /\ StaleFrame /\ Moved
         /\ sess' \in [Sids -> Session]
         /\ \E s \in Sids : LiveFull' \subseteq LiveFull \cup {s}
         /\ level = "pending_2fa" => LiveFull' \subseteq LiveFull
<1>0. ReqOK /\ sess \in [Sids -> Session]
    BY Types, Zenon
<1>1. PICK s \in Sids :
        /\ sess[s].state = "none"
        /\ sess' \in [Sids -> Session]
        /\ sess'[s].state = "live" /\ sess'[s].level = level
        /\ sess'[s].guesses = 0 /\ sess'[s].fails = 0
        /\ sess'[s].late = req[r].late
        /\ sess'[s].age # "stale"
        /\ \A t \in Sids : t # s => sess'[t] = sess[t]
    BY <1>0, StoreEffect, Zenon DEF ReqOK
<1>2. ReqOK' /\ req'[r] = Idle /\ Others(r)
    BY <1>0, FinishEffect, Zenon
<1>3. AcctOK' /\ (Blocked' <=> Blocked)
    BY Types, AcctUpdates, Zenon
<1>4. GuessInv'
  <2> SUFFICES ASSUME NEW t \in Sids PROVE GuessAt(t)'
      BY Zenon DEF GuessInv
  <2>1. CASE t = s
      BY <1>1, <2>1, GuessNone, Zenon
  <2>2. CASE t # s
    <3>1. sess'[t] = sess[t]
        BY <1>1, <2>2, Zenon
    <3>2. Guessing(t)' \subseteq Guessing(t) /\ Guessed(t) \subseteq Guessed(t)'
        BY <1>2, IdleType, Zenon DEF Guessing, Guessed, At, Others
    <3>3. GuessFrameAt(t)
        BY <3>1, <3>2, Zenon DEF GuessFrameAt, Live
    <3> QED BY <1>0, <3>3, GuessKeptAt, Zenon DEF GuessInv
  <2> QED BY <2>1, <2>2, Zenon
<1>5. Blocked => req[r].late
  <2>1. PastGate(req[r])
      BY Zenon DEF PcInv, Fresh, PastGate
  <2> QED BY <2>1, Zenon DEF LateInv
<1>6. LateInv'
    BY <1>2, <1>3, IdleType, Zenon DEF LateInv, Others, PastGate
<1>7. BlockedMeansOut'
  <2> SUFFICES ASSUME Blocked',
                      \A q \in Requests : ~At(q, "block")' /\ ~(At(q, "revoke")' /\ ~req'[q].reissue),
                      NEW t \in Sids, Live(t)'
               PROVE  sess'[t].late
      BY Zenon DEF BlockedMeansOut
  <2>1. \A q \in Requests : ~At(q, "block") /\ ~(At(q, "revoke") /\ ~req[q].reissue)
      BY <1>2, Zenon DEF Others, At
  <2>2. CASE t = s
      BY <1>1, <1>3, <1>5, <2>2, Zenon
  <2>3. CASE t # s
      BY <1>1, <1>3, <2>1, <2>3, Zenon DEF BlockedMeansOut, Live
  <2> QED BY <2>2, <2>3, Zenon
<1>8. StaleFrame
    BY <1>1, <1>2, Zenon DEF StaleFrame, Others, Live
<1>9. LiveFull' \subseteq LiveFull \cup {s} /\ (level = "pending_2fa" => LiveFull' \subseteq LiveFull)
    BY <1>1, Zenon DEF LiveFull, Live
<1>10. PcInv'
    BY <1>2, IdleType, PcHop, Zenon DEF Fresh
<1> QED BY <1>1, <1>2, <1>3, <1>4, <1>6, <1>7, <1>8, <1>9, <1>10, Zenon DEF Moved

LEMMA IssuePendingStep ==
  ASSUME Counting, TypeOK, PcInv, GuessInv, LateInv, BlockedMeansOut, NEW r \in Requests, IssuePending2FA(r)
  PROVE  /\ CapFrame /\ ProofFrame /\ StaleFrame /\ Moved /\ sess' \in [Sids -> Session]
         /\ GuessInv' /\ LateInv' /\ BlockedMeansOut'
<1>1. /\ req[r].pc = "pending" /\ Store(r, "pending_2fa") /\ Finish(r)
      /\ UNCHANGED <<acct, device, ticket, lastStep, uses>>
    BY Zenon DEF IssuePending2FA, At
<1>2. ReqOK' /\ req'[r] = Idle /\ Others(r)
    BY <1>1, Types, FinishEffect, Zenon
<1>3. /\ GuessInv' /\ LateInv' /\ BlockedMeansOut' /\ StaleFrame /\ Moved
      /\ sess' \in [Sids -> Session] /\ LiveFull' \subseteq LiveFull
    BY <1>1, StoreFrames, Zenon
<1>4. CapFrame
    BY <1>2, <1>3, IdleType, Zenon DEF CapFrame, Approved, Others
<1>5. ProofFrame
    BY <1>1, <1>2, IdleType, ProofHop, Zenon
<1> QED BY <1>3, <1>4, <1>5, Zenon

LEMMA CreateSessionStep ==
  ASSUME Counting, TypeOK, PcInv, CapInv, GuessInv, ProofInv, LateInv, BlockedMeansOut,
         NEW r \in Requests, CreateSession(r)
  PROVE  /\ StaleFrame /\ Moved /\ sess' \in [Sids -> Session] /\ uses' \in [Proofs -> 0 .. 2]
         /\ CapInv' /\ GuessInv' /\ ProofInv' /\ LateInv' /\ BlockedMeansOut'
<1>1. /\ req[r].pc = "create" /\ Store(r, "full") /\ Finish(r) /\ Use(req[r].proof)
      /\ UNCHANGED <<acct, device, ticket, lastStep>>
    BY Zenon DEF CreateSession, At
<1>2. ReqOK' /\ req'[r] = Idle /\ Others(r)
    BY <1>1, Types, FinishEffect, Zenon
<1>3. /\ GuessInv' /\ LateInv' /\ BlockedMeansOut' /\ StaleFrame /\ Moved
      /\ sess' \in [Sids -> Session] /\ \E s \in Sids : LiveFull' \subseteq LiveFull \cup {s}
    BY <1>1, StoreFrames, Zenon
<1>4. CapInv'
  <2>1. PICK s \in Sids : LiveFull' \subseteq LiveFull \cup {s}
      BY <1>3, Zenon
  <2>2. req[r].evict = {} /\ req[r].sid = 0 /\ 0 \notin Sids
      BY <1>1 DEF PcInv, Fresh, Sids
  <2>3. r \in Approved /\ r \notin Approved'
      BY <1>1, <1>2, IdleType, Zenon DEF Approved
  <2> QED BY <1>2, <2>1, <2>2, <2>3, CapLeave, Zenon
<1>5. ProofInv' /\ uses' \in [Proofs -> 0 .. 2]
    BY <1>1, <1>2, IdleType, UseOnce, Zenon DEF Others
<1> QED BY <1>3, <1>4, <1>5, Zenon

\* A promotion ends at the session that had been counted out.
LEMMA PromoteStep ==
  ASSUME Counting, TypeOK, PcInv, CapInv, ProofInv, NEW r \in Requests, UpdateSessionAuthLevel(r)
  PROVE  /\ GuessFrame /\ LateFrame /\ StaleFrame /\ Moved
         /\ sess' \in [Sids -> Session] /\ uses' \in [Proofs -> 0 .. 2]
         /\ CapInv' /\ ProofInv'
<1> DEFINE s == req[r].sid
<1>1. /\ req[r].pc = "promote" /\ Use(req[r].proof) /\ UNCHANGED <<acct, device, ticket, lastStep>>
      /\ sess' = [sess EXCEPT ![s] = IF Live(s) THEN [@ EXCEPT !.level = "full"] ELSE @]
    BY Zenon DEF UpdateSessionAuthLevel, At
<1>2. /\ ReqOK' /\ Others(r)
      /\ req'[r].pc \in {"idle", "remember"} /\ req'[r].evict = {} /\ req'[r].proof = NoProof
  <2>1. CASE Finish(r)
      BY <2>1, Types, FinishEffect, IdleType, Zenon
  <2>2. CASE req' = [req EXCEPT ![r] = [Idle EXCEPT !.pc = "remember", !.old = req[r].old]]
    <3> DEFINE f == [Idle EXCEPT !.pc = "remember", !.old = req[r].old]
    <3>1. req[r].old \in BOOLEAN
        BY Types, Zenon DEF ReqOK, Request
    <3>2. f \in Request
        BY <3>1, BeginTypes, Zenon
    <3>3. f.pc = "remember" /\ f.evict = {} /\ f.proof = NoProof
        BY Zenon DEF Idle
    <3> HIDE DEF f
    <3>4. ReqOK' /\ Others(r) /\ req'[r] = f
        BY <2>2, <3>2, Types, Zenon DEF ReqOK, Others, f
    <3> QED BY <3>3, <3>4, Zenon
  <2> QED BY <2>1, <2>2, Zenon DEF UpdateSessionAuthLevel
<1>3. /\ sess' \in [Sids -> Session]
      /\ \A t \in Sids : /\ sess'[t].state = sess[t].state
                         /\ sess'[t].guesses = sess[t].guesses /\ sess'[t].fails = sess[t].fails
                         /\ sess'[t].late = sess[t].late /\ sess'[t].age = sess[t].age
                         /\ t # s => sess'[t] = sess[t]
  <2>1. ASSUME NEW x \in Session
        PROVE  /\ [x EXCEPT !.level = "full"] \in Session
               /\ [x EXCEPT !.level = "full"].state = x.state
               /\ [x EXCEPT !.level = "full"].guesses = x.guesses
               /\ [x EXCEPT !.level = "full"].fails = x.fails
               /\ [x EXCEPT !.level = "full"].late = x.late
               /\ [x EXCEPT !.level = "full"].age = x.age
      BY Zenon DEF Session
  <2>2. sess \in [Sids -> Session]
      BY Types, Zenon
  <2> DEFINE new == IF Live(s) THEN [sess[s] EXCEPT !.level = "full"] ELSE sess[s]
  <2>3. sess' = [sess EXCEPT ![s] = new]
      BY <1>1, Zenon
  <2>4. s \in Sids => /\ new \in Session /\ new.state = sess[s].state
                      /\ new.guesses = sess[s].guesses /\ new.fails = sess[s].fails
                      /\ new.late = sess[s].late /\ new.age = sess[s].age
      BY <2>1, <2>2, Zenon
  <2> HIDE DEF new
  <2>5. /\ sess' \in [Sids -> Session] /\ (s \in Sids => sess'[s] = new)
        /\ \A t \in Sids : t # s => sess'[t] = sess[t]
      BY <2>2, <2>3, <2>4, Zenon
  <2> QED BY <2>4, <2>5, Zenon
<1> HIDE DEF s
<1>4. AcctOK' /\ (Blocked' <=> Blocked)
    BY <1>1, Types, AcctUpdates, Zenon
<1>5. CapInv'
  <2>1. req[r].evict = {} /\ r \in Approved /\ r \notin Approved'
      BY <1>1, <1>2, Zenon DEF PcInv, Approved
  <2>2. LiveFull' \subseteq LiveFull \cup {s}
      BY <1>3, Zenon DEF LiveFull, Live
  <2> QED BY <1>2, <2>1, <2>2, CapLeave, Zenon DEF s
<1>6. GuessFrame
    BY <1>1, <1>2, <1>3, Zenon DEF GuessFrame, GuessFrameAt, Guessing, Guessed, At, Others, Live
<1>7. LateFrame
    BY <1>1, <1>2, <1>3, <1>4, Zenon DEF LateFrame, Blocking, PastGate, Others, Live
<1>8. StaleFrame
    BY <1>1, <1>2, <1>3, Zenon DEF StaleFrame, Others, Live
<1>9. ProofInv' /\ uses' \in [Proofs -> 0 .. 2]
    BY <1>1, <1>2, UseOnce, Zenon DEF Others
<1>10. PcInv'
    BY <1>2, PcHop, Zenon DEF Fresh
<1> QED BY <1>2, <1>3, <1>4, <1>5, <1>6, <1>7, <1>8, <1>9, <1>10, Zenon DEF Moved

LEMMA TakeOnce ==
  ASSUME ProofInv, NEW r \in Requests, NEW p0 \in Proofs, ~Spent(p0), Spent(p0)', uses' = uses,
         \A p \in Proofs : Spent(p) => Spent(p)',
         req'[r].proof = p0, \A q \in Requests : q # r => req'[q].proof = req[q].proof
  PROVE  ProofInv'
<1>1. uses[p0] = 0 /\ \A q \in Requests : req[q].proof # p0
    BY Zenon DEF ProofInv
<1>2. ASSUME NEW p \in Proofs, p # p0
      PROVE  /\ uses'[p] \in {0, 1} /\ (~Spent(p)' => uses'[p] = 0)
             /\ \A q \in Requests : req'[q].proof = p => Spent(p)' /\ uses'[p] = 0
             /\ \A q1, q2 \in Requests : req'[q1].proof = p /\ req'[q2].proof = p => q1 = q2
  <2>1. \A q \in Requests : req'[q].proof = p => q # r /\ req[q].proof = p
      BY <1>2, Zenon
  <2> QED BY <1>2, <2>1 DEF ProofInv
<1>3. /\ uses'[p0] \in {0, 1} /\ (~Spent(p0)' => uses'[p0] = 0)
      /\ \A q \in Requests : req'[q].proof = p0 => Spent(p0)' /\ uses'[p0] = 0
      /\ \A q1, q2 \in Requests : req'[q1].proof = p0 /\ req'[q2].proof = p0 => q1 = q2
    BY <1>1, Zenon
<1> QED BY <1>2, <1>3, Zenon DEF ProofInv

LEMMA SpendSpends ==
  ASSUME TypeOK, NEW t \in Tickets, Spend(t), lastStep' = lastStep
  PROVE  /\ t \in Proofs /\ ~Spent(t) /\ Spent(t)' /\ \A p \in Proofs : Spent(p) => Spent(p)'
         /\ ticket' \in [Tickets -> {"none", "open", "used"}]
<1>1. ticket \in [Tickets -> {"none", "open", "used"}] /\ t \in Proofs
    BY Zenon DEF TypeOK, Proofs
<1>2. ticket[t] = "open" /\ ticket' = [ticket EXCEPT ![t] = "used"]
    BY Zenon DEF Spend
<1> QED BY <1>1, <1>2, Zenon DEF Spent

LEMMA AdvanceSpends ==
  ASSUME TypeOK, NEW n \in Steps, AdvanceStep(n), ticket' = ticket
  PROVE  /\ n \in Proofs /\ ~Spent(n) /\ Spent(n)' /\ \A p \in Proofs : Spent(p) => Spent(p)'
         /\ lastStep' \in 0 .. MaxStep
<1>1. lastStep \in 0 .. MaxStep /\ n \in 1 .. MaxStep /\ n > lastStep /\ lastStep' = n
    BY Zenon DEF TypeOK, Steps, AdvanceStep
<1>2. MaxStep \in Nat /\ n \notin Tickets
    BY <1>1, SignInAssumption DEF Tickets
<1>3. \A p \in Proofs : p \notin Tickets => p \in 1 .. MaxStep
    BY Zenon DEF Proofs, Steps
<1>4. ASSUME NEW p \in Proofs, Spent(p) PROVE Spent(p)'
    BY <1>1, <1>2, <1>3, <1>4 DEF Spent
<1> QED BY <1>1, <1>2, <1>4 DEF Spent, Proofs, Steps

\* A handler that starts by spending a link or a reset token.
LEMMA SpendAtStart ==
  ASSUME TypeOK, PcInv, ProofInv, NEW r \in Requests, NEW t \in Tickets, NEW f \in Request,
         Spend(t), Begin(r, f), UNCHANGED <<lastStep, sess, device, uses>>,
         f.proof = t, f.evict = {}, f.pc \in {"gate", "setpw"},
         AcctOK', Blocked' => Blocked
  PROVE  /\ CapFrame /\ GuessFrame /\ LateFrame /\ StaleFrame /\ Moved
         /\ ticket' \in [Tickets -> {"none", "open", "used"}] /\ ProofInv'
<1>1. ReqOK' /\ req[r] = Idle /\ req'[r] = f /\ Others(r)
    BY Types, BeginEffect, Zenon
<1>2. Shrinks
    BY Types, RevokedShrinks, Zenon
<1>3. /\ t \in Proofs /\ ~Spent(t) /\ Spent(t)' /\ \A p \in Proofs : Spent(p) => Spent(p)'
      /\ ticket' \in [Tickets -> {"none", "open", "used"}]
    BY SpendSpends, Zenon
<1>4. ProofInv'
    BY <1>1, <1>3, TakeOnce, Zenon DEF Others
<1>5. CapFrame /\ GuessFrame
    BY <1>1, <1>2, IdleType, CapHop, GuessHop, Zenon
<1>6. LateFrame /\ StaleFrame
    BY <1>1, <1>2, IdleType, LateHop, StaleHop, Zenon DEF PastGate
<1>7. PcInv'
    BY <1>1, PcHop, Zenon DEF Fresh
<1> QED BY <1>1, <1>3, <1>4, <1>5, <1>6, <1>7, Zenon DEF Moved

LEMMA TicketSteps ==
  ASSUME TypeOK, PcInv, ProofInv, NEW r \in Requests,
         \/ \E l \in Links : ConsumeMagicLink(r, l)
         \/ \E t \in Resets, p \in Passwords : ConsumeReset(r, t, p)
  PROVE  /\ CapFrame /\ GuessFrame /\ LateFrame /\ StaleFrame /\ Moved
         /\ ticket' \in [Tickets -> {"none", "open", "used"}] /\ ProofInv'
<1>1. ASSUME NEW l \in Links, ConsumeMagicLink(r, l)
      PROVE  /\ CapFrame /\ GuessFrame /\ LateFrame /\ StaleFrame /\ Moved
             /\ ticket' \in [Tickets -> {"none", "open", "used"}] /\ ProofInv'
  <2> DEFINE f == [Idle EXCEPT !.pc = "gate", !.proof = l]
  <2>1. l \in Tickets /\ f \in Request
      BY BeginTypes, Zenon DEF Tickets
  <2>2. f.proof = l /\ f.evict = {} /\ f.pc = "gate"
      BY Zenon DEF Idle
  <2>3. Spend(l) /\ Begin(r, f) /\ UNCHANGED <<lastStep, sess, device, uses>>
      BY <1>1, Zenon DEF ConsumeMagicLink
  <2>4. AcctOK' /\ (Blocked' => Blocked)
      BY <1>1, Types, AcctUpdates, Zenon DEF ConsumeMagicLink
  <2> HIDE DEF f
  <2> QED BY <2>1, <2>2, <2>3, <2>4, SpendAtStart, Zenon
<1>2. ASSUME NEW t \in Resets, NEW p \in Passwords, ConsumeReset(r, t, p)
      PROVE  /\ CapFrame /\ GuessFrame /\ LateFrame /\ StaleFrame /\ Moved
             /\ ticket' \in [Tickets -> {"none", "open", "used"}] /\ ProofInv'
  <2> DEFINE f == [Idle EXCEPT !.pc = "setpw", !.cred = p, !.proof = t]
  <2>1. t \in Tickets /\ f \in Request
      BY BeginTypes, Zenon DEF Tickets
  <2>2. f.proof = t /\ f.evict = {} /\ f.pc = "setpw"
      BY Zenon DEF Idle
  <2>3. Spend(t) /\ Begin(r, f) /\ UNCHANGED <<lastStep, sess, device, uses, acct>>
      BY <1>2, Zenon DEF ConsumeReset
  <2>4. AcctOK' /\ (Blocked' => Blocked)
      BY <2>3, Types, AcctUpdates, Zenon
  <2> HIDE DEF f
  <2> QED BY <2>1, <2>2, <2>3, <2>4, SpendAtStart, Zenon
<1> QED BY <1>1, <1>2, Zenon

-----------------------------------------------------------------------------
(* Guessing at the second factor.                                          *)

LEMMA VerifyStartStep ==
  ASSUME Counting, TypeOK, PcInv, GuessInv, NEW r \in Requests, NEW s \in Sids, VerifyStart(r, s)
  PROVE  CapFrame /\ ProofFrame /\ LateFrame /\ StaleFrame /\ Moved /\ GuessInv'
<1> DEFINE f == [Idle EXCEPT !.pc = "code", !.sid = s, !.old = sess[s].age # "fresh"]
<1>1. /\ Live(s) /\ Begin(r, f) /\ UNCHANGED <<acct, sess, device, ticket, lastStep, uses>>
    BY Zenon DEF VerifyStart
<1>2. f \in Request
    BY BeginTypes, Zenon
<1>3. f.pc = "code" /\ f.sid = s /\ f.evict = {} /\ f.proof = NoProof
    BY Zenon DEF Idle
<1> HIDE DEF f
<1>4. ReqOK' /\ req[r] = Idle /\ req'[r] = f /\ Others(r)
    BY <1>1, <1>2, Types, BeginEffect, Zenon
<1>5. AcctOK' /\ (Blocked' => Blocked) /\ Shrinks /\ sess \in [Sids -> Session]
    BY <1>1, Types, AcctUpdates, RevokedShrinks, Zenon
<1>6. CapFrame /\ ProofFrame
    BY <1>1, <1>3, <1>4, <1>5, IdleType, CapHop, ProofHop, Zenon
<1>7. LateFrame /\ StaleFrame
    BY <1>1, <1>3, <1>4, <1>5, IdleType, LateHop, StaleHop, Zenon DEF PastGate
<1>8. PcInv'
    BY <1>3, <1>4, PcHop, Zenon DEF Fresh
<1>9. GuessInv'
  <2> SUFFICES ASSUME NEW t \in Sids PROVE GuessAt(t)'
      BY Zenon DEF GuessInv
  <2>1. GuessAt(t)
      BY Zenon DEF GuessInv
  <2>2. CASE t # s
    <3>1. Guessing(t)' \subseteq Guessing(t) /\ Guessed(t) \subseteq Guessed(t)'
        BY <1>3, <1>4, <2>2, IdleType, Zenon DEF Guessing, Guessed, At, Others
    <3>2. GuessFrameAt(t)
        BY <1>1, <3>1, Zenon DEF GuessFrameAt, Live
    <3> QED BY <1>5, <2>1, <3>2, GuessKeptAt, Zenon
  <2>3. CASE t = s
    <3>1. /\ Guessing(s)' \in SUBSET (Requests \ Guessed(s)) /\ Guessed(s)' = Guessed(s)
          /\ Guessed(s) \in SUBSET Requests /\ Guessing(s)' \in SUBSET Requests
        BY <1>3, <1>4, IdleType, Zenon DEF Guessing, Guessed, At, Others
    <3>2. Cardinality(Guessing(s)') + Cardinality(Guessed(s)) <= Cardinality(Requests)
      <4> DEFINE X == Requests \ Guessed(s)
      <4>1. IsFiniteSet(X) /\ Cardinality(X) = Cardinality(Requests) - Cardinality(Guessed(s))
        <5>1. Requests \ Guessed(s) \in SUBSET Requests
            BY Zenon
        <5> QED BY <3>1, <5>1, RequestsFinite, Differences, Zenon
      <4> HIDE DEF X
      <4>2. Cardinality(Guessing(s)') <= Cardinality(X)
          BY <3>1, <4>1, Subsets, Zenon DEF X
      <4> QED BY <3>1, <4>1, <4>2, RequestsFinite
    <3>3. Cardinality(Guessing(s)') \in Nat
        BY <3>1, RequestsFinite, Zenon
    <3>4. /\ sess[s].fails <= sess[s].guesses /\ sess[s].guesses = sess[s].fails
          /\ sess[s].guesses <= MaxFailures - 1 + Cardinality(Guessed(s))
        BY <1>1, <2>1, <2>3, Zenon DEF GuessAt
    <3>5. sess[s].guesses + Cardinality(Guessing(s)') <= MaxFailures + Cardinality(Requests) - 1
        BY <1>5, <3>2, <3>3, <3>4, GuessNumbers
    <3> QED BY <1>1, <2>3, <3>1, <3>4, <3>5, Zenon DEF GuessAt
  <2> QED BY <2>2, <2>3, Zenon
<1> QED BY <1>4, <1>5, <1>6, <1>7, <1>8, <1>9, Zenon DEF Moved

\* A right code or recovery code: the proof is taken, and the count starts again.
LEMMA ProvedStep ==
  ASSUME Counting, TypeOK, PcInv, GuessInv, ProofInv, NEW r \in Requests, NEW p \in Proofs,
         At(r, "code"), Proved(r, p), UNCHANGED <<acct, device, uses>>,
         ~Spent(p), Spent(p)', \A x \in Proofs : Spent(x) => Spent(x)'
  PROVE  /\ CapFrame /\ LateFrame /\ StaleFrame /\ Moved
         /\ sess' \in [Sids -> Session] /\ GuessInv' /\ ProofInv'
<1> DEFINE s == req[r].sid
<1>1. req[r].pc = "code" /\ s \in Sids /\ req[r].evict = {} /\ s # 0
    BY DEF At, PcInv, Sids
<1>2. /\ ReqOK' /\ Others(r) /\ req'[r].pc = "cap" /\ req'[r].proof = p
      /\ req'[r].evict = {} /\ req'[r].sid = s
  <2> DEFINE f == [req[r] EXCEPT !.pc = "cap", !.proof = p]
  <2>1. req[r] \in Request
      BY Types, Zenon DEF ReqOK
  <2>2. f \in Request
      BY <2>1, Zenon DEF Request, PCs
  <2>3. f.pc = "cap" /\ f.proof = p /\ f.evict = req[r].evict /\ f.sid = req[r].sid
      BY <2>1, Zenon DEF Request
  <2>4. req' = [req EXCEPT ![r] = f]
      BY <2>1, Types, Zenon DEF Proved, ReqOK
  <2> HIDE DEF f
  <2>5. ReqOK' /\ Others(r) /\ req'[r] = f
      BY <2>2, <2>4, Types, Zenon DEF ReqOK, Others
  <2> QED BY <1>1, <2>3, <2>5, Zenon
<1>3. /\ sess' \in [Sids -> Session] /\ sess'[s].guesses = 0 /\ sess'[s].fails = 0
      /\ \A t \in Sids : /\ t # s => sess'[t] = sess[t]
                         /\ sess'[t].state = sess[t].state /\ sess'[t].level = sess[t].level
                         /\ sess'[t].late = sess[t].late /\ sess'[t].age = sess[t].age
  <2>1. ASSUME NEW x \in Session
        PROVE  /\ [x EXCEPT !.fails = 0, !.guesses = 0] \in Session
               /\ [x EXCEPT !.fails = 0, !.guesses = 0].guesses = 0
               /\ [x EXCEPT !.fails = 0, !.guesses = 0].fails = 0
               /\ [x EXCEPT !.fails = 0, !.guesses = 0].state = x.state
               /\ [x EXCEPT !.fails = 0, !.guesses = 0].level = x.level
               /\ [x EXCEPT !.fails = 0, !.guesses = 0].late = x.late
               /\ [x EXCEPT !.fails = 0, !.guesses = 0].age = x.age
    <3>1. 0 \in 0 .. MaxFailures + Cardinality(Requests)
        BY RequestsFinite, SignInAssumption
    <3> QED BY <3>1, Zenon DEF Session
  <2>2. sess \in [Sids -> Session]
      BY Types, Zenon
  <2>3. sess' = [sess EXCEPT ![s] = [sess[s] EXCEPT !.fails = 0, !.guesses = 0]]
      BY <1>1, <2>2, Zenon DEF Proved
  <2> DEFINE end == [sess[s] EXCEPT !.fails = 0, !.guesses = 0]
  <2>4. /\ sess[s] \in Session /\ end \in Session /\ end.guesses = 0 /\ end.fails = 0
        /\ end.state = sess[s].state /\ end.level = sess[s].level
        /\ end.late = sess[s].late /\ end.age = sess[s].age
      BY <1>1, <2>1, <2>2, Zenon
  <2> HIDE DEF end
  <2>5. /\ sess' \in [Sids -> Session] /\ sess'[s] = end
        /\ \A t \in Sids : t # s => sess'[t] = sess[t]
      BY <1>1, <2>2, <2>3, <2>4, Zenon DEF end
  <2> QED BY <2>4, <2>5, Zenon
<1> HIDE DEF s
<1>4. AcctOK' /\ (Blocked' <=> Blocked)
    BY Types, AcctUpdates, Zenon
<1>5. CapFrame
    BY <1>2, <1>3, Zenon DEF CapFrame, Approved, LiveFull, Live, Others
<1>6. LateFrame
    BY <1>1, <1>2, <1>3, <1>4, Zenon DEF LateFrame, Blocking, PastGate, Others, Live
<1>7. StaleFrame
    BY <1>1, <1>2, <1>3, Zenon DEF StaleFrame, Others, Live
<1>8. PcInv'
    BY <1>2, PcHop, Zenon DEF Fresh
<1>9. ProofInv'
    BY <1>2, TakeOnce, Zenon DEF Others
<1>10. GuessInv'
  <2> SUFFICES ASSUME NEW t \in Sids PROVE GuessAt(t)'
      BY Zenon DEF GuessInv
  <2>1. CASE t = s
      BY <1>3, <2>1, GuessNone, Zenon
  <2>2. CASE t # s
    <3>1. Guessing(t)' \subseteq Guessing(t) /\ Guessed(t) \subseteq Guessed(t)'
        BY <1>1, <1>2, Zenon DEF Guessing, Guessed, At, Others
    <3>2. GuessFrameAt(t)
        BY <1>3, <2>2, <3>1, Zenon DEF GuessFrameAt, Live
    <3> QED BY <3>2, Types, GuessKeptAt, Zenon DEF GuessInv
  <2> QED BY <2>1, <2>2, Zenon
<1> QED BY <1>2, <1>3, <1>4, <1>5, <1>6, <1>7, <1>8, <1>9, <1>10, Zenon DEF Moved

LEMMA CodeSteps ==
  ASSUME Counting, TypeOK, PcInv, GuessInv, ProofInv, NEW r \in Requests,
         \/ \E n \in Steps : VerifyCode(r, n)
         \/ \E c \in Codes : ConsumeRecoveryCode(r, c)
  PROVE  /\ CapFrame /\ LateFrame /\ StaleFrame /\ Moved
         /\ sess' \in [Sids -> Session] /\ GuessInv' /\ ProofInv'
         /\ ticket' \in [Tickets -> {"none", "open", "used"}] /\ lastStep' \in 0 .. MaxStep
<1>0. ticket \in [Tickets -> {"none", "open", "used"}] /\ lastStep \in 0 .. MaxStep
    BY Zenon DEF TypeOK
<1>1. ASSUME NEW n \in Steps, VerifyCode(r, n)
      PROVE  /\ CapFrame /\ LateFrame /\ StaleFrame /\ Moved
             /\ sess' \in [Sids -> Session] /\ GuessInv' /\ ProofInv'
             /\ ticket' \in [Tickets -> {"none", "open", "used"}] /\ lastStep' \in 0 .. MaxStep
  <2>1. /\ At(r, "code") /\ AdvanceStep(n) /\ Proved(r, n)
        /\ UNCHANGED <<acct, device, uses, ticket>>
      BY <1>1, Zenon DEF VerifyCode
  <2>2. /\ n \in Proofs /\ ~Spent(n) /\ Spent(n)' /\ \A p \in Proofs : Spent(p) => Spent(p)'
        /\ lastStep' \in 0 .. MaxStep
      BY <2>1, AdvanceSpends, Zenon
  <2> QED BY <1>0, <2>1, <2>2, ProvedStep, Zenon
<1>2. ASSUME NEW c \in Codes, ConsumeRecoveryCode(r, c)
      PROVE  /\ CapFrame /\ LateFrame /\ StaleFrame /\ Moved
             /\ sess' \in [Sids -> Session] /\ GuessInv' /\ ProofInv'
             /\ ticket' \in [Tickets -> {"none", "open", "used"}] /\ lastStep' \in 0 .. MaxStep
  <2>1. /\ At(r, "code") /\ Spend(c) /\ Proved(r, c) /\ c \in Tickets
        /\ UNCHANGED <<acct, device, uses, lastStep>>
      BY <1>2, Zenon DEF ConsumeRecoveryCode, Tickets
  <2>2. /\ c \in Proofs /\ ~Spent(c) /\ Spent(c)' /\ \A p \in Proofs : Spent(p) => Spent(p)'
        /\ ticket' \in [Tickets -> {"none", "open", "used"}]
      BY <2>1, SpendSpends, Zenon
  <2> QED BY <1>0, <2>1, <2>2, ProvedStep, Zenon
<1> QED BY <1>1, <1>2, Zenon

\* A wrong code is counted by a request that was counted already among those still to guess; from
\* the limit on it also joins those that are about to revoke the session.
LEMMA WrongCodeStep ==
  ASSUME Counting, TypeOK, PcInv, GuessInv, NEW r \in Requests, WrongCode(r)
  PROVE  /\ CapFrame /\ ProofFrame /\ LateFrame /\ StaleFrame /\ Moved
         /\ sess' \in [Sids -> Session] /\ GuessInv'
<1>1. req[r].pc = "code" /\ UNCHANGED <<acct, device, ticket, lastStep, uses>>
    BY Zenon DEF WrongCode, At
<1>s. PICK s \in Sids : s = req[r].sid
    BY <1>1, Zenon DEF PcInv
<1> DEFINE over == sess[s].fails + 1 >= MaxFailures
<1>0. sess' = [sess EXCEPT ![s].guesses = @ + 1, ![s].fails = @ + 1]
    BY <1>s, Zenon DEF WrongCode
<1>2. /\ ReqOK' /\ Others(r) /\ req'[r].evict = {} /\ req'[r].proof \in {req[r].proof, NoProof}
      /\ over => req'[r].pc = "guessed" /\ req'[r].sid = s
      /\ ~over => req'[r].pc = "idle"
  <2>1. req[r].evict = {}
      BY <1>1, Zenon DEF PcInv
  <2>2. IF over THEN Goto(r, "guessed") ELSE Finish(r)
      BY <1>s, Zenon DEF WrongCode
  <2> HIDE DEF over
  <2>3. CASE over
    <3>1. Goto(r, "guessed") /\ "guessed" \in PCs /\ ReqOK
        BY <2>2, <2>3, Types, Zenon DEF PCs
    <3> QED BY <1>s, <2>1, <2>3, <3>1, GotoEffect, Zenon
  <2>4. CASE ~over
    <3>1. Finish(r) /\ ReqOK
        BY <2>2, <2>4, Types, Zenon
    <3> QED BY <2>4, <3>1, FinishEffect, IdleType, Zenon
  <2> QED BY <2>3, <2>4, Zenon
<1>3. GuessAt(s) /\ sess \in [Sids -> Session]
    BY <1>1, Types, Zenon DEF GuessInv
<1>4. /\ Cardinality(Guessing(s)') + 1 = Cardinality(Guessing(s))
      /\ Cardinality(Guessing(s)') \in Nat
  <2>1. Guessing(s)' = Guessing(s) \ {r} /\ r \in Guessing(s) /\ Guessing(s) \in SUBSET Requests
    <3>1. req[r].pc = "code" /\ req[r].sid = s /\ req'[r].pc # "code"
        BY <1>1, <1>2, <1>s, Zenon
    <3> QED BY <1>2, <3>1, Zenon DEF Guessing, At, Others
  <2>2. IsFiniteSet(Guessing(s)) /\ Cardinality(Guessing(s)) \in Nat
      BY <2>1, RequestsFinite, Zenon
  <2>3. /\ Cardinality(Guessing(s) \ {r}) = Cardinality(Guessing(s)) - 1
        /\ IsFiniteSet(Guessing(s) \ {r})
      BY <2>1, <2>2, OneLess, Zenon
  <2>4. Cardinality(Guessing(s) \ {r}) \in Nat
      BY <2>3, Subsets, Zenon
  <2> QED BY <2>1, <2>2, <2>3, <2>4
<1>5. /\ Cardinality(Guessed(s)') \in Nat
      /\ over => Cardinality(Guessed(s)') = Cardinality(Guessed(s)) + 1
  <2>1. Guessed(s)' \in SUBSET Requests /\ Guessed(s) \in SUBSET Requests
      BY Zenon DEF Guessed
  <2>2. ASSUME over PROVE Guessed(s)' = Guessed(s) \cup {r} /\ r \notin Guessed(s)
    <3> HIDE DEF over
    <3> QED BY <1>1, <1>2, <2>2, Zenon DEF Guessed, At, Others
  <2>3. ASSUME over PROVE Cardinality(Guessed(s)') = Cardinality(Guessed(s)) + 1
    <3> HIDE DEF over
    <3>1. IsFiniteSet(Guessed(s))
        BY <2>1, RequestsFinite, Zenon
    <3> QED BY <2>2, <2>3, <3>1, OneMore, Zenon
  <2> HIDE DEF over
  <2> QED BY <2>1, <2>3, RequestsFinite, Zenon
<1>6. /\ sess[s].guesses \in Nat /\ sess[s].fails \in Nat /\ Cardinality(Guessed(s)) \in Nat
      /\ Cardinality(Requests) \in Nat /\ MaxFailures \in Nat /\ MaxFailures >= 1
      /\ sess[s].guesses <= MaxFailures + Cardinality(Requests)
    BY <1>1, <1>3, GuessNumbers, Zenon
<1>7. /\ sess[s].fails <= sess[s].guesses
      /\ sess[s].guesses + 1 + Cardinality(Guessing(s)') <= MaxFailures + Cardinality(Requests) - 1
      /\ Live(s) => /\ sess[s].guesses = sess[s].fails
                    /\ sess[s].guesses <= MaxFailures - 1 + Cardinality(Guessed(s))
    BY <1>3, <1>4, <1>6 DEF GuessAt
<1>8. /\ sess' \in [Sids -> Session]
      /\ sess'[s].guesses = sess[s].guesses + 1 /\ sess'[s].fails = sess[s].fails + 1
      /\ \A t \in Sids : /\ t # s => sess'[t] = sess[t]
                         /\ sess'[t].state = sess[t].state /\ sess'[t].level = sess[t].level
                         /\ sess'[t].late = sess[t].late /\ sess'[t].age = sess[t].age
  <2> DEFINE g == sess[s].guesses + 1
             h == sess[s].fails + 1
  <2>1. g \in 0 .. MaxFailures + Cardinality(Requests) /\ h \in 0 .. MaxFailures + Cardinality(Requests)
      BY <1>4, <1>6, <1>7
  <2>2. sess' = [sess EXCEPT ![s] = [sess[s] EXCEPT !.guesses = g, !.fails = h]]
      BY <1>0, <1>1, <1>3, Zenon
  <2> HIDE DEF g, h
  <2>3. ASSUME NEW x \in Session
        PROVE  /\ [x EXCEPT !.guesses = g, !.fails = h] \in Session
               /\ [x EXCEPT !.guesses = g, !.fails = h].guesses = g
               /\ [x EXCEPT !.guesses = g, !.fails = h].fails = h
               /\ [x EXCEPT !.guesses = g, !.fails = h].state = x.state
               /\ [x EXCEPT !.guesses = g, !.fails = h].level = x.level
               /\ [x EXCEPT !.guesses = g, !.fails = h].late = x.late
               /\ [x EXCEPT !.guesses = g, !.fails = h].age = x.age
      BY <2>1, Zenon DEF Session
  <2>4. /\ sess' \in [Sids -> Session] /\ sess'[s].guesses = g /\ sess'[s].fails = h
        /\ \A t \in Sids : /\ t # s => sess'[t] = sess[t]
                           /\ sess'[t].state = sess[t].state /\ sess'[t].level = sess[t].level
                           /\ sess'[t].late = sess[t].late /\ sess'[t].age = sess[t].age
    <3>1. sess' \in [Sids -> Session] /\ \A t \in Sids : t # s => sess'[t] = sess[t]
        BY <1>1, <1>3, <2>2, <2>3, Zenon
    <3>2. sess'[s] = [sess[s] EXCEPT !.guesses = g, !.fails = h] /\ sess[s] \in Session
        BY <1>1, <1>3, <2>2, Zenon
    <3>3. /\ sess'[s].guesses = g /\ sess'[s].fails = h
          /\ sess'[s].state = sess[s].state /\ sess'[s].level = sess[s].level
          /\ sess'[s].late = sess[s].late /\ sess'[s].age = sess[s].age
        BY <2>3, <3>2, Zenon
    <3> QED BY <3>1, <3>3, Zenon
  <2> QED BY <2>4, Zenon DEF g, h
<1>9. GuessInv'
  <2> SUFFICES ASSUME NEW t \in Sids PROVE GuessAt(t)'
      BY Zenon DEF GuessInv
  <2>1. CASE t = s
    <3>0. sess'[s].guesses = sess[s].guesses + 1 /\ sess'[s].fails = sess[s].fails + 1
        BY <1>8, Zenon
    <3>1. sess'[s].guesses + Cardinality(Guessing(s)') <= MaxFailures + Cardinality(Requests) - 1
        BY <1>7, <3>0, Zenon
    <3>2. sess'[s].fails <= sess'[s].guesses
        BY <1>6, <1>7, <3>0
    <3>3. ASSUME Live(s)'
          PROVE  /\ sess'[s].guesses = sess'[s].fails
                 /\ sess'[s].guesses <= MaxFailures - 1 + Cardinality(Guessed(s)')
      <4>1. /\ sess[s].guesses = sess[s].fails
            /\ sess[s].guesses <= MaxFailures - 1 + Cardinality(Guessed(s))
        <5>1. Live(s)
            BY <1>1, <1>8, <3>3, Zenon DEF Live
        <5> QED BY <1>7, <5>1, Zenon
      <4>2. CASE over
          BY <1>5, <1>6, <3>0, <4>1, <4>2
      <4>3. CASE ~over
          BY <1>5, <1>6, <3>0, <4>1, <4>3
      <4> QED BY <4>2, <4>3, Zenon
    <3>4. GuessAt(s)'
        BY <3>1, <3>2, <3>3, Zenon DEF GuessAt
    <3> QED BY <2>1, <3>4, Zenon
  <2>2. CASE t # s
    <3>1. Guessing(t)' \subseteq Guessing(t) /\ Guessed(t) \subseteq Guessed(t)'
        BY <1>1, <1>2, <2>2, Zenon DEF Guessing, Guessed, At, Others
    <3>2. GuessFrameAt(t)
        BY <1>8, <2>2, <3>1, Zenon DEF GuessFrameAt, Live
    <3> QED BY <1>3, <3>2, GuessKeptAt, Zenon DEF GuessInv
  <2> QED BY <2>1, <2>2, Zenon
<1>10. AcctOK' /\ (Blocked' <=> Blocked)
    BY <1>1, Types, AcctUpdates, Zenon
<1>11. /\ Others(r) /\ ReqOK' /\ req'[r].pc \in {"guessed", "idle"} /\ req'[r].evict = {}
       /\ req'[r].proof \in {req[r].proof, NoProof}
    BY <1>2, Zenon
<1> HIDE DEF over
<1>12. CapFrame
    BY <1>8, <1>11, Zenon DEF CapFrame, Approved, LiveFull, Live, Others
<1>13. ProofFrame
    BY <1>1, <1>11, ProofHop, Zenon
<1>14. LateFrame
    BY <1>1, <1>8, <1>10, <1>11, Zenon DEF LateFrame, Blocking, PastGate, Others, Live
<1>15. StaleFrame
    BY <1>1, <1>8, <1>11, Zenon DEF StaleFrame, Others, Live
<1>16. PcInv'
    BY <1>11, PcHop, Zenon DEF Fresh
<1> QED BY <1>8, <1>9, <1>10, <1>11, <1>12, <1>13, <1>14, <1>15, <1>16, Zenon DEF Moved

LEMMA RevokeGuessedStep ==
  ASSUME Counting, TypeOK, PcInv, GuessInv, NEW r \in Requests, RevokeGuessed(r)
  PROVE  /\ CapFrame /\ ProofFrame /\ LateFrame /\ StaleFrame /\ Moved
         /\ sess' \in [Sids -> Session] /\ GuessInv'
<1>1. req[r].pc = "guessed" /\ UNCHANGED <<acct, device, ticket, lastStep, uses>> /\ Finish(r)
    BY Zenon DEF RevokeGuessed, At
<1>2. ReqOK' /\ req'[r] = Idle /\ Others(r)
    BY <1>1, Types, FinishEffect, Zenon
<1>3. PICK s \in 0 .. MaxSessions : s = req[r].sid
    BY Types, Zenon DEF ReqOK, Request
<1>4. sess \in [Sids -> Session] /\ AcctOK' /\ (Blocked' <=> Blocked)
    BY <1>1, Types, AcctUpdates, Zenon
<1>5. /\ sess' \in [Sids -> Session]
      /\ \A t \in Sids :
           \/ t # s /\ sess'[t] = sess[t]
           \/ /\ t = s /\ sess'[t].state = "revoked" /\ sess'[t].guesses = sess[t].guesses
              /\ sess'[t].fails = 0
  <2> DEFINE end == [Revoked(sess[s]) EXCEPT !.fails = 0]
  <2>1. sess' = [sess EXCEPT ![s] = end]
      BY <1>3, Zenon DEF RevokeGuessed
  <2>2. ASSUME s \in Sids
        PROVE  /\ end \in Session /\ end.state = "revoked" /\ end.fails = 0
               /\ end.guesses = sess[s].guesses
    <3>1. /\ Revoked(sess[s]) \in Session /\ Revoked(sess[s]).state = "revoked"
          /\ Revoked(sess[s]).guesses = sess[s].guesses
        BY <1>4, <2>2, SessionUpdates, Zenon
    <3>2. 0 \in 0 .. MaxFailures + Cardinality(Requests)
        BY RequestsFinite, SignInAssumption
    <3> HIDE DEF Revoked
    <3> QED BY <3>1, <3>2, Zenon DEF Session
  <2> HIDE DEF end
  <2> QED BY <1>4, <2>1, <2>2, Zenon
<1>6. GuessInv'
  <2> SUFFICES ASSUME NEW t \in Sids PROVE GuessAt(t)'
      BY Zenon DEF GuessInv
  <2>1. GuessAt(t)
      BY Zenon DEF GuessInv
  <2>2. Guessing(t)' = Guessing(t)
      BY <1>1, <1>2, IdleType, Zenon DEF Guessing, At, Others
  <2>3. CASE t # s
    <3>1. Guessed(t)' = Guessed(t)
        BY <1>2, <1>3, <2>3, IdleType, Zenon DEF Guessed, At, Others
    <3>2. GuessFrameAt(t)
        BY <1>5, <2>2, <2>3, <3>1, Zenon DEF GuessFrameAt, Live
    <3> QED BY <1>4, <2>1, <3>2, GuessKeptAt, Zenon
  <2>4. CASE t = s
    <3>1. sess'[t].guesses = sess[t].guesses /\ sess'[t].fails = 0 /\ ~Live(t)'
        BY <1>5, <2>4, Zenon DEF Live
    <3>2. sess[t].guesses \in Nat
        BY <1>4, GuessNumbers, Zenon
    <3>3. sess[t].guesses + Cardinality(Guessing(t)') <= MaxFailures + Cardinality(Requests) - 1
        BY <2>1, <2>2, Zenon DEF GuessAt
    <3> QED BY <3>1, <3>2, <3>3 DEF GuessAt
  <2> QED BY <2>3, <2>4, Zenon
<1>7. CapFrame
    BY <1>2, <1>5, IdleType, Zenon DEF CapFrame, Approved, LiveFull, Live, Others
<1>8. ProofFrame
    BY <1>1, <1>2, IdleType, ProofHop, Zenon
<1>9. LateFrame
    BY <1>1, <1>2, <1>4, <1>5, IdleType, Zenon DEF LateFrame, Blocking, PastGate, Others, Live
<1>10. StaleFrame
    BY <1>1, <1>2, <1>5, Zenon DEF StaleFrame, Others, Live
<1>11. PcInv'
    BY <1>2, IdleType, PcHop, Zenon DEF Fresh
<1> QED BY <1>2, <1>4, <1>5, <1>6, <1>7, <1>8, <1>9, <1>10, <1>11, Zenon DEF Moved

-----------------------------------------------------------------------------
(* Replacing the password.                                                 *)

LEMMA SetPasswordStep ==
  ASSUME TypeOK, PcInv, ProofInv, NEW r \in Requests, SetUserPassword(r)
  PROVE  /\ CapFrame /\ GuessFrame /\ LateFrame /\ Moved
         /\ sess' \in [Sids -> Session] /\ uses' \in [Proofs -> 0 .. 2] /\ device' \subseteq Ages
         /\ ProofInv' /\ StaleInv'
<1> DEFINE f == [Idle EXCEPT !.pc = "clear", !.reissue = req[r].reissue]
<1>1. req[r].pc = "setpw" /\ UNCHANGED <<ticket, lastStep>> /\ Use(req[r].proof)
    BY Zenon DEF SetUserPassword, At
<1>2. /\ sess' = [s \in Sids |-> Aged(sess[s])]
      /\ device' = IF device = {} THEN {} ELSE {"stale"}
      /\ req' = [q \in Requests |-> IF q = r THEN f
                                    ELSE [req[q] EXCEPT !.old = @ \/ Overtaken(req[q])]]
    BY Zenon DEF SetUserPassword
<1>3. f \in Request /\ f.pc = "clear" /\ f.evict = {} /\ f.proof = NoProof
  <2>1. req[r].reissue \in BOOLEAN
      BY Types, Zenon DEF ReqOK, Request
  <2>2. f \in Request
      BY <2>1, BeginTypes, Zenon
  <2> QED BY <2>2, Zenon DEF Idle
<1> HIDE DEF f
<1>4. /\ ReqOK' /\ req'[r] = f
      /\ \A q \in Requests : q # r => Same(q) /\ req'[q].late = req[q].late
  <2>1. ASSUME NEW q \in Requests, q # r
        PROVE  req'[q] \in Request /\ Same(q) /\ req'[q].late = req[q].late
    <3>1. req[q] \in Request /\ (req[q].old \/ Overtaken(req[q])) \in BOOLEAN
        BY Types, Zenon DEF ReqOK, Request, Overtaken
    <3>2. req'[q] = [req[q] EXCEPT !.old = req[q].old \/ Overtaken(req[q])]
        BY <1>2, <2>1, <3>1, Zenon DEF Request
    <3> QED BY <3>1, <3>2, Zenon DEF Request, Same
  <2>2. req'[r] = f
      BY <1>2, Zenon
  <2>3. \A q \in Requests : req'[q] \in Request
      BY <1>3, <2>1, <2>2, Zenon
  <2> QED BY <1>2, <2>1, <2>2, <2>3, Zenon DEF ReqOK
<1>5. /\ sess' \in [Sids -> Session]
      /\ \A s \in Sids : /\ sess'[s].state = sess[s].state /\ sess'[s].level = sess[s].level
                         /\ sess'[s].late = sess[s].late
                         /\ sess'[s].guesses = sess[s].guesses /\ sess'[s].fails = sess[s].fails
    BY <1>2, Types, SessionUpdates, Zenon
<1>6. AcctOK' /\ (Blocked' <=> Blocked)
  <2>1. req[r].cred \in Passwords \cup {NoPassword}
      BY Types, Zenon DEF ReqOK, Request
  <2>2. acct' = [acct EXCEPT !.password = req[r].cred, !.legacy = FALSE]
      BY Zenon DEF SetUserPassword
  <2> QED BY <2>1, <2>2, Types, AcctUpdates, Zenon
<1>7. CapFrame
    BY <1>3, <1>4, <1>5, Zenon DEF CapFrame, Approved, LiveFull, Live, Same
<1>8. GuessFrame
    BY <1>1, <1>3, <1>4, <1>5, Zenon DEF GuessFrame, GuessFrameAt, Guessing, Guessed, At, Live, Same
<1>9. LateFrame
    BY <1>1, <1>3, <1>4, <1>5, <1>6, Zenon DEF LateFrame, Blocking, PastGate, Live, Same
<1>10. PcInv'
    BY <1>3, <1>4 DEF PcInv, Fresh, Same
<1>11. ProofInv' /\ uses' \in [Proofs -> 0 .. 2]
    BY <1>1, <1>3, <1>4, UseOnce, Zenon DEF Same
<1>12. StaleInv'
    BY <1>3, <1>4, Zenon DEF StaleInv
<1>13. device' \subseteq Ages
    BY <1>2, Zenon DEF Ages
<1> QED BY <1>4, <1>5, <1>6, <1>7, <1>8, <1>9, <1>10, <1>11, <1>12, <1>13, Zenon DEF Moved

LEMMA RevokeDevicesStep ==
  ASSUME TypeOK, PcInv, StaleInv, NEW r \in Requests, RevokeDevices(r)
  PROVE  CapFrame /\ GuessFrame /\ ProofFrame /\ LateFrame /\ Moved /\ StaleInv'
<1>1. /\ req[r].pc = "forget" /\ device' = {} /\ Goto(r, "revoke")
      /\ UNCHANGED <<acct, sess, ticket, lastStep, uses>>
    BY Zenon DEF RevokeDevices, At
<1>2. AcctOK' /\ (Blocked' => Blocked) /\ Shrinks
    BY <1>1, Types, AcctUpdates, RevokedShrinks, Zenon
<1>3. /\ ReqOK' /\ Others(r) /\ req'[r].pc = "revoke" /\ req'[r].evict = req[r].evict
      /\ req'[r].proof = req[r].proof
    BY <1>1, Types, GotoEffect, Zenon DEF PCs
<1>4. CapFrame /\ GuessFrame /\ ProofFrame
    BY <1>1, <1>2, <1>3, CapHop, GuessHop, ProofHop, Zenon
<1>5. LateFrame
    BY <1>1, <1>2, <1>3, LateHop, Zenon DEF PastGate
<1>6. PcInv'
  <2>1. req[r].evict = {}
      BY <1>1, Zenon DEF PcInv
  <2> QED BY <1>3, <2>1, PcHop, Zenon DEF Fresh
<1>7. StaleInv'
    BY <1>1, <1>3, Zenon DEF StaleInv, Others, Live
<1> QED BY <1>2, <1>3, <1>4, <1>5, <1>6, <1>7, Zenon DEF Moved

\* Whoever revokes all the sessions leaves none, neither stale nor from before the block.
LEMMA RevokeAllStep ==
  ASSUME TypeOK, PcInv, LateInv, StaleInv, NEW r \in Requests, RevokeUserSessions(r) \/ BlockRevoke(r)
  PROVE  /\ CapFrame /\ GuessFrame /\ ProofFrame /\ Moved /\ sess' \in [Sids -> Session]
         /\ LateInv' /\ BlockedMeansOut' /\ StaleInv'
<1>1. /\ req[r].pc \in {"revoke", "block"} /\ sess' = AllRevoked
      /\ UNCHANGED <<acct, device, ticket, lastStep, uses>>
      /\ Goto(r, "gate") \/ Goto(r, "untrust") \/ Finish(r)
    BY Zenon DEF RevokeUserSessions, BlockRevoke, At
<1>2. AcctOK' /\ (Blocked' <=> Blocked) /\ Shrinks /\ sess' \in [Sids -> Session]
    BY <1>1, Types, AcctUpdates, RevokedShrinks, Zenon
<1>3. \A s \in Sids : ~Live(s)'
    BY <1>1, Types, AllRevokedType, Zenon DEF Live
<1>4. /\ ReqOK' /\ Others(r) /\ req'[r].pc \in {"gate", "untrust", "idle"}
      /\ req'[r].proof \in {req[r].proof, NoProof} /\ req'[r].evict = {}
  <2>1. req[r].evict = {}
      BY <1>1, Zenon DEF PcInv
  <2>2. ASSUME NEW to \in {"gate", "untrust"}, Goto(r, to)
        PROVE  /\ ReqOK' /\ Others(r) /\ req'[r].pc = to
               /\ req'[r].proof = req[r].proof /\ req'[r].evict = {}
      BY <2>1, <2>2, Types, GotoEffect, Zenon DEF PCs
  <2>3. CASE Finish(r)
      BY <2>3, Types, FinishEffect, IdleType, Zenon
  <2> QED BY <1>1, <2>2, <2>3, Zenon
<1>5. CapFrame /\ GuessFrame /\ ProofFrame
    BY <1>1, <1>2, <1>4, CapHop, GuessHop, ProofHop, Zenon
<1>6. PcInv'
    BY <1>4, PcHop, Zenon DEF Fresh
<1>7. LateInv'
    BY <1>2, <1>4, Zenon DEF LateInv, Others, PastGate
<1>8. BlockedMeansOut'
    BY <1>3, Zenon DEF BlockedMeansOut
<1>9. StaleInv'
    BY <1>1, <1>3, <1>4, Zenon DEF StaleInv, Others
<1> QED BY <1>2, <1>4, <1>5, <1>6, <1>7, <1>8, <1>9, Zenon DEF Moved

-----------------------------------------------------------------------------
(* Blocking the account.                                                   *)

LEMMA BlockStep ==
  ASSUME TypeOK, PcInv, NEW r \in Requests, DisableUser(r) \/ RequireChange(r)
  PROVE  /\ CapFrame /\ GuessFrame /\ ProofFrame /\ StaleFrame /\ Moved
         /\ sess' \in [Sids -> Session] /\ LateInv' /\ BlockedMeansOut'
<1>1. PICK pc \in {"block", "revoke"} :
        /\ req[r] = Idle /\ UNCHANGED <<device, ticket, lastStep, uses>>
        /\ sess' = [s \in Sids |-> [sess[s] EXCEPT !.late = FALSE]]
        /\ req' = [q \in Requests |-> IF q = r THEN [Idle EXCEPT !.pc = pc]
                                      ELSE [req[q] EXCEPT !.late = PastGate(req[q])]]
    BY Zenon DEF DisableUser, RequireChange, Block
<1>2. AcctOK'
    BY Types, AcctUpdates, Zenon DEF DisableUser, RequireChange, Block
<1> DEFINE f == [Idle EXCEPT !.pc = pc]
<1>3. f \in Request /\ f.pc = pc /\ f.evict = {} /\ f.proof = NoProof /\ ~f.reissue
    BY BeginTypes, Zenon DEF Idle
<1> HIDE DEF f
<1>4. /\ ReqOK' /\ req'[r] = f
      /\ \A q \in Requests : q # r => Same(q) /\ req'[q].late = PastGate(req[q])
  <2>1. ASSUME NEW q \in Requests, q # r
        PROVE  req'[q] \in Request /\ Same(q) /\ req'[q].late = PastGate(req[q])
    <3>1. req[q] \in Request /\ PastGate(req[q]) \in BOOLEAN
        BY Types, Zenon DEF ReqOK, PastGate
    <3>2. req'[q] = [req[q] EXCEPT !.late = PastGate(req[q])]
        BY <1>1, <2>1, Zenon
    <3> QED BY <3>1, <3>2, Zenon DEF Request, Same
  <2>2. req'[r] = f
      BY <1>1, Zenon DEF f
  <2>3. \A q \in Requests : req'[q] \in Request
      BY <1>3, <2>1, <2>2, Zenon
  <2> QED BY <1>1, <2>1, <2>2, <2>3, Zenon DEF ReqOK
<1>5. /\ sess' \in [Sids -> Session]
      /\ \A s \in Sids : /\ sess'[s].state = sess[s].state /\ sess'[s].level = sess[s].level
                         /\ sess'[s].age = sess[s].age
                         /\ sess'[s].guesses = sess[s].guesses /\ sess'[s].fails = sess[s].fails
  <2>1. ASSUME NEW x \in Session
        PROVE  /\ [x EXCEPT !.late = FALSE] \in Session
               /\ [x EXCEPT !.late = FALSE].state = x.state
               /\ [x EXCEPT !.late = FALSE].level = x.level
               /\ [x EXCEPT !.late = FALSE].age = x.age
               /\ [x EXCEPT !.late = FALSE].guesses = x.guesses
               /\ [x EXCEPT !.late = FALSE].fails = x.fails
      BY Zenon DEF Session
  <2> QED BY <1>1, <2>1, Types, Zenon
<1>6. req[r].pc = "idle"
    BY <1>1, IdleType, Zenon
<1>7. CapFrame
    BY <1>3, <1>4, <1>5, Zenon DEF CapFrame, Approved, LiveFull, Live, Same
<1>8. GuessFrame
    BY <1>3, <1>4, <1>5, <1>6, Zenon DEF GuessFrame, GuessFrameAt, Guessing, Guessed, At, Live, Same
<1>9. ProofFrame
    BY <1>1, <1>3, <1>4, Zenon DEF ProofFrame, Same
<1>10. StaleFrame
    BY <1>1, <1>3, <1>4, <1>5, <1>6, Zenon DEF StaleFrame, Live, Same
<1>11. PcInv'
    BY <1>3, <1>4, Zenon DEF PcInv, Fresh, Same
<1>12. LateInv'
    BY <1>3, <1>4, Zenon DEF LateInv, PastGate, Same
<1>13. BlockedMeansOut'
  <2>1. At(r, "block")' \/ (At(r, "revoke")' /\ ~req'[r].reissue)
      BY <1>3, <1>4, Zenon DEF At
  <2> QED BY <2>1, Zenon DEF BlockedMeansOut
<1> QED BY <1>2, <1>4, <1>5, <1>7, <1>8, <1>9, <1>10, <1>11, <1>12, <1>13, Zenon DEF Moved

-----------------------------------------------------------------------------
(* All together.                                                           *)

SignInInv ==
  /\ TypeOK /\ PcInv /\ CapInv /\ GuessInv /\ ProofInv
  /\ LateInv /\ BlockedMeansOut /\ StaleInv

\* The invariants of the next state but for the types of what few steps write.
Kept ==
  /\ Moved /\ sess' \in [Sids -> Session]
  /\ CapInv' /\ GuessInv' /\ ProofInv' /\ LateInv' /\ BlockedMeansOut' /\ StaleInv'

\* What SetUserPassword, a promotion and a new session use, what a proof spends, and what else a
\* handler writes beside the sessions and its own record.
LEMMA StepWrites ==
  ASSUME NEW r \in Requests, Step(r)
  PROVE  /\ UNCHANGED <<features, capMode, factor>>
         /\ ticket' = ticket \/ \E t \in Tickets : Spend(t)
         /\ lastStep' = lastStep \/ lastStep' \in Steps
         /\ device' \in {device, {}, {"stale"}} \/ device' \in {device \cup {a} : a \in {"fresh", "overlap"}}
         /\ uses' = uses \/ Use(req[r].proof)
<1>1. CASE IssueGate(r) \/ EnforceCap(r) \/ Evict(r) \/ CreateSession(r)
    BY <1>1, Zenon DEF IssueGate, EnforceCap, Evict, CreateSession, config
<1>2. CASE \/ \E p \in Passwords : SignupCreate(r, p)
           \/ SignupPassword(r) \/ SigninCheck(r) \/ UpgradeHash(r) \/ CheckAccount(r)
           \/ ReadFactor(r) \/ IssuePending2FA(r)
    BY <1>2, Zenon DEF SignupCreate, SignupPassword, SigninCheck, UpgradeHash, CheckAccount, ReadFactor,
                IssuePending2FA, config
<1>3. CASE \/ \E l \in Links : ConsumeMagicLink(r, l)
           \/ \E t \in Resets, p \in Passwords : ConsumeReset(r, t, p)
           \/ \E c \in Codes : ConsumeRecoveryCode(r, c)
    BY <1>3, Zenon DEF ConsumeMagicLink, ConsumeReset, ConsumeRecoveryCode, config, Tickets
<1>4. CASE \/ \E s \in Sids : VerifyStart(r, s)
           \/ \E n \in Steps : VerifyCode(r, n)
           \/ WrongCode(r) \/ RevokeGuessed(r) \/ NoSecret(r)
    BY <1>4, Zenon DEF VerifyStart, VerifyCode, AdvanceStep, WrongCode, RevokeGuessed, NoSecret, config
<1>5. CASE UpdateSessionAuthLevel(r) \/ SetUserPassword(r) \/ RememberDevice(r)
    BY <1>5, Zenon DEF UpdateSessionAuthLevel, SetUserPassword, RememberDevice, config
<1>6. CASE \/ \E s \in Sids, p \in Passwords : ChangeCheck(r, s, p)
           \/ ClearMustChange(r) \/ RevokeDevices(r) \/ RevokeUserSessions(r)
           \/ DisableUser(r) \/ RequireChange(r) \/ BlockRevoke(r) \/ BlockUntrust(r)
    BY <1>6, Zenon DEF ChangeCheck, ClearMustChange, RevokeDevices, RevokeUserSessions, DisableUser,
                RequireChange, Block, BlockRevoke, BlockUntrust, config
<1> QED BY <1>1, <1>2, <1>3, <1>4, <1>5, <1>6, Zenon DEF Step

LEMMA PlainKept ==
  ASSUME Counting, SignInInv, Plain, Moved, sess' \in [Sids -> Session]
  PROVE  Kept
BY CapKept, GuessKept, ProofKept, LateKept, StaleKept, Types, Zenon DEF SignInInv, Plain, Kept

LEMMA SessUntouched ==
  ASSUME TypeOK, sess' = sess
  PROVE  sess' \in [Sids -> Session]
BY Types

LEMMA StepKeeps ==
  ASSUME Counting, SignInInv, NEW r \in Requests, Step(r)
  PROVE  Kept
<1>0. /\ TypeOK /\ PcInv /\ CapInv /\ GuessInv /\ ProofInv
      /\ LateInv /\ BlockedMeansOut /\ StaleInv /\ sess \in [Sids -> Session]
    BY Types, Zenon DEF SignInInv
<1>1. CASE IssueGate(r) \/ CheckAccount(r)
  <2>1. sess' = sess
      BY <1>1, Zenon DEF IssueGate, CheckAccount
  <2>2. /\ CapFrame /\ GuessFrame /\ ProofFrame /\ StaleFrame /\ Moved
        /\ LateInv' /\ BlockedMeansOut'
      BY <1>0, <1>1, GateSteps, Zenon
  <2> QED BY <1>0, <2>1, <2>2, SessUntouched, CapKept, GuessKept, ProofKept, StaleKept, Zenon DEF Kept
<1>2. CASE EnforceCap(r)
  <2>1. sess' = sess
      BY <1>2, Zenon DEF EnforceCap
  <2>2. CapInv' /\ GuessFrame /\ ProofFrame /\ LateFrame /\ StaleFrame /\ Moved
      BY <1>0, <1>2, EnforceCapStep, Zenon
  <2> QED BY <1>0, <2>1, <2>2, SessUntouched, GuessKept, ProofKept, LateKept, StaleKept, Zenon DEF Kept
<1>3. CASE Evict(r)
    BY <1>0, <1>3, EvictStep, PlainKept, Zenon
<1>4. CASE CreateSession(r)
    BY <1>0, <1>4, CreateSessionStep, StaleKept, Zenon DEF Kept
<1>5. CASE \/ \E p \in Passwords : SignupCreate(r, p)
           \/ SignupPassword(r) \/ SigninCheck(r) \/ UpgradeHash(r) \/ ReadFactor(r)
           \/ NoSecret(r) \/ RememberDevice(r)
           \/ \E s \in Sids, p \in Passwords : ChangeCheck(r, s, p)
           \/ ClearMustChange(r) \/ BlockUntrust(r)
  <2>1. sess' = sess
      BY <1>5, Zenon DEF SignupCreate, SignupPassword, SigninCheck, UpgradeHash, ReadFactor, NoSecret,
                  RememberDevice, ChangeCheck, ClearMustChange, BlockUntrust
  <2>2. Plain /\ Moved
      BY <1>0, <1>5, PlainSteps, Zenon
  <2> QED BY <1>0, <2>1, <2>2, SessUntouched, PlainKept, Zenon
<1>6. CASE IssuePending2FA(r)
    BY <1>0, <1>6, IssuePendingStep, CapKept, ProofKept, StaleKept DEF Kept
<1>7. CASE \/ \E l \in Links : ConsumeMagicLink(r, l)
           \/ \E t \in Resets, p \in Passwords : ConsumeReset(r, t, p)
  <2>1. sess' = sess
      BY <1>7, Zenon DEF ConsumeMagicLink, ConsumeReset
  <2>2. CapFrame /\ GuessFrame /\ LateFrame /\ StaleFrame /\ Moved /\ ProofInv'
      BY <1>0, <1>7, TicketSteps, Zenon
  <2> QED BY <1>0, <2>1, <2>2, SessUntouched, CapKept, GuessKept, LateKept, StaleKept, Zenon DEF Kept
<1>8. ASSUME NEW s \in Sids, VerifyStart(r, s) PROVE Kept
  <2>1. sess' = sess
      BY <1>8, Zenon DEF VerifyStart
  <2>2. CapFrame /\ ProofFrame /\ LateFrame /\ StaleFrame /\ Moved /\ GuessInv'
      BY <1>0, <1>8, VerifyStartStep, Zenon
  <2> QED BY <1>0, <2>1, <2>2, SessUntouched, CapKept, ProofKept, LateKept, StaleKept, Zenon DEF Kept
<1>9. CASE (\E n \in Steps : VerifyCode(r, n)) \/ (\E c \in Codes : ConsumeRecoveryCode(r, c))
    BY <1>0, <1>9, CodeSteps, CapKept, LateKept, StaleKept, Zenon DEF Kept
<1>10. CASE WrongCode(r)
    BY <1>0, <1>10, WrongCodeStep, CapKept, ProofKept, LateKept, StaleKept, Zenon DEF Kept
<1>11. CASE RevokeGuessed(r)
    BY <1>0, <1>11, RevokeGuessedStep, CapKept, ProofKept, LateKept, StaleKept, Zenon DEF Kept
<1>12. CASE UpdateSessionAuthLevel(r)
    BY <1>0, <1>12, PromoteStep, GuessKept, LateKept, StaleKept, Zenon DEF Kept
<1>13. CASE SetUserPassword(r)
    BY <1>0, <1>13, SetPasswordStep, CapKept, GuessKept, LateKept, Zenon DEF Kept
<1>14. CASE RevokeDevices(r)
  <2>1. sess' = sess
      BY <1>14, Zenon DEF RevokeDevices
  <2>2. CapFrame /\ GuessFrame /\ ProofFrame /\ LateFrame /\ Moved /\ StaleInv'
      BY <1>0, <1>14, RevokeDevicesStep, Zenon
  <2> QED BY <1>0, <2>1, <2>2, SessUntouched, CapKept, GuessKept, ProofKept, LateKept, Zenon DEF Kept
<1>15. CASE RevokeUserSessions(r) \/ BlockRevoke(r)
    BY <1>0, <1>15, RevokeAllStep, CapKept, GuessKept, ProofKept, Zenon DEF Kept
<1>16. CASE DisableUser(r) \/ RequireChange(r)
    BY <1>0, <1>16, BlockStep, CapKept, GuessKept, ProofKept, StaleKept, Zenon DEF Kept
<1> QED BY <1>1, <1>2, <1>3, <1>4, <1>5, <1>6, <1>7, <1>8, <1>9, <1>10, <1>11, <1>12, <1>13, <1>14,
           <1>15, <1>16 DEF Step

LEMMA SignInInit == Counting /\ Init => SignInInv
<1> SUFFICES ASSUME Counting, Init PROVE SignInInv
    BY Zenon
<1>1. TypeOK
  <2>1. acct \in [exists : BOOLEAN, password : Passwords \cup {NoPassword},
                  legacy : BOOLEAN, disabled : BOOLEAN, mustChange : BOOLEAN]
    <3>1. CASE acct \in [exists : {TRUE}, password : Passwords, legacy : BOOLEAN,
                         disabled : {FALSE}, mustChange : {FALSE}]
        BY <3>1, Zenon
    <3>2. CASE acct = [exists |-> FALSE, password |-> NoPassword, legacy |-> FALSE,
                       disabled |-> FALSE, mustChange |-> FALSE]
        BY <3>2, Zenon
    <3> QED BY <3>1, <3>2, Zenon DEF Init
  <2>2. sess \in [Sids -> Session] /\ req \in [Requests -> Request]
      BY NoSessionType, IdleType, Zenon DEF Init
  <2>3. lastStep \in 0 .. MaxStep /\ uses \in [Proofs -> 0 .. 2] /\ device \subseteq Ages
      BY SignInAssumption DEF Init
  <2> QED BY <2>1, <2>2, <2>3, Zenon DEF Init, TypeOK
<1>2. /\ \A q \in Requests : req[q] = Idle
      /\ \A s \in Sids : sess[s] = NoSession
      /\ \A p \in Proofs : uses[p] = 0
      /\ device = {}
    BY Zenon DEF Init
<1>9. ~Blocked
  <2>1. CASE acct \in [exists : {TRUE}, password : Passwords, legacy : BOOLEAN,
                       disabled : {FALSE}, mustChange : {FALSE}]
      BY <2>1, Zenon DEF Blocked
  <2>2. CASE acct = [exists |-> FALSE, password |-> NoPassword, legacy |-> FALSE,
                     disabled |-> FALSE, mustChange |-> FALSE]
      BY <2>2, Zenon DEF Blocked
  <2> QED BY <2>1, <2>2, Zenon DEF Init
<1>3. \A s \in Sids : ~Live(s) /\ sess[s].guesses = 0 /\ sess[s].fails = 0
  <2>1. NoSession.state # "live" /\ NoSession.guesses = 0 /\ NoSession.fails = 0
      BY Zenon DEF NoSession
  <2> QED BY <1>2, <2>1, Zenon DEF Live
<1>4. PcInv
    BY <1>2, IdleType, Zenon DEF PcInv, Fresh
<1>5. CapInv
  <2> SUFFICES ASSUME NEW W \in SUBSET Approved
               PROVE  Cardinality(LiveFull \ Leaving(W)) + Cardinality(W)
                        <= CapMax + Cardinality(Requests) - 1
      BY Zenon DEF CapInv
  <2>1. W = {} /\ LiveFull \ Leaving(W) = {}
      BY <1>2, <1>3, IdleType, Zenon DEF Approved, LiveFull
  <2>2. Cardinality(LiveFull \ Leaving(W)) = 0 /\ Cardinality(W) = 0
      BY <2>1, Zenon DEF Counting
  <2>3. Cardinality(Requests) \in Nat /\ CapMax \in Nat /\ CapMax >= 1
      BY RequestsFinite, SignInAssumption
  <2> QED BY <2>2, <2>3
<1>6. GuessInv
  <2> SUFFICES ASSUME NEW s \in Sids PROVE GuessAt(s)
      BY Zenon DEF GuessInv
  <2>1. Guessing(s) = {} /\ Guessed(s) = {}
      BY <1>2, IdleType, Zenon DEF Guessing, Guessed, At
  <2>2. Cardinality(Guessing(s)) = 0 /\ Cardinality(Guessed(s)) = 0
      BY <2>1, Zenon DEF Counting
  <2>3. /\ Cardinality(Requests) \in Nat
        /\ MaxFailures \in Nat /\ MaxFailures >= 1
      BY RequestsFinite, SignInAssumption
  <2> QED BY <1>3, <2>2, <2>3 DEF GuessAt
<1>7. ProofInv
    BY <1>2, IdleType, NoProofNoProof, Zenon DEF ProofInv
<1>8. LateInv /\ BlockedMeansOut /\ StaleInv
    BY <1>2, <1>3, <1>9, Zenon DEF LateInv, BlockedMeansOut, StaleInv
<1> QED BY <1>1, <1>4, <1>5, <1>6, <1>7, <1>8, Zenon DEF SignInInv

LEMMA SignInNext == Counting /\ SignInInv /\ [Next]_vars => SignInInv'
<1> SUFFICES ASSUME Counting, SignInInv, [Next]_vars PROVE SignInInv'
    BY Zenon
<1>0. TypeOK /\ PcInv /\ ProofInv
    BY Zenon DEF SignInInv
<1>1. ASSUME NEW r \in Requests, Step(r) PROVE SignInInv'
  <2>1. Kept
      BY <1>1, StepKeeps, Zenon
  <2>2. /\ UNCHANGED <<features, capMode, factor>>
        /\ ticket' = ticket \/ \E t \in Tickets : Spend(t)
        /\ lastStep' = lastStep \/ lastStep' \in Steps
        /\ device' \in {device, {}, {"stale"}} \/ device' \in {device \cup {a} : a \in {"fresh", "overlap"}}
        /\ uses' = uses \/ Use(req[r].proof)
      BY <1>1, StepWrites, Zenon
  <2>3. ticket' \in [Tickets -> {"none", "open", "used"}]
      BY <1>0, <2>2, Zenon DEF TypeOK, Spend
  <2>4. lastStep' \in 0 .. MaxStep
      BY <1>0, <2>2, SignInAssumption DEF TypeOK, Steps
  <2>5. device' \subseteq Ages
    <3>1. device \subseteq Ages
        BY <1>0, Zenon DEF TypeOK
    <3>2. CASE device' \in {device, {}, {"stale"}}
        BY <3>1, <3>2, Zenon DEF Ages
    <3>3. CASE device' \in {device \cup {a} : a \in {"fresh", "overlap"}}
      <4>1. PICK a \in {"fresh", "overlap"} : device' = device \cup {a}
          BY <3>3, Zenon
      <4> QED BY <3>1, <4>1, Zenon DEF Ages
    <3> QED BY <2>2, <3>2, <3>3, Zenon
  <2>6. uses' \in [Proofs -> 0 .. 2]
    <3>1. uses \in [Proofs -> 0 .. 2] /\ req[r].proof \in Proofs \cup {NoProof}
        BY <1>0, Types, Zenon DEF TypeOK, ReqOK, Request
    <3>2. \A p \in Proofs : uses[p] + 1 \in 0 .. 2
        BY <1>0 DEF ProofInv
    <3> QED BY <2>2, <3>1, <3>2, Zenon DEF Use
  <2>7. TypeOK'
    <3>1. features' \in Deployments /\ capMode' \in {"evict_oldest", "reject"}
          /\ factor' \in {"none", "confirmed"}
        BY <1>0, <2>2, Zenon DEF TypeOK
    <3> QED BY <2>1, <2>3, <2>4, <2>5, <2>6, <3>1, Zenon DEF TypeOK, Kept, Moved, ReqOK, AcctOK
  <2> QED BY <2>1, <2>7, Zenon DEF Kept, Moved, SignInInv
<1>2. CASE \/ \E t \in Links \cup Resets : Mail(t)
           \/ FinishEnrollment \/ DeleteTOTP
           \/ EnableUser \/ UnsetMustChange \/ RevokeTrustedDevices
           \/ \E s \in Sids : RevokeSession(s) \/ RevokeOtherSessions(s)
  <2>1. Plain /\ Moved /\ sess' \in [Sids -> Session]
      BY <1>0, <1>2, PlainGlobal, Zenon
  <2>2. Kept
      BY <2>1, PlainKept, Zenon
  <2>3. /\ UNCHANGED <<features, capMode, lastStep, uses>> /\ device' \in {device, {}}
        /\ factor' \in {factor, "none", "confirmed"}
      BY <1>2, Zenon DEF Mail, FinishEnrollment, DeleteTOTP, EnableUser, UnsetMustChange,
                  RevokeTrustedDevices, RevokeSession, RevokeOtherSessions, config
  <2>4. \/ ticket' = ticket
        \/ \E t \in Links \cup Resets : ticket' = [ticket EXCEPT ![t] = "open"]
        \/ ticket' = [t \in Tickets |-> IF t \in Codes /\ ticket[t] = "none"
                                        THEN "open" ELSE ticket[t]]
      BY <1>2, Zenon DEF Mail, FinishEnrollment, DeleteTOTP, EnableUser, UnsetMustChange,
                  RevokeTrustedDevices, RevokeSession, RevokeOtherSessions
  <2>5. ticket' \in [Tickets -> {"none", "open", "used"}]
      BY <1>0, <2>4 DEF TypeOK
  <2>6. TypeOK'
    <3>1. /\ features' \in Deployments /\ capMode' \in {"evict_oldest", "reject"}
          /\ factor' \in {"none", "confirmed"} /\ lastStep' \in 0 .. MaxStep
          /\ uses' \in [Proofs -> 0 .. 2] /\ device' \subseteq Ages
        BY <1>0, <2>3, Zenon DEF TypeOK
    <3> QED BY <2>1, <2>5, <3>1, Zenon DEF TypeOK, Moved, ReqOK, AcctOK
  <2> QED BY <2>2, <2>6, Zenon DEF Kept, Moved, SignInInv
<1>3. CASE UNCHANGED vars
  <2>1. /\ UNCHANGED <<features, capMode, acct, factor, lastStep, ticket, sess, device, req, uses>>
      BY <1>3, Zenon DEF vars
  <2>2. TypeOK' /\ PcInv'
      BY <1>0, <2>1, Zenon DEF TypeOK, PcInv
  <2>3. CapInv' /\ GuessInv'
    <3>1. Approved' = Approved /\ LiveFull' = LiveFull
        BY <2>1, Zenon DEF Approved, LiveFull, Live
    <3>2. \A W : Leaving(W)' = Leaving(W)
        BY <2>1, Zenon DEF Leaving
    <3>3. CapInv'
        BY <3>1, <3>2, Zenon DEF SignInInv, CapInv
    <3>4. GuessInv'
        BY <2>1, Zenon DEF SignInInv, GuessInv, GuessAt, Guessing, Guessed, At, Live
    <3> QED BY <3>3, <3>4, Zenon
  <2>4. ProofInv'
      BY <2>1, Zenon DEF SignInInv, ProofInv, Spent
  <2>5. LateInv' /\ BlockedMeansOut' /\ StaleInv'
      BY <2>1, Zenon DEF SignInInv, LateInv, BlockedMeansOut, StaleInv, Blocked, Live, At
  <2> QED BY <2>2, <2>3, <2>4, <2>5, Zenon DEF SignInInv
<1> QED BY <1>1, <1>2, <1>3, Zenon DEF Next

-----------------------------------------------------------------------------
(* The counting, from the library.                                         *)

INSTANCE FiniteSetTheorems

\* Evicting the n oldest of X leaves at most |X| - n: the number of older sessions is a different
\* one for each that is left, and is at least n and less than |X|.
LEMMA OldestLeaves ==
  ASSUME NEW X \in SUBSET Sids, NEW n \in Nat, n <= Cardinality(X)
  PROVE  Cardinality(X \ Oldest(X, n)) <= Cardinality(X) - n
<1> DEFINE Older(s) == {t \in X : t < s}
           Y == X \ Oldest(X, n)
           I == n .. Cardinality(X) - 1
           rank == [s \in Y |-> Cardinality(Older(s))]
<1>s. IsFiniteSet(Sids) /\ Sids \subseteq Nat
    BY SignInAssumption, FS_Interval DEF Sids
<1>0. IsFiniteSet(X) /\ Cardinality(X) \in Nat /\ X \subseteq Nat
    BY <1>s, FS_Subset, FS_CardinalityType, Zenon
<1>1. \A s \in X : IsFiniteSet(Older(s)) /\ Cardinality(Older(s)) \in Nat
    BY <1>0, FS_Subset, FS_CardinalityType, Zenon
<1>2. ASSUME NEW s \in X PROVE Cardinality(Older(s)) < Cardinality(X)
  <2>1. Older(s) \in SUBSET X /\ s \notin Older(s)
      BY <1>0
  <2>2. Older(s) # X
      BY <2>1, Zenon
  <2> HIDE DEF Older
  <2> QED BY <1>0, <1>1, <2>1, <2>2, FS_Subset
<1>3. ASSUME NEW s \in X, NEW t \in X, s < t
      PROVE  Cardinality(Older(s)) < Cardinality(Older(t))
  <2>0. \A u \in X : u \in Nat
      BY <1>0, Zenon
  <2>1. Older(s) \in SUBSET Older(t) /\ s \in Older(t) /\ s \notin Older(s)
    <3>1. s \in Older(t)
        BY <1>3, Zenon
    <3>2. s \notin Older(s)
        BY <2>0
    <3>3. \A u \in X : u < s => u < t
        BY <1>3, <2>0
    <3> QED BY <3>1, <3>2, <3>3, Zenon
  <2>2. Older(s) # Older(t)
      BY <2>1, Zenon
  <2> HIDE DEF Older
  <2> QED BY <1>1, <2>1, <2>2, FS_Subset
<1>4. \A s \in Y : s \in X /\ Cardinality(Older(s)) >= n
    BY <1>1 DEF Oldest
<1>5. IsFiniteSet(I) /\ Cardinality(I) = Cardinality(X) - n
  <2>1. PICK b \in Int : b = Cardinality(X) - 1
      BY <1>0
  <2>2. IsFiniteSet(n .. b) /\ Cardinality(n .. b) = IF n > b THEN 0 ELSE b - n + 1
      BY FS_Interval
  <2> QED BY <1>0, <2>1, <2>2
<1>6. rank \in Injection(Y, I)
  <2> HIDE DEF Older, Y
  <2>1. \A s \in Y : rank[s] \in I
    <3> TAKE s \in Y
    <3>1. /\ Cardinality(Older(s)) \in Nat /\ Cardinality(Older(s)) >= n
          /\ Cardinality(Older(s)) < Cardinality(X)
        BY <1>1, <1>2, <1>4, Zenon
    <3>2. rank[s] = Cardinality(Older(s))
        OBVIOUS
    <3> QED BY <1>0, <3>1, <3>2
  <2>2. ASSUME NEW s \in Y, NEW t \in Y, rank[s] = rank[t] PROVE s = t
    <3>1. s \in X /\ t \in X /\ Cardinality(Older(s)) = Cardinality(Older(t))
        BY <1>4, <2>2, Zenon
    <3>2. ~(s < t) /\ ~(t < s)
        BY <1>1, <1>3, <3>1
    <3> QED BY <1>0, <3>1, <3>2
  <2> QED BY <2>1, <2>2, Zenon DEF Injection, IsInjective
<1> HIDE DEF Y, I, rank
<1>7. Cardinality(Y) <= Cardinality(I)
    BY <1>5, <1>6, FS_Injection, Zenon
<1> QED BY <1>5, <1>7 DEF Y

LEMMA CountingHolds == Counting
<1>1. IsFiniteSet({}) /\ Cardinality({}) = 0
    BY FS_EmptySet
<1>2. IsFiniteSet(Sids)
    BY SignInAssumption, FS_Interval DEF Sids
<1>3. ASSUME NEW S, IsFiniteSet(S)
      PROVE  /\ Cardinality(S) \in Nat
             /\ \A T \in SUBSET S : /\ IsFiniteSet(T) /\ Cardinality(T) <= Cardinality(S)
                                   /\ Cardinality(S \ T) = Cardinality(S) - Cardinality(T)
             /\ \A x : IsFiniteSet(S \cup {x}) /\ (x \notin S => Cardinality(S \cup {x}) = Cardinality(S) + 1)
  <2>1. Cardinality(S) \in Nat
      BY <1>3, FS_CardinalityType, Zenon
  <2>2. ASSUME NEW T \in SUBSET S
        PROVE  /\ IsFiniteSet(T) /\ Cardinality(T) <= Cardinality(S)
               /\ Cardinality(S \ T) = Cardinality(S) - Cardinality(T)
    <3>1. S \cap T = T
        BY Zenon
    <3>2. IsFiniteSet(T) /\ Cardinality(T) <= Cardinality(S)
        BY <1>3, FS_Subset, Zenon
    <3>3. Cardinality(S \ T) = Cardinality(S) - Cardinality(S \cap T)
        BY <1>3, FS_Difference, Zenon
    <3> QED BY <3>1, <3>2, <3>3, Zenon
  <2>3. ASSUME NEW x
        PROVE  /\ IsFiniteSet(S \cup {x})
               /\ x \notin S => Cardinality(S \cup {x}) = Cardinality(S) + 1
      BY <1>3, FS_AddElement, Zenon
  <2> QED BY <2>1, <2>2, <2>3, Zenon
<1>4. \A X \in SUBSET Sids, n \in Nat :
        n <= Cardinality(X) => Cardinality(X \ Oldest(X, n)) <= Cardinality(X) - n
    BY OldestLeaves
<1> HIDE DEF Oldest
<1> QED BY <1>1, <1>2, <1>3, <1>4, Zenon DEF Counting

-----------------------------------------------------------------------------
(* What holds in every reachable state.                                    *)

\* The inductive invariant of the sign-in calls: what each call in flight has already read or
\* spent bounds what it may still write, however the calls and the administrator interleave.
THEOREM SignInInvariant == Spec => []SignInInv
BY CountingHolds, SignInInit, SignInNext, PTL DEF Spec

(* For every cap and any number of requests, the variables keep their      *)
(* types and the cap is passed by at most one session per other request:   *)
(* EnforceCap is best effort, and this is how far off it is.               *)
THEOREM CapHolds == Spec => []SessionsCapped
<1>1. SignInInv => SessionsCapped
  <2> SUFFICES ASSUME SignInInv PROVE SessionsCapped
      BY Zenon
  <2>1. {} \in SUBSET Approved /\ LiveFull \ Leaving({}) = LiveFull
      BY Zenon DEF Leaving
  <2>2. Cardinality(LiveFull) + Cardinality({}) <= CapMax + Cardinality(Requests) - 1
      BY <2>1, Zenon DEF SignInInv, CapInv
  <2>3. Cardinality(LiveFull) \in Nat /\ Cardinality({}) = 0
      BY CountingHolds, SidsFinite, Zenon DEF LiveFull, Counting
  <2> QED BY <2>2, <2>3 DEF SignInInv, SessionsCapped, CapOvershoot
<1> QED BY <1>1, SignInInvariant, PTL

(* Whatever else runs, once a block has returned only requests that had    *)
(* passed their last account check before it leave live sessions.          *)
THEOREM BlockHolds == Spec => []BlockedMeansOut
<1>1. SignInInv => BlockedMeansOut
    BY Zenon DEF SignInInv
<1> QED BY <1>1, SignInInvariant, PTL

(* However resets, changes, sign-ins and promotions interleave, no session *)
(* and no trusted device from before the new password outlives the change. *)
THEOREM ChangeEndsSessions == Spec => []PasswordChangeEndsSessions
<1>1. SignInInv => PasswordChangeEndsSessions
    BY DEF SignInInv, StaleInv, PasswordChangeEndsSessions
<1> QED BY <1>1, SignInInvariant, PTL

(* A link, a reset token, a recovery code and a TOTP step each take effect *)
(* at most once, for any number of requests that present them.             *)
THEOREM ProofsOnce == Spec => []ProofsSpentOnce
<1>1. SignInInv => ProofsSpentOnce
    BY DEF SignInInv, ProofInv, ProofsSpentOnce
<1> QED BY <1>1, SignInInvariant, PTL

(* For every limit, the guesses at one pending session stay below the      *)
(* limit plus the number of concurrent requests.                           *)
THEOREM GuessesHold == Spec => []GuessesBounded
<1>1. SignInInv => GuessesBounded
  <2> SUFFICES ASSUME SignInInv, NEW s \in Sids
               PROVE  sess[s].guesses <= MaxFailures + Cardinality(Requests) - 1
      BY Zenon DEF GuessesBounded
  <2>1. sess[s].guesses + Cardinality(Guessing(s)) <= MaxFailures + Cardinality(Requests) - 1
      BY Zenon DEF SignInInv, GuessInv, GuessAt
  <2> QED BY <2>1, Types, CountingHolds, GuessNumbers DEF SignInInv
<1> QED BY <1>1, SignInInvariant, PTL

=============================================================================
