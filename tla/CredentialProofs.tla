-------------------------- MODULE CredentialProofs --------------------------
(***************************************************************************)
(* Proofs about what is presented to sign in or to register: one-time      *)
(* codes, passkeys, the throttle that counts wrong guesses, and            *)
(* registration tokens. The constants of each component get their          *)
(* assumptions as hypotheses of the theorems.                              *)
(***************************************************************************)
EXTENDS Integers, FiniteSets, Sequences, FiniteCounts, TLAPS

-----------------------------------------------------------------------------
(* Counting: how many members of a finite set a function takes into a set  *)
(* of values, and how that number moves when the function changes at one   *)
(* point.                                                                  *)

(* The members of D that f takes into V.                                   *)
Into(f, D, V) == {d \in D : f[d] \in V}

One(v, V) == IF v \in V THEN 1 ELSE 0

DifferAt(f, g, D, x) == \A d \in D : d /= x => g[d] = f[d]

LEMMA IntoCounts ==
    ASSUME FiniteSetFacts, NEW D, IsFiniteSet(D), NEW V, NEW f
    PROVE  /\ IsFiniteSet(Into(f, D, V)) /\ Cardinality(Into(f, D, V)) \in Nat
           /\ Cardinality(Into(f, D, V)) <= Cardinality(D)
<1>1. Into(f, D, V) \subseteq D
    BY Zenon DEF Into
<1> QED BY <1>1, Zenon DEF FiniteSetFacts, PartCounts, NumberCounts

LEMMA IntoHas ==
    ASSUME FiniteSetFacts, NEW D, IsFiniteSet(D), NEW V, NEW f, NEW x \in D, f[x] \in V
    PROVE  Cardinality(Into(f, D, V)) > 0
<1>1. x \in Into(f, D, V)
    BY Zenon DEF Into
<1> QED BY <1>1, IntoCounts DEF FiniteSetFacts, EmptyCounts

(* Where g differs from f at one point at most, the numbers of members     *)
(* they take into V differ by what they do with that point.                *)
LEMMA IntoChange ==
    ASSUME FiniteSetFacts, NEW D, IsFiniteSet(D), NEW V, NEW f, NEW g, NEW x \in D, DifferAt(f, g, D, x)
    PROVE  Cardinality(Into(g, D, V)) =
             Cardinality(Into(f, D, V)) + One(g[x], V) - One(f[x], V)
<1> DEFINE new == Into(g, D, V)
           old == Into(f, D, V)
<1> USE DEF One, DifferAt
<1>1. x \in old <=> f[x] \in V
    BY Zenon DEF Into
<1>2. IsFiniteSet(old) /\ Cardinality(old) \in Nat
    BY IntoCounts, Zenon
<1>3. CASE g[x] \in V <=> f[x] \in V
  <2>1. new = old
      BY <1>3, Zenon DEF Into
  <2> QED BY <1>2, <1>3, <2>1
<1>4. CASE g[x] \in V /\ f[x] \notin V
  <2>1. new = old \cup {x}
      BY <1>4, Zenon DEF Into
  <2>2. Cardinality(old \cup {x}) = Cardinality(old) + 1
      BY <1>1, <1>2, <1>4, Zenon DEF FiniteSetFacts, AddCounts
  <2> QED BY <1>2, <1>4, <2>1, <2>2
<1>5. CASE g[x] \notin V /\ f[x] \in V
  <2>1. new = old \ {x}
      BY <1>5, Zenon DEF Into
  <2>2. Cardinality(old \ {x}) = Cardinality(old) - 1
      BY <1>1, <1>2, <1>5, Zenon DEF FiniteSetFacts, RemoveCounts
  <2> QED BY <1>2, <1>5, <2>1, <2>2
<1> QED BY <1>3, <1>4, <1>5, Zenon

LEMMA IntoNone ==
    ASSUME FiniteSetFacts, NEW D, NEW V, NEW f, \A d \in D : f[d] \notin V
    PROVE  Cardinality(Into(f, D, V)) = 0
<1>1. Into(f, D, V) = {}
    BY Zenon DEF Into
<1> QED BY <1>1, Zenon DEF FiniteSetFacts, EmptyCounts

-----------------------------------------------------------------------------
(* One-time codes (Otp). The verifications past the attempt check are      *)
(* counted against the attempts the code still has, and the reads of a     *)
(* code are ordered against its deletion.                                  *)

CONSTANTS Verifiers, MaxAttempts, CodeTTL, LockTTL, Cooldown, MaxCodes
VARIABLES cache, issuer, verify, codes, log
O == INSTANCE Otp

OtpConstants ==
    /\ IsFiniteSet(Verifiers) /\ MaxAttempts \in Nat \ {0} /\ MaxCodes \in Nat
    /\ CodeTTL \in Nat \ {0} /\ LockTTL \in Nat \ {0} /\ Cooldown \in Nat \ {0} /\ CodeTTL <= LockTTL
OtpSetting == OtpConstants /\ FiniteSetFacts

OtpSteps == {"idle", "count", "lock", "discard", "compare", "delete", "clear"}
OtpRequest == [step : OtpSteps, guess : 0..codes, spent : SUBSET (1..codes)]

(* How many requests are at one of the steps V.                            *)
Step == [v \in Verifiers |-> verify[v].step]
At(V) == Cardinality(Into(Step, Verifiers, V))

CacheOf(n) == [code : 0..n, codeLeft : 0..CodeTTL, att : Nat,
               attLeft : 0..LockTTL, lockLeft : 0..LockTTL, cdLeft : 0..Cooldown]
CacheOK == /\ cache \in CacheOf(codes)
           /\ cache.code = 0 <=> cache.codeLeft = 0
           /\ cache.att = 0 <=> cache.attLeft = 0
LogOf(n) == [guesses : 0..MaxAttempts + 1, muddled : BOOLEAN,
             accepted : SUBSET (1..n), reused : SUBSET (1..n)]

OtpTypes ==
    /\ CacheOK
    /\ issuer \in {"idle", "cooldown", "set", "reset", "send", "unsend", "release"}
    /\ verify \in [Verifiers -> OtpRequest]
    /\ codes \in 0..MaxCodes /\ (issuer \in {"cooldown", "set"} => codes < MaxCodes)
    /\ log \in LogOf(codes)

(* A code that was accepted is no longer the one kept, and a request on    *)
(* its way to accept one started before any other had accepted it.         *)
Fresh ==
    /\ log.reused = {} /\ cache.code \notin log.accepted
    /\ \A v \in Verifiers :
          /\ verify[v].spent \subseteq log.accepted
          /\ verify[v].step \in {"delete", "clear"} =>
               verify[v].guess \notin verify[v].spent /\ verify[v].guess > 0
          /\ verify[v].step = "clear" => verify[v].guess /= cache.code

(* While a code that was issued undisturbed is kept, the counter covers    *)
(* the guesses made and the ones about to be made, and outlives the code.  *)
Counted ==
    ~log.muddled =>
      /\ log.guesses <= MaxAttempts
      /\ cache.code /= 0 =>
           /\ \A v \in Verifiers : verify[v].step /= "clear"
           /\ issuer = "reset" => log.guesses = 0 /\ O!Busy = {}
           /\ issuer /= "reset" => /\ log.guesses + At({"compare"}) <= cache.att
                                   /\ log.guesses + At({"compare"}) <= MaxAttempts
                                   /\ cache.att > 0 => cache.codeLeft <= cache.attLeft

(* The counter passes its limit once per request at most: who passes it    *)
(* locks, and the lock outlives the counter.                               *)
Overshoot ==
    cache.att <= MaxAttempts + At({"lock"})
                   + (IF cache.attLeft <= cache.lockLeft THEN At({"idle", "discard"}) ELSE 0)

OtpInv == OtpTypes /\ Fresh /\ Counted /\ Overshoot

(* The invariant holds initially, every step of issuing and verifying a    *)
(* code keeps it, and it bounds the guesses.                               *)
LEMMA OtpSound ==
    ASSUME OtpSetting
    PROVE  /\ O!Init => OtpInv
           /\ OtpInv /\ [O!Next]_O!otpVars => OtpInv'
           /\ OtpInv => O!GuessingIsBounded
<1>OtpCount. ASSUME NEW S PROVE O!Cardinality(S) = Cardinality(S)
  BY <1>OtpCount, Zenon DEF O!Cardinality, Cardinality
<1>AtCounts. ASSUME NEW V PROVE At(V) \in Nat
  BY <1>AtCounts, IntoCounts, Zenon DEF At, OtpSetting, OtpConstants
(* A step of one request, and the numbers of requests at each step.        *)
<1>StepMoves. ASSUME OtpTypes, NEW v \in Verifiers, NEW r, verify' = [verify EXCEPT ![v] = r],
                     r \in OtpRequest
              PROVE  /\ verify' \in [Verifiers -> OtpRequest]
                     /\ verify'[v] = r /\ \A w \in Verifiers : w /= v => verify'[w] = verify[w]
                     /\ \A V : At(V)' = At(V) + One(r.step, V) - One(verify[v].step, V)
  <2> USE <1>StepMoves
  <2>1. verify \in [Verifiers -> OtpRequest]
      BY Zenon DEF CacheOK, CacheOf, LogOf, OtpTypes
  <2>2. /\ verify' \in [Verifiers -> OtpRequest]
        /\ verify'[v] = r /\ \A w \in Verifiers : w /= v => verify'[w] = verify[w]
      BY <2>1, Zenon
  <2>3. DifferAt(Step, Step', Verifiers, v) /\ Step[v] = verify[v].step /\ Step'[v] = r.step
      BY <2>2, Zenon DEF DifferAt, Step
  <2>4. ASSUME NEW V
        PROVE  At(V)' = At(V) + One(r.step, V) - One(verify[v].step, V)
      BY <2>3, IntoChange DEF At, OtpSetting, OtpConstants
  <2> QED BY <2>2, <2>4, Zenon
<1>StepStays. ASSUME UNCHANGED verify PROVE \A V : At(V)' = At(V)
  BY <1>StepStays, Zenon DEF At, Step
(* The writes of the cache, one key at a time.                             *)
<1>CodeWritten. ASSUME CacheOK, codes \in Nat, codes' \in Nat, codes <= codes',
                       NEW c \in 0..codes', NEW l \in 0..CodeTTL, c = 0 <=> l = 0,
                       cache' = [cache EXCEPT !.code = c, !.codeLeft = l]
                PROVE  /\ CacheOK' /\ cache'.code = c /\ cache'.codeLeft = l /\ cache'.att = cache.att
                       /\ cache'.attLeft = cache.attLeft /\ cache'.lockLeft = cache.lockLeft
  <2> USE <1>CodeWritten
  <2>1. /\ cache'.code = c /\ cache'.codeLeft = l /\ cache'.att = cache.att
        /\ cache'.attLeft = cache.attLeft /\ cache'.lockLeft = cache.lockLeft
      BY Zenon DEF CacheOf, CacheOK
  <2>2. cache' \in CacheOf(codes')
      BY Zenon DEF CacheOf, CacheOK
  <2> QED BY <2>1, <2>2, Zenon DEF CacheOK
<1>AttWritten. ASSUME CacheOK, codes' = codes,
                      NEW a \in Nat, NEW l \in 0..LockTTL, a = 0 <=> l = 0,
                      cache' = [cache EXCEPT !.att = a, !.attLeft = l]
               PROVE  /\ CacheOK' /\ cache'.code = cache.code /\ cache'.codeLeft = cache.codeLeft /\ cache'.att = a
                      /\ cache'.attLeft = l /\ cache'.lockLeft = cache.lockLeft
  <2> USE <1>AttWritten
  <2>1. /\ cache'.code = cache.code /\ cache'.codeLeft = cache.codeLeft /\ cache'.att = a
        /\ cache'.attLeft = l /\ cache'.lockLeft = cache.lockLeft
      BY Zenon DEF CacheOf, CacheOK
  <2>2. cache' \in CacheOf(codes')
      BY Zenon DEF CacheOf, CacheOK
  <2> QED BY <2>1, <2>2, Zenon DEF CacheOK
<1>LockWritten. ASSUME CacheOK, codes' = codes, NEW l \in 0..LockTTL,
                       cache' = [cache EXCEPT !.lockLeft = l]
                PROVE  /\ CacheOK' /\ cache'.code = cache.code /\ cache'.codeLeft = cache.codeLeft
                       /\ cache'.att = cache.att /\ cache'.attLeft = cache.attLeft /\ cache'.lockLeft = l
  BY <1>LockWritten, Zenon DEF CacheOf, CacheOK
<1>CooldownWritten. ASSUME CacheOK, codes' = codes, NEW l \in 0..Cooldown,
                           cache' = [cache EXCEPT !.cdLeft = l]
                    PROVE  CacheOK'
  BY <1>CooldownWritten, Zenon DEF CacheOf, CacheOK
<1>OtpInit. ASSUME O!Init PROVE OtpInv
  <2> USE <1>OtpInit
  <2> USE DEF OtpSetting, OtpConstants, O!Init, O!Idle
  <2>1. OtpTypes
      BY DEF CacheOK, CacheOf, LogOf, OtpTypes, OtpRequest, OtpSteps
  <2>2. Fresh /\ Counted
      BY DEF Fresh, Counted
  <2>3. Overshoot
      BY <1>AtCounts DEF Overshoot
  <2> QED BY <2>1, <2>2, <2>3, Zenon DEF OtpInv
<1>IssueKeeps. ASSUME OtpInv, O!Issue \/ O!TakeCooldown \/ O!Send \/ O!Unsend \/ O!ReleaseCooldown
               PROVE  OtpInv'
  <2> USE <1>IssueKeeps
  <2> USE DEF OtpSetting, OtpConstants
  <2>0. OtpTypes /\ Fresh /\ Counted /\ Overshoot
      BY Zenon DEF OtpInv
  <2>1. \A V : At(V)' = At(V)
      BY <1>StepStays, Zenon DEF O!Issue, O!TakeCooldown, O!Send, O!Unsend, O!ReleaseCooldown
  <2>2. /\ UNCHANGED <<verify, codes, log>> /\ issuer /= "reset" /\ issuer' /= "reset"
        /\ cache'.att = cache.att /\ cache'.attLeft = cache.attLeft /\ cache'.lockLeft = cache.lockLeft
        /\ (cache'.code = cache.code /\ cache'.codeLeft = cache.codeLeft) \/ cache'.code = 0
      BY <2>0, Zenon DEF CacheOK, CacheOf, LogOf, OtpTypes, O!Issue, O!TakeCooldown, O!Send, O!Unsend, O!ReleaseCooldown, O!DeleteCode
  <2>3. OtpTypes'
    <3>1. CacheOK'
      <4>1. CacheOK /\ codes \in Nat /\ codes' = codes
          BY <2>0, <2>2 DEF OtpTypes
      <4>2. CASE UNCHANGED cache
          BY <4>1, <4>2, Zenon DEF CacheOK
      <4>3. CASE O!DeleteCode
        <5>1. 0 \in 0..codes' /\ 0 \in 0..CodeTTL /\ codes <= codes'
            BY <4>1
        <5> QED BY <4>1, <4>3, <5>1, <1>CodeWritten, Zenon DEF O!DeleteCode
      <4>4. ASSUME NEW l \in 0..Cooldown, cache' = [cache EXCEPT !.cdLeft = l]
            PROVE  CacheOK'
          BY <4>1, <4>4, <1>CooldownWritten, Zenon
      <4> QED BY <4>2, <4>3, <4>4 DEF O!Issue, O!TakeCooldown, O!Send, O!Unsend, O!ReleaseCooldown
    <3>2. /\ issuer' \in {"idle", "cooldown", "set", "reset", "send", "unsend", "release"}
          /\ issuer' \in {"cooldown", "set"} => codes' < MaxCodes
        BY <2>0, <2>2, Zenon DEF CacheOK, CacheOf, LogOf, OtpTypes, O!Issue, O!TakeCooldown, O!Send, O!Unsend, O!ReleaseCooldown
    <3> QED BY <2>0, <2>2, <3>1, <3>2, Zenon DEF CacheOK, CacheOf, LogOf, OtpTypes, OtpRequest
  <2>4. Fresh'
      BY <2>0, <2>2 DEF CacheOK, CacheOf, LogOf, OtpTypes, Fresh
  <2>5. Counted'
      BY <2>0, <2>1, <2>2, Zenon DEF Counted
  <2>6. Overshoot'
      BY <2>0, <2>1, <2>2, Zenon DEF Overshoot
  <2> QED BY <2>3, <2>4, <2>5, <2>6, Zenon DEF OtpInv
<1>SetCodeKeeps. ASSUME OtpInv, O!SetCode PROVE OtpInv'
  <2> USE <1>SetCodeKeeps
  <2> USE DEF OtpSetting, OtpConstants
  <2>0. OtpTypes /\ Fresh /\ Counted /\ Overshoot
      BY Zenon DEF OtpInv
  <2>1. \A V : At(V)' = At(V)
      BY <1>StepStays, Zenon DEF O!SetCode
  <2>2. CASE UNCHANGED <<cache, codes, log>>
    <3>1. issuer = "set" /\ issuer' \in {"release", "reset"} /\ UNCHANGED verify
        BY Zenon DEF O!SetCode
    <3>2. issuer' = "release"
        BY <2>0, <2>2 DEF O!SetCode, CacheOK, OtpTypes
    <3>3. OtpTypes' /\ Fresh' /\ Overshoot'
        BY <2>0, <2>1, <2>2, <3>1, <3>2, Zenon DEF CacheOK, CacheOf, LogOf, OtpTypes, OtpRequest, Fresh, Overshoot
    <3>4. Counted'
        BY <2>0, <2>1, <2>2, <3>1, <3>2, Zenon DEF Counted
    <3> QED BY <3>3, <3>4, Zenon DEF OtpInv
  <2>3. CASE /\ issuer' = "reset" /\ codes' = codes + 1
             /\ cache' = [cache EXCEPT !.code = codes + 1, !.codeLeft = CodeTTL]
             /\ log' = [log EXCEPT !.guesses = 0, !.muddled = O!Busy /= {}]
    <3>1. issuer = "set" /\ UNCHANGED verify
        BY Zenon DEF O!SetCode
    <3>2. OtpTypes'
      <4>1. verify' \in [Verifiers -> OtpRequest']
          BY <2>0, <2>3, <3>1, SMTT(30) DEF OtpTypes, OtpRequest
      <4>2. CacheOK'
        <5>1. CacheOK /\ codes \in Nat /\ codes' \in Nat /\ codes <= codes' /\ codes + 1 \in 0..codes'
            BY <2>0, <2>3 DEF OtpTypes
        <5>2. CodeTTL \in 0..CodeTTL /\ (codes + 1 = 0 <=> CodeTTL = 0)
            BY <5>1, SMTT(30)
        <5> QED BY <2>3, <5>1, <5>2, <1>CodeWritten, Zenon
      <4>3. log' \in LogOf(codes')
        <5>1. log \in LogOf(codes) /\ codes \in Nat
            BY <2>0 DEF OtpTypes
        <5>2. 0 \in 0..MaxAttempts + 1 /\ (O!Busy /= {}) \in BOOLEAN /\ 1..codes \subseteq 1..codes'
            BY <2>3, <5>1
        <5> QED BY <2>3, <5>1, <5>2, Zenon DEF LogOf
      <4> QED BY <2>0, <2>3, <3>1, <4>1, <4>2, <4>3 DEF OtpTypes
    <3>3. Fresh'
        BY <2>0, <2>3, <3>1 DEF CacheOK, CacheOf, LogOf, OtpTypes, OtpRequest, Fresh
    <3>4. Overshoot'
      <4>1. cache'.att = cache.att /\ cache'.attLeft = cache.attLeft /\ cache'.lockLeft = cache.lockLeft
          BY <2>0, <2>3, Zenon DEF CacheOK, CacheOf, LogOf, OtpTypes
      <4> QED BY <2>0, <2>1, <4>1, Zenon DEF Overshoot
    <3>5. Counted'
      <4>1. log'.guesses = 0 /\ log'.muddled = (O!Busy /= {}) /\ O!Busy' = O!Busy
          BY <2>0, <2>3, <3>1, Zenon DEF CacheOK, CacheOf, LogOf, OtpTypes, O!Busy
      <4>2. ~log'.muddled => \A v \in Verifiers : verify'[v].step /= "clear"
          BY <3>1, <4>1, Zenon DEF O!Busy
      <4>3. ~log'.muddled => O!Busy' = {}
          BY <4>1, Zenon
      <4>4. issuer' = "reset" /\ 0 <= MaxAttempts
          BY <2>3
      <4> QED BY <4>1, <4>2, <4>3, <4>4, Zenon DEF Counted
    <3> QED BY <3>2, <3>3, <3>4, <3>5, Zenon DEF OtpInv
  <2> QED BY <2>2, <2>3, Zenon DEF O!SetCode
<1>ResetKeeps. ASSUME OtpInv, O!ResetAttempts PROVE OtpInv'
  <2> USE <1>ResetKeeps
  <2> USE DEF OtpSetting, OtpConstants, O!ResetAttempts, O!DeleteAttempts
  <2>0. OtpTypes /\ Fresh /\ Counted /\ Overshoot
      BY Zenon DEF OtpInv
  <2>1. OtpTypes' /\ Fresh'
    <3>1. CacheOK'
      <4>1. CacheOK /\ 0 \in 0..LockTTL
          BY <2>0 DEF OtpTypes
      <4> QED BY <4>1, <1>AttWritten, Zenon
    <3>2. OtpTypes'
        BY <2>0, <3>1, Zenon DEF OtpTypes, OtpRequest
    <3>3. cache'.code = cache.code
        BY <2>0 DEF OtpTypes, CacheOK
    <3> QED BY <2>0, <3>2, <3>3, SMTT(30) DEF Fresh
  <2>2. cache'.att = 0 /\ cache'.code = cache.code
      BY <2>0, Zenon DEF CacheOK, CacheOf, LogOf, OtpTypes
  <2>3. Overshoot'
    <3>1. At({"lock"})' \in Nat /\ At({"idle", "discard"})' \in Nat
        BY <1>AtCounts, <1>StepStays, Zenon
    <3> QED BY <2>2, <3>1 DEF Overshoot
  <2>4. Counted'
    <3>1. ASSUME O!Busy = {} PROVE At({"compare"})' = 0
      <4>1. \A v \in Verifiers : Step'[v] \notin {"compare"}
          BY <3>1, Zenon DEF O!Busy, Step
      <4> QED BY <4>1, IntoNone, Zenon DEF At, OtpSetting
    <3> QED BY <2>0, <2>2, <3>1 DEF Counted, CacheOK, OtpTypes
  <2> QED BY <2>1, <2>3, <2>4, Zenon DEF OtpInv
<1>OtpTickKeeps. ASSUME OtpInv, O!Tick PROVE OtpInv'
  <2> USE <1>OtpTickKeeps
  <2> USE DEF OtpSetting, OtpConstants
  <2>0. OtpTypes /\ Fresh /\ Counted /\ Overshoot
      BY Zenon DEF OtpInv
  <2>1. (\A V : At(V)' = At(V)) /\ UNCHANGED <<issuer, verify, codes, log>>
      BY <1>StepStays, Zenon DEF O!Tick
  <2>2. At({"lock"}) \in Nat /\ At({"idle", "discard"}) \in Nat /\ At({"compare"}) \in Nat
      BY <1>AtCounts, Zenon
  <2>3. OtpTypes'
      BY <2>0 DEF CacheOK, CacheOf, LogOf, OtpTypes, OtpRequest, O!Tick
  <2>4. /\ cache'.code = 0 \/ (cache'.code = cache.code /\ cache'.codeLeft = cache.codeLeft - 1)
        /\ cache'.att = 0 \/ (cache'.att = cache.att /\ cache'.attLeft = cache.attLeft - 1)
        /\ cache.attLeft <= cache.lockLeft => cache'.attLeft <= cache'.lockLeft
        /\ cache'.code /= 0 /\ cache.codeLeft <= cache.attLeft => cache'.att = cache.att /\ cache'.codeLeft <= cache'.attLeft
        /\ cache'.att <= cache.att
      BY <2>0 DEF CacheOK, CacheOf, LogOf, OtpTypes, O!Tick
  <2>5. Fresh'
      BY <2>0, <2>1, <2>4 DEF CacheOK, CacheOf, LogOf, OtpTypes, Fresh
  <2>6. Overshoot'
    <3>1. CASE cache'.att = 0
        BY <2>1, <2>2, <3>1 DEF Overshoot
    <3>2. CASE cache'.att = cache.att /\ cache'.attLeft = cache.attLeft - 1
      <4>1. cache.att \in Nat
          BY <2>0, Zenon DEF OtpTypes, CacheOK, CacheOf
      <4> QED BY <2>0, <2>1, <2>2, <2>4, <3>2, <4>1 DEF Overshoot
    <3> QED BY <2>4, <3>1, <3>2, Zenon
  <2>7. Counted'
    <3>1. O!Busy' = O!Busy
        BY <2>1, Zenon DEF O!Busy
    <3>2. ASSUME ~log.muddled, cache'.code /= 0, issuer /= "reset"
          PROVE  /\ log.guesses + At({"compare"}) <= cache'.att
                 /\ cache'.att > 0 => cache'.codeLeft <= cache'.attLeft
      <4>1. /\ log.guesses + At({"compare"}) <= cache.att
            /\ cache.att > 0 => cache.codeLeft <= cache.attLeft
          BY <2>0, <2>4, <3>2, Zenon DEF Counted
      <4>2. CASE cache.att > 0
          BY <2>4, <3>2, <4>1, <4>2, Zenon
      <4>3. CASE cache.att = 0
        <5>1. cache'.att = 0
            BY <2>0, <2>4, <4>3, Zenon DEF CacheOK, CacheOf, LogOf, OtpTypes
        <5> QED BY <4>1, <4>3, <5>1
      <4> QED BY <2>0, <4>2, <4>3 DEF CacheOK, CacheOf, LogOf, OtpTypes
    <3> QED BY <2>0, <2>1, <2>4, <3>1, <3>2, Zenon DEF Counted
  <2> QED BY <2>3, <2>5, <2>6, <2>7, Zenon DEF OtpInv
<1>ToMoves. ASSUME OtpTypes, NEW v \in Verifiers, NEW st \in OtpSteps, O!To(v, st), codes' = codes
            PROVE  /\ verify' \in [Verifiers -> OtpRequest']
                   /\ verify'[v].step = st /\ verify'[v].guess = verify[v].guess /\ verify'[v].spent = verify[v].spent
                   /\ \A w \in Verifiers : w /= v => verify'[w] = verify[w]
                   /\ \A V : At(V)' = At(V) + One(st, V) - One(verify[v].step, V)
  <2> USE <1>ToMoves
  <2> DEFINE r == [step |-> st, guess |-> verify[v].guess, spent |-> verify[v].spent]
  <2>1. verify[v] \in OtpRequest /\ OtpRequest' = OtpRequest
      BY Zenon DEF OtpTypes, OtpRequest
  <2>2. [verify[v] EXCEPT !.step = st] = r
      BY <2>1 DEF OtpRequest
  <2>3. verify' = [verify EXCEPT ![v] = r]
      BY <2>2, Zenon DEF O!To
  <2>4. r \in OtpRequest /\ r.step = st /\ r.guess = verify[v].guess /\ r.spent = verify[v].spent
      BY <2>1, Zenon DEF OtpRequest
  <2> HIDE DEF r
  <2> QED BY <2>1, <2>3, <2>4, <1>StepMoves, Zenon
<1>IdleMoves. ASSUME OtpTypes, NEW v \in Verifiers, verify' = [verify EXCEPT ![v] = O!Idle], codes' = codes
              PROVE  /\ verify' \in [Verifiers -> OtpRequest']
                     /\ verify'[v].step = "idle" /\ verify'[v].spent = {}
                     /\ \A w \in Verifiers : w /= v => verify'[w] = verify[w]
                     /\ \A V : At(V)' = At(V) + One("idle", V) - One(verify[v].step, V)
  <2> USE <1>IdleMoves
  <2>1. OtpRequest' = OtpRequest
      BY Zenon DEF OtpRequest
  <2>2. O!Idle \in OtpRequest /\ O!Idle.step = "idle" /\ O!Idle.spent = {}
      BY DEF OtpTypes, OtpRequest, OtpSteps, O!Idle
  <2>3. /\ verify' \in [Verifiers -> OtpRequest]
        /\ verify'[v] = O!Idle /\ \A w \in Verifiers : w /= v => verify'[w] = verify[w]
        /\ \A V : At(V)' = At(V) + One(O!Idle.step, V) - One(verify[v].step, V)
      BY <2>2, <1>StepMoves, Zenon
  <2> QED BY <2>1, <2>2, <2>3, Zenon
<1>VerifyKeeps. ASSUME OtpInv, NEW v \in Verifiers, NEW guess \in 0..codes, O!Verify(v, guess)
                PROVE  OtpInv'
  <2> USE <1>VerifyKeeps
  <2> DEFINE r == [step |-> "count", guess |-> guess, spent |-> log.accepted]
  <2> USE DEF OtpSetting, OtpConstants
  <2>0. OtpTypes /\ Fresh /\ Counted /\ Overshoot
      BY Zenon DEF OtpInv
  <2>1. /\ verify[v].step = "idle" /\ cache.lockLeft = 0 /\ UNCHANGED <<cache, issuer, codes, log>>
        /\ verify' = [verify EXCEPT ![v] = r]
      BY <2>0 DEF O!Verify, O!Locked, OtpTypes, CacheOK, CacheOf
  <2>2. r \in OtpRequest /\ r.step = "count" /\ r.spent = log.accepted /\ OtpRequest' = OtpRequest
      BY <2>0, <2>1, Zenon DEF OtpTypes, OtpRequest, OtpSteps, LogOf
  <2> HIDE DEF r
  <2>3. /\ verify' \in [Verifiers -> OtpRequest]
        /\ verify'[v] = r /\ \A w \in Verifiers : w /= v => verify'[w] = verify[w]
        /\ \A V : At(V)' = At(V) + One("count", V) - One("idle", V)
      BY <2>0, <2>1, <2>2, <1>StepMoves, ZenonT(30)
  <2>4. OtpTypes'
      BY <2>0, <2>1, <2>2, <2>3, Zenon DEF OtpTypes, CacheOK
  <2>5. Fresh'
      BY <2>0, <2>1, <2>2, <2>3, Zenon DEF Fresh
  <2>6. Counted'
    <3>1. At({"compare"})' = At({"compare"}) /\ At({"compare"}) \in Nat
        BY <2>3, <1>AtCounts DEF One
    <3>2. O!Busy' = O!Busy
        BY <2>1, <2>2, <2>3, Zenon DEF O!Busy
    <3>3. (\A w \in Verifiers : verify[w].step /= "clear") => \A w \in Verifiers : verify'[w].step /= "clear"
        BY <2>2, <2>3, Zenon
    <3> QED BY <2>0, <2>1, <3>1, <3>2, <3>3, Zenon DEF Counted
  <2>7. Overshoot'
    <3>1. At({"lock"})' = At({"lock"}) /\ At({"lock"}) \in Nat
        BY <2>3, <1>AtCounts DEF One
    <3>4. At({"idle", "discard"})' \in Nat
        BY IntoCounts, Zenon DEF At, OtpSetting
    <3>2. cache.attLeft <= cache.lockLeft => cache.att = 0
        BY <2>0, <2>1 DEF OtpTypes, CacheOK, CacheOf
    <3>3. cache.att \in Nat
        BY <2>0, Zenon DEF OtpTypes, CacheOK, CacheOf
    <3> QED BY <2>0, <2>1, <3>1, <3>2, <3>3, <3>4 DEF Overshoot
  <2> QED BY <2>4, <2>5, <2>6, <2>7, Zenon DEF OtpInv
<1>CountKeeps. ASSUME OtpInv, NEW v \in Verifiers, O!Count(v)
               PROVE  OtpInv'
  <2> USE <1>CountKeeps
  <2> DEFINE n == cache.att + 1
             left == IF cache.att = 0 THEN LockTTL ELSE cache.attLeft
             st == IF n > MaxAttempts THEN "lock" ELSE "compare"
  <2> USE DEF OtpSetting, OtpConstants
  <2>0. OtpTypes /\ Fresh /\ Counted /\ Overshoot
      BY Zenon DEF OtpInv
  <2>1. /\ verify[v].step = "count" /\ UNCHANGED <<issuer, codes>> /\ O!To(v, st)
        /\ cache' = [cache EXCEPT !.att = n, !.attLeft = left]
        /\ log' = [log EXCEPT !.muddled = log.muddled \/ issuer = "reset"]
      BY <2>0, Zenon DEF O!Count, O!TooMany, OtpTypes, CacheOK, CacheOf
  <2>2. /\ n \in Nat /\ left \in 0..LockTTL /\ (n = 0 <=> left = 0) /\ st \in OtpSteps
        /\ cache.att > 0 => left = cache.attLeft
        /\ cache.att = 0 => left = LockTTL
        /\ st = "lock" => n > MaxAttempts
        /\ st = "compare" => n <= MaxAttempts
        /\ st \in {"lock", "compare"} /\ n = cache.att + 1 /\ cache.att \in Nat
      BY <2>0 DEF OtpTypes, CacheOK, CacheOf, OtpSteps
  <2> HIDE DEF n, left, st
  <2>3. /\ CacheOK' /\ cache'.code = cache.code /\ cache'.codeLeft = cache.codeLeft /\ cache'.att = n
        /\ cache'.attLeft = left /\ cache'.lockLeft = cache.lockLeft
      BY <2>0, <2>1, <2>2, <1>AttWritten, Zenon DEF OtpTypes
  <2>4. /\ verify' \in [Verifiers -> OtpRequest']
        /\ verify'[v].step = st /\ verify'[v].guess = verify[v].guess /\ verify'[v].spent = verify[v].spent
        /\ \A w \in Verifiers : w /= v => verify'[w] = verify[w]
        /\ \A V : At(V)' = At(V) + One(st, V) - One("count", V)
      BY <2>0, <2>1, <2>2, <1>ToMoves
  <2>5. log' \in LogOf(codes') /\ log'.guesses = log.guesses /\ log'.accepted = log.accepted
        /\ log'.reused = log.reused /\ (log'.muddled <=> log.muddled \/ issuer = "reset")
      BY <2>0, <2>1, Zenon DEF OtpTypes, LogOf
  <2>6. OtpTypes'
      BY <2>0, <2>1, <2>3, <2>4, <2>5, Zenon DEF OtpTypes
  <2>7. Fresh'
      BY <2>0, <2>1, <2>2, <2>3, <2>4, <2>5 DEF Fresh
  <2>8. /\ At({"compare"}) \in Nat /\ At({"lock"}) \in Nat /\ At({"idle", "discard"}) \in Nat
        /\ At({"idle", "discard"})' = At({"idle", "discard"})
        /\ st = "compare" => At({"compare"})' = At({"compare"}) + 1 /\ At({"lock"})' = At({"lock"})
        /\ st = "lock" => At({"compare"})' = At({"compare"}) /\ At({"lock"})' = At({"lock"}) + 1
      BY <2>2, <2>4, <1>AtCounts DEF One
  <2>9. Counted'
    <3> SUFFICES ASSUME ~log'.muddled PROVE Counted'
        BY Zenon DEF Counted
    <3>1. ~log.muddled /\ issuer /= "reset" /\ issuer' /= "reset"
        BY <2>1, <2>5, Zenon
    <3>2. log.guesses \in Nat
        BY <2>0 DEF OtpTypes, LogOf
    <3>3. ASSUME cache.code /= 0
          PROVE  /\ log.guesses + At({"compare"})' <= n /\ log.guesses + At({"compare"})' <= MaxAttempts
                 /\ cache.codeLeft <= left
      <4>1. /\ log.guesses + At({"compare"}) <= cache.att /\ log.guesses + At({"compare"}) <= MaxAttempts
            /\ cache.att > 0 => cache.codeLeft <= cache.attLeft
          BY <2>0, <3>1, <3>3, Zenon DEF Counted
      <4>2. cache.codeLeft <= LockTTL /\ cache.codeLeft \in Nat
          BY <2>0 DEF OtpTypes, CacheOK, CacheOf
      <4> QED BY <2>2, <2>8, <3>2, <4>1, <4>2
    <3>4. cache.code /= 0 => \A w \in Verifiers : verify'[w].step /= "clear"
        BY <2>0, <2>2, <2>4, <3>1, Zenon DEF Counted
    <3> QED BY <2>0, <2>3, <2>5, <3>1, <3>3, <3>4, Zenon DEF Counted
  <2>10. Overshoot'
    <3>1. CASE st = "compare"
        BY <2>2, <2>3, <2>8, <3>1 DEF Overshoot
    <3>2. CASE st = "lock"
      <4>1. cache.att > 0 /\ left = cache.attLeft
          BY <2>2, <3>2
      <4> QED BY <2>0, <2>2, <2>3, <2>8, <3>2, <4>1 DEF Overshoot
    <3> QED BY <2>2, <3>1, <3>2, Zenon
  <2> QED BY <2>6, <2>7, <2>9, <2>10, Zenon DEF OtpInv
<1>LockKeeps. ASSUME OtpInv, NEW v \in Verifiers, O!Lock(v) PROVE OtpInv'
  <2> USE <1>LockKeeps
  <2> USE DEF OtpSetting, OtpConstants
  <2>0. OtpTypes /\ Fresh /\ Counted /\ Overshoot
      BY Zenon DEF OtpInv
  <2>1. /\ verify[v].step = "lock" /\ UNCHANGED <<issuer, codes, log>> /\ O!To(v, "discard")
        /\ cache' = [cache EXCEPT !.lockLeft = LockTTL] /\ LockTTL \in 0..LockTTL
      BY DEF O!Lock
  <2>2. /\ CacheOK' /\ cache'.code = cache.code /\ cache'.codeLeft = cache.codeLeft
        /\ cache'.att = cache.att /\ cache'.attLeft = cache.attLeft /\ cache'.lockLeft = LockTTL
      BY <2>0, <2>1, <1>LockWritten, Zenon DEF OtpTypes
  <2>3. /\ verify' \in [Verifiers -> OtpRequest']
        /\ verify'[v].step = "discard" /\ verify'[v].guess = verify[v].guess /\ verify'[v].spent = verify[v].spent
        /\ \A w \in Verifiers : w /= v => verify'[w] = verify[w]
        /\ \A V : At(V)' = At(V) + One("discard", V) - One("lock", V)
      BY <2>0, <2>1, <1>ToMoves, Zenon DEF OtpSteps
  <2>4. OtpTypes'
      BY <2>0, <2>1, <2>2, <2>3, Zenon DEF OtpTypes
  <2>5. Fresh'
      BY <2>0, <2>1, <2>2, <2>3 DEF Fresh
  <2>6. /\ At({"compare"}) \in Nat /\ At({"lock"}) \in Nat /\ At({"idle", "discard"}) \in Nat
        /\ At({"compare"})' = At({"compare"}) /\ At({"lock"})' = At({"lock"}) - 1
        /\ At({"idle", "discard"})' = At({"idle", "discard"}) + 1
      BY <2>3, <1>AtCounts DEF One
  <2>7. Counted'
    <3>1. O!Busy' = O!Busy
        BY <2>1, <2>3, Zenon DEF O!Busy
    <3>2. (\A w \in Verifiers : verify[w].step /= "clear") => \A w \in Verifiers : verify'[w].step /= "clear"
        BY <2>3, Zenon
    <3> QED BY <2>0, <2>1, <2>2, <2>6, <3>1, <3>2, Zenon DEF Counted
  <2>8. Overshoot'
    <3>1. cache'.attLeft <= cache'.lockLeft /\ cache.att \in Nat
        BY <2>0, <2>2, SMTT(30) DEF OtpTypes, CacheOK, CacheOf
    <3> QED BY <2>0, <2>2, <2>6, <3>1 DEF Overshoot
  <2> QED BY <2>4, <2>5, <2>7, <2>8, Zenon DEF OtpInv
(* The code is removed: by the request that locked, or by the one that     *)
(* found its guess right.                                                  *)
<1>CodeDeleted. ASSUME OtpTypes, O!DeleteCode, codes' = codes
                PROVE  /\ CacheOK' /\ cache'.code = 0 /\ cache'.att = cache.att
                       /\ cache'.attLeft = cache.attLeft /\ cache'.lockLeft = cache.lockLeft
  <2> USE <1>CodeDeleted
  <2>1. CacheOK /\ codes \in Nat /\ codes' \in Nat /\ codes <= codes' /\ 0 \in 0..codes' /\ 0 \in 0..CodeTTL
      BY DEF OtpTypes, OtpSetting, OtpConstants
  <2> QED BY <2>1, <1>CodeWritten, Zenon DEF O!DeleteCode
<1>DiscardKeeps. ASSUME OtpInv, NEW v \in Verifiers, O!Discard(v) PROVE OtpInv'
  <2> USE <1>DiscardKeeps
  <2> USE DEF OtpSetting, OtpConstants
  <2>0. OtpTypes /\ Fresh /\ Counted /\ Overshoot
      BY Zenon DEF OtpInv
  <2>1. /\ verify[v].step = "discard" /\ UNCHANGED <<issuer, codes, log>>
        /\ verify' = [verify EXCEPT ![v] = O!Idle] /\ O!DeleteCode
      BY Zenon DEF O!Discard
  <2>2. /\ CacheOK' /\ cache'.code = 0 /\ cache'.att = cache.att
        /\ cache'.attLeft = cache.attLeft /\ cache'.lockLeft = cache.lockLeft
      BY <2>0, <2>1, <1>CodeDeleted, Zenon
  <2>3. /\ verify' \in [Verifiers -> OtpRequest']
        /\ verify'[v].step = "idle" /\ verify'[v].spent = {}
        /\ \A w \in Verifiers : w /= v => verify'[w] = verify[w]
        /\ \A V : At(V)' = At(V) + One("idle", V) - One("discard", V)
      BY <2>0, <2>1, <1>IdleMoves, Zenon
  <2>4. OtpTypes'
      BY <2>0, <2>1, <2>2, <2>3, Zenon DEF OtpTypes
  <2>5. Fresh'
    <3>1. 0 \notin log.accepted
        BY <2>0 DEF OtpTypes, LogOf
    <3>2. \A w \in Verifiers : verify[w].step \in {"delete", "clear"} => verify[w].guess > 0
        BY <2>0, Zenon DEF Fresh
    <3> QED BY <2>0, <2>1, <2>2, <2>3, <3>1, <3>2 DEF Fresh
  <2>6. /\ At({"lock"}) \in Nat /\ At({"idle", "discard"}) \in Nat
        /\ At({"lock"})' = At({"lock"}) /\ At({"idle", "discard"})' = At({"idle", "discard"})
      BY <2>3, <1>AtCounts DEF One
  <2>7. Counted'
      BY <2>0, <2>1, <2>2, Zenon DEF Counted
  <2>8. Overshoot'
      BY <2>0, <2>2, <2>6, Zenon DEF Overshoot
  <2> QED BY <2>4, <2>5, <2>7, <2>8, Zenon DEF OtpInv
<1>ConsumeKeeps. ASSUME OtpInv, NEW v \in Verifiers, O!Consume(v) PROVE OtpInv'
  <2> USE <1>ConsumeKeeps
  <2> USE DEF OtpSetting, OtpConstants
  <2>0. OtpTypes /\ Fresh /\ Counted /\ Overshoot
      BY Zenon DEF OtpInv
  <2>1. /\ verify[v].step = "delete" /\ UNCHANGED <<issuer, codes, log>> /\ O!To(v, "clear") /\ O!DeleteCode
      BY Zenon DEF O!Consume
  <2>2. /\ CacheOK' /\ cache'.code = 0 /\ cache'.att = cache.att
        /\ cache'.attLeft = cache.attLeft /\ cache'.lockLeft = cache.lockLeft
      BY <2>0, <2>1, <1>CodeDeleted, Zenon
  <2>3. /\ verify' \in [Verifiers -> OtpRequest']
        /\ verify'[v].step = "clear" /\ verify'[v].guess = verify[v].guess /\ verify'[v].spent = verify[v].spent
        /\ \A w \in Verifiers : w /= v => verify'[w] = verify[w]
        /\ \A V : At(V)' = At(V) + One("clear", V) - One("delete", V)
      BY <2>0, <2>1, <1>ToMoves, Zenon DEF OtpSteps
  <2>4. OtpTypes'
      BY <2>0, <2>1, <2>2, <2>3, Zenon DEF OtpTypes
  <2>5. Fresh'
    <3>1. 0 \notin log.accepted
        BY <2>0 DEF OtpTypes, LogOf
    <3>2. \A w \in Verifiers : verify[w].step \in {"delete", "clear"} => verify[w].guess > 0
        BY <2>0, Zenon DEF Fresh
    <3> QED BY <2>0, <2>1, <2>2, <2>3, <3>1, <3>2 DEF Fresh
  <2>6. /\ At({"lock"}) \in Nat /\ At({"idle", "discard"}) \in Nat
        /\ At({"lock"})' = At({"lock"}) /\ At({"idle", "discard"})' = At({"idle", "discard"})
      BY <2>3, <1>AtCounts DEF One
  <2>7. Counted'
      BY <2>0, <2>1, <2>2, Zenon DEF Counted
  <2>8. Overshoot'
      BY <2>0, <2>2, <2>6, Zenon DEF Overshoot
  <2> QED BY <2>4, <2>5, <2>7, <2>8, Zenon DEF OtpInv
<1>AcceptKeeps. ASSUME OtpInv, NEW v \in Verifiers, O!Accept(v) PROVE OtpInv'
  <2> USE <1>AcceptKeeps
  <2> USE DEF OtpSetting, OtpConstants
  <2>0. OtpTypes /\ Fresh /\ Counted /\ Overshoot
      BY Zenon DEF OtpInv
  <2>1. /\ verify[v].step = "clear" /\ UNCHANGED <<issuer, codes>>
        /\ verify' = [verify EXCEPT ![v] = O!Idle]
        /\ cache' = [cache EXCEPT !.att = 0, !.attLeft = 0]
      BY Zenon DEF O!Accept, O!DeleteAttempts
  <2>2. /\ verify[v].guess \in 1..codes /\ verify[v].guess \notin verify[v].spent
        /\ verify[v].guess /= cache.code
      BY <2>0, <2>1 DEF Fresh, OtpTypes, OtpRequest
  <2>3. log' = [log EXCEPT !.accepted = log.accepted \cup {verify[v].guess}, !.reused = log.reused]
      BY <2>2, Zenon DEF O!Accept
  <2>4. /\ log' \in LogOf(codes') /\ log'.accepted = log.accepted \cup {verify[v].guess}
        /\ log'.reused = log.reused /\ log'.guesses = log.guesses /\ log'.muddled = log.muddled
      BY <2>0, <2>1, <2>2, <2>3, Zenon DEF OtpTypes, LogOf
  <2>5. /\ CacheOK' /\ cache'.code = cache.code /\ cache'.att = 0
    <3>1. CacheOK /\ 0 \in 0..LockTTL
        BY <2>0 DEF OtpTypes
    <3> QED BY <2>1, <3>1, <1>AttWritten, Zenon
  <2>6. /\ verify' \in [Verifiers -> OtpRequest']
        /\ verify'[v].step = "idle" /\ verify'[v].spent = {}
        /\ \A w \in Verifiers : w /= v => verify'[w] = verify[w]
      BY <2>0, <2>1, <1>IdleMoves, Zenon
  <2>7. OtpTypes'
      BY <2>0, <2>1, <2>4, <2>5, <2>6, Zenon DEF OtpTypes
  <2>8. Fresh'
      BY <2>0, <2>1, <2>2, <2>4, <2>5, <2>6 DEF Fresh
  <2>9. Counted'
    <3>1. ~log.muddled => cache.code = 0
        BY <2>0, <2>1, Zenon DEF Counted
    <3> QED BY <2>0, <2>4, <2>5, <3>1, Zenon DEF Counted
  <2>10. Overshoot'
    <3>1. At({"lock"})' \in Nat /\ At({"idle", "discard"})' \in Nat
        BY IntoCounts, Zenon DEF At, OtpSetting
    <3> QED BY <2>5, <3>1 DEF Overshoot
  <2> QED BY <2>7, <2>8, <2>9, <2>10, Zenon DEF OtpInv
<1>CompareKeeps. ASSUME OtpInv, NEW v \in Verifiers, O!Compare(v) PROVE OtpInv'
  <2> USE <1>CompareKeeps
  <2> USE DEF OtpSetting, OtpConstants
  <2>0. OtpTypes /\ Fresh /\ Counted /\ Overshoot
      BY Zenon DEF OtpInv
  <2>1. verify[v].step = "compare" /\ UNCHANGED <<cache, issuer, codes>>
      BY Zenon DEF O!Compare
  <2>2. PICK g \in 0..MaxAttempts + 1 :
          /\ log' = [log EXCEPT !.guesses = g]
          /\ g <= log.guesses + 1 /\ (cache.code = 0 => g = log.guesses)
    <3>1. log.guesses \in 0..MaxAttempts + 1
        BY <2>0, Zenon DEF OtpTypes, LogOf
    <3> QED BY <3>1 DEF O!Compare
  <2>3. /\ log' \in LogOf(codes') /\ log'.guesses = g /\ log'.accepted = log.accepted
        /\ log'.reused = log.reused /\ log'.muddled = log.muddled
      BY <2>0, <2>1, <2>2, Zenon DEF OtpTypes, LogOf
  <2>4. PICK st \in {"delete", "idle"} :
          /\ verify' \in [Verifiers -> OtpRequest']
          /\ verify'[v].step = st /\ \A w \in Verifiers : w /= v => verify'[w] = verify[w]
          /\ \A V : At(V)' = At(V) + One(st, V) - One("compare", V)
          /\ \/ st = "idle" /\ verify'[v].spent = {}
             \/ /\ st = "delete" /\ cache.code /= 0 /\ cache.code = verify[v].guess
                /\ verify'[v].guess = verify[v].guess /\ verify'[v].spent = verify[v].spent
    <3>1. CASE cache.code /= 0 /\ cache.code = verify[v].guess
      <4>1. O!To(v, "delete")
          BY <3>1, Zenon DEF O!Compare
      <4> QED BY <2>0, <2>1, <3>1, <4>1, <1>ToMoves, Zenon DEF OtpSteps
    <3>2. CASE ~(cache.code /= 0 /\ cache.code = verify[v].guess)
      <4>1. verify' = [verify EXCEPT ![v] = O!Idle]
          BY <3>2, Zenon DEF O!Compare
      <4> QED BY <2>0, <2>1, <4>1, <1>IdleMoves, Zenon
    <3> QED BY <3>1, <3>2, Zenon
  <2>5. OtpTypes'
      BY <2>0, <2>1, <2>3, <2>4, Zenon DEF OtpTypes, CacheOK
  <2>6. Fresh'
    <3>1. ASSUME st = "delete"
          PROVE verify'[v].guess \notin verify'[v].spent /\ verify'[v].guess > 0 /\ verify'[v].spent \subseteq log.accepted
      <4>1. cache.code > 0
          BY <2>0, <2>4, <3>1 DEF OtpTypes, CacheOK, CacheOf
      <4> QED BY <2>0, <2>4, <3>1, <4>1, Zenon DEF Fresh
    <3> QED BY <2>0, <2>1, <2>3, <2>4, <3>1 DEF Fresh
  <2>7. /\ At({"compare"}) \in Nat /\ At({"lock"}) \in Nat /\ At({"idle", "discard"}) \in Nat
        /\ At({"compare"})' = At({"compare"}) - 1 /\ At({"lock"})' = At({"lock"})
        /\ At({"idle", "discard"})' >= At({"idle", "discard"}) /\ At({"idle", "discard"})' \in Nat
      BY <2>4, <1>AtCounts DEF One
  <2>8. Counted'
    <3> SUFFICES ASSUME ~log.muddled PROVE Counted'
        BY <2>3, Zenon DEF Counted
    <3>1. CASE cache.code = 0
        BY <2>0, <2>1, <2>2, <2>3, <3>1, Zenon DEF Counted
    <3>2. CASE cache.code /= 0
      <4>1. issuer /= "reset"
          BY <2>0, <2>1, <3>2, Zenon DEF Counted, O!Busy
      <4>2. log.guesses \in Nat /\ g \in Nat /\ cache.att \in Nat
          BY <2>0 DEF OtpTypes, LogOf, CacheOK, CacheOf
      <4>3. /\ log.guesses + At({"compare"}) <= cache.att /\ log.guesses + At({"compare"}) <= MaxAttempts
            /\ cache.att > 0 => cache.codeLeft <= cache.attLeft
          BY <2>0, <3>2, <4>1, Zenon DEF Counted
      <4>4. At({"compare"})' \in Nat
          BY IntoCounts, Zenon DEF At, OtpSetting
      <4>5. /\ g + At({"compare"})' <= cache.att /\ g + At({"compare"})' <= MaxAttempts /\ g <= MaxAttempts
          BY <2>2, <2>7, <4>2, <4>3, <4>4
      <4>6. \A w \in Verifiers : verify'[w].step /= "clear"
          BY <2>0, <2>4, <3>2, Zenon DEF Counted
      <4> QED BY <2>1, <2>3, <4>1, <4>3, <4>5, <4>6, Zenon DEF Counted
    <3> QED BY <3>1, <3>2, Zenon
  <2>9. Overshoot'
    <3>1. cache.att \in Nat
        BY <2>0, Zenon DEF OtpTypes, CacheOK, CacheOf
    <3> QED BY <2>0, <2>1, <2>7, <3>1 DEF Overshoot
  <2> QED BY <2>5, <2>6, <2>8, <2>9, Zenon DEF OtpInv
<1>OtpNext. ASSUME OtpInv, [O!Next]_O!otpVars PROVE OtpInv'
  <2> USE <1>OtpNext
  <2>1. CASE UNCHANGED O!otpVars
    <3>1. UNCHANGED <<cache, issuer, verify, codes, log>>
        BY <2>1, Zenon DEF O!otpVars
    <3>2. OtpTypes' /\ Fresh' /\ Counted'
        BY <3>1, Zenon DEF OtpInv, OtpTypes, CacheOK, OtpRequest, Fresh, Counted, O!Busy, At, Step
    <3>3. Overshoot'
        BY <3>1, Zenon DEF OtpInv, Overshoot, At, Step
    <3> QED BY <3>2, <3>3, Zenon DEF OtpInv
  <2>2. ASSUME NEW v \in Verifiers,
               \/ \E guess \in 0..codes : O!Verify(v, guess)
               \/ O!Count(v) \/ O!Lock(v) \/ O!Discard(v) \/ O!Compare(v) \/ O!Consume(v) \/ O!Accept(v)
        PROVE  OtpInv'
      BY <2>2, <1>VerifyKeeps, <1>CountKeeps, <1>LockKeeps, <1>DiscardKeeps, <1>CompareKeeps, <1>ConsumeKeeps, <1>AcceptKeeps, Zenon
  <2> QED BY <2>1, <2>2, <1>IssueKeeps, <1>SetCodeKeeps, <1>ResetKeeps, <1>OtpTickKeeps, Zenon DEF O!Next
<1>OtpHolds. ASSUME OtpInv PROVE O!TypeOK /\ O!GuessesBounded /\ O!NoLaterReuse
  <2> USE <1>OtpHolds
  <2> USE DEF OtpSetting, OtpConstants
  <2>0. OtpTypes /\ Fresh /\ Counted /\ Overshoot
      BY Zenon DEF OtpInv
  <2>1. cache.att <= MaxAttempts + Cardinality(Verifiers) /\ Cardinality(Verifiers) \in Nat
    <3> DEFINE V == {"lock", "idle", "discard"}
    <3>1. Into(Step, Verifiers, V) = Into(Step, Verifiers, {"lock"}) \cup Into(Step, Verifiers, {"idle", "discard"})
        BY Zenon DEF Into
    <3>2. Into(Step, Verifiers, {"lock"}) \cap Into(Step, Verifiers, {"idle", "discard"}) = {}
        BY Zenon DEF Into
    <3>3. At(V) = At({"lock"}) + At({"idle", "discard"})
      <4> DEFINE P == Into(Step, Verifiers, {"lock"})
                 Q == Into(Step, Verifiers, {"idle", "discard"})
      <4>1. IsFiniteSet(P) /\ IsFiniteSet(Q) /\ Cardinality(P) \in Nat /\ Cardinality(Q) \in Nat
          BY IntoCounts, Zenon DEF OtpSetting
      <4>2. Cardinality(P \cap Q) = 0
          BY <3>2, Zenon DEF OtpSetting, FiniteSetFacts, EmptyCounts
      <4> HIDE DEF P, Q
      <4>3. Cardinality(P \cup Q) = Cardinality(P) + Cardinality(Q) - Cardinality(P \cap Q)
          BY <4>1, Zenon DEF OtpSetting, FiniteSetFacts, UnionCounts
      <4>4. Cardinality(P \cup Q) = Cardinality(P) + Cardinality(Q)
          BY <4>1, <4>2, <4>3
      <4> QED BY <3>1, <4>4, Zenon DEF At, P, Q
    <3>4. At(V) <= Cardinality(Verifiers) /\ Cardinality(Verifiers) \in Nat
        BY IntoCounts, Zenon DEF At, OtpSetting, FiniteSetFacts, NumberCounts
    <3>5. At({"lock"}) \in Nat /\ At({"idle", "discard"}) \in Nat /\ cache.att \in Nat
        BY <2>0, <1>AtCounts, Zenon DEF OtpTypes, CacheOK, CacheOf
    <3> HIDE DEF V
    <3> QED BY <2>0, <3>3, <3>4, <3>5 DEF Overshoot
  <2>2. O!TypeOK
    <3>1. cache \in [code : 0..MaxCodes, codeLeft : 0..CodeTTL, att : 0..MaxAttempts + O!Cardinality(Verifiers),
                    attLeft : 0..LockTTL, lockLeft : 0..LockTTL, cdLeft : 0..Cooldown]
        BY <2>0, <2>1, <1>OtpCount DEF OtpTypes, CacheOK, CacheOf
    <3>2. verify \in [Verifiers -> [step : {"idle", "count", "lock", "discard", "compare", "delete", "clear"},
                                    guess : 0..MaxCodes, spent : SUBSET O!Codes]]
        BY <2>0 DEF OtpTypes, OtpRequest, OtpSteps, O!Codes
    <3>3. log \in [guesses : 0..MaxAttempts + 1, muddled : BOOLEAN,
                   accepted : SUBSET O!Codes, reused : SUBSET O!Codes]
        BY <2>0 DEF OtpTypes, LogOf, O!Codes
    <3>4. (cache.code = 0) = (cache.codeLeft = 0) /\ (cache.att = 0) = (cache.attLeft = 0)
        BY <2>0, Zenon DEF OtpTypes, CacheOK
    <3> QED BY <2>0, <3>1, <3>2, <3>3, <3>4, Zenon DEF OtpTypes, O!TypeOK
  <2>3. O!GuessesBounded /\ O!NoLaterReuse
      BY <2>0, Zenon DEF O!GuessesBounded, O!NoLaterReuse, Counted, Fresh
  <2> QED BY <2>2, <2>3, Zenon
<1> QED BY <1>OtpInit, <1>OtpNext, <1>OtpHolds, Zenon DEF O!GuessingIsBounded

-----------------------------------------------------------------------------
(* Passkeys (Passkey). What a sign-in in progress holds is tied to the     *)
(* challenge it took and to the credential it read.                        *)

CONSTANTS Calls, Challenges, MaxCount, MaxCreds, ChallengeTTL
VARIABLES policy, challenge, cred, registered, signin, accepted, answered
P == INSTANCE Passkey

PasskeyConstants == MaxCount \in Nat /\ MaxCreds \in Nat /\ ChallengeTTL \in Nat

AnyChallenge == CHOOSE t \in Challenges : TRUE
Challenge == [kind : {"new", "login", "register", "gone"}, left : 0..ChallengeTTL]
Signin == [pc : {"idle", "validate", "lookup", "update", "issue"}, chal : Challenges \cup {AnyChallenge},
           id : 0..MaxCreds, asserted : 0..MaxCount, count : 0..MaxCount, clone : BOOLEAN]

PasskeyTypes ==
    /\ policy \in {"reject", "flag"}
    /\ challenge \in [Challenges -> Challenge]
    /\ cred \in [id : 0..MaxCreds, count : 0..MaxCount] /\ registered \in 0..MaxCreds /\ cred.id <= registered
    /\ signin \in [Calls -> Signin]
    /\ accepted \in [1..MaxCreds -> [0..MaxCount -> Nat]]
    /\ answered \in [Challenges -> Nat]

(* A sign-in in progress answers a challenge of the process, for a         *)
(* credential that was registered.  With clone warnings that reject, what  *)
(* it would store is what was asserted unless it already carries the       *)
(* warning, and it reaches its session without one.                        *)
SigninOK(s) ==
    /\ s.pc /= "idle" => s.chal \in Challenges /\ s.id \in 1..registered
    /\ s.pc \in {"lookup", "update"} /\ ~s.clone => s.count = s.asserted

(* Challenge t waits to be answered, is being answered by one sign-in, or  *)
(* has led to what it leads to.                                            *)
Answers(c, t) == signin[c].pc /= "idle" /\ signin[c].chal = t
AnswerOK(t) ==
    /\ answered[t] <= 1
    /\ challenge[t].kind /= "gone" => answered[t] = 0 /\ \A c \in Calls : ~Answers(c, t)
    /\ \A c \in Calls : Answers(c, t) => answered[t] = 0
    /\ \A c, d \in Calls : Answers(c, t) /\ Answers(d, t) => c = d

(* Under "reject" the sign-ins about to issue a session on counter value n *)
(* of credential i, the sessions issued on it, and the stored counter.     *)
Issuing(c, i, n) == signin[c].pc = "issue" /\ signin[c].id = i /\ signin[c].asserted = n
Passed(i, n) == i <= registered /\ (cred.id = i => n <= cred.count)
CountOK(i, n) ==
    /\ accepted[i][n] <= 1
    /\ accepted[i][n] /= 0 => Passed(i, n)
    /\ \A c \in Calls : Issuing(c, i, n) => Passed(i, n) /\ accepted[i][n] = 0
    /\ \A c, d \in Calls : Issuing(c, i, n) /\ Issuing(d, i, n) => c = d

PasskeyInv ==
    /\ PasskeyTypes
    /\ \A c \in Calls : SigninOK(signin[c])
    /\ \A t \in Challenges : AnswerOK(t)
    /\ policy = "reject" => \A i \in 1..MaxCreds, n \in 1..MaxCount : CountOK(i, n)

(* Whatever sign-ins overlap, a challenge is answered at most once; with   *)
(* clone warnings that reject, a signature counter value signs in at most  *)
(* once; and the stored counter of a credential never goes back.           *)
THEOREM PasskeyCounts ==
    ASSUME PasskeyConstants
    PROVE  P!Spec => /\ []P!PasskeyCountsOnce
                     /\ [][P!SignCountGrows]_P!passkeyVars
<1>NoSigninOK. P!NoSignin \in Signin /\ P!NoSignin.pc = "idle"
  BY DEF PasskeyConstants, P!NoSignin, Signin, AnyChallenge
<1>PasskeyInit. PasskeyConstants /\ P!Init => PasskeyInv
  <2> SUFFICES ASSUME PasskeyConstants, P!Init PROVE PasskeyInv
      BY Zenon
  <2>1. P!NoSignin \in Signin /\ P!NoSignin.pc = "idle"
      BY <1>NoSigninOK, Zenon
  <2>2. /\ \A c \in Calls : signin[c] = P!NoSignin
        /\ signin \in [Calls -> Signin]
      BY <2>1, Zenon DEF P!Init
  <2>3. PasskeyTypes
      BY <2>2 DEF P!Init, P!NoCred, PasskeyTypes, PasskeyConstants, Challenge
  <2>4. \A c \in Calls : SigninOK(signin[c])
      BY <2>1, <2>2, Zenon DEF SigninOK
  <2>5. \A t \in Challenges : AnswerOK(t)
      BY <2>1, <2>2 DEF AnswerOK, Answers, P!Init
  <2>6. \A i \in 1..MaxCreds, n \in 1..MaxCount : CountOK(i, n)
      BY <2>1, <2>2 DEF CountOK, Issuing, P!Init, PasskeyConstants
  <2> QED BY <2>3, <2>4, <2>5, <2>6, Zenon DEF PasskeyInv
(* A step that only touches the challenges, and revives none.              *)
<1>ChallengesMove. ASSUME PasskeyInv, UNCHANGED <<policy, cred, registered, signin, accepted, answered>>,
                          challenge' \in [Challenges -> Challenge],
                          \A t \in Challenges : challenge'[t].kind /= "gone" => challenge[t].kind /= "gone"
                   PROVE  PasskeyInv'
  <2> USE <1>ChallengesMove
  <2>1. \A t \in Challenges : AnswerOK(t)'
      BY Zenon DEF PasskeyInv, AnswerOK, Answers
  <2>2. PasskeyTypes'
      BY Zenon DEF PasskeyInv, PasskeyTypes
  <2> QED BY <2>1, <2>2 DEF PasskeyInv, SigninOK, CountOK, Issuing, Passed
(* A step of one sign-in that ends it or keeps its challenge and           *)
(* credential; it reaches "issue" only where the counter lets it.          *)
<1>SigninMoves. ASSUME PasskeyInv, NEW c \in Calls, NEW s \in Signin,
                       UNCHANGED <<policy, challenge, cred, registered, accepted, answered>>,
                       signin' = [signin EXCEPT ![c] = s], SigninOK(s),
                       s.pc /= "idle" => signin[c].pc /= "idle" /\ s.chal = signin[c].chal,
                       (s.pc = "issue" /\ policy = "reject") => s.asserted = 0
                PROVE  PasskeyInv'
  <2> USE <1>SigninMoves
  <2>1. /\ signin' \in [Calls -> Signin] /\ signin'[c] = s
        /\ \A d \in Calls : d /= c => signin'[d] = signin[d]
      BY Zenon DEF PasskeyInv, PasskeyTypes
  <2>2. PasskeyTypes'
      BY <2>1, Zenon DEF PasskeyInv, PasskeyTypes
  <2>3. \A d \in Calls : SigninOK(signin[d])'
      BY <2>1, Zenon DEF PasskeyInv, SigninOK
  <2>4. \A d \in Calls, t \in Challenges : Answers(d, t)' => Answers(d, t)
      BY <2>1, Zenon DEF Answers
  <2>5. \A t \in Challenges : AnswerOK(t)'
      BY <2>4, Zenon DEF PasskeyInv, AnswerOK
  <2>6. policy = "reject" => \A d \in Calls, i \in 1..MaxCreds, n \in 1..MaxCount : Issuing(d, i, n)' => Issuing(d, i, n)
      BY <2>1 DEF Issuing
  <2>7. policy = "reject" => \A i \in 1..MaxCreds, n \in 1..MaxCount : CountOK(i, n)'
      BY <2>6 DEF PasskeyInv, CountOK, Passed
  <2> QED BY <2>2, <2>3, <2>5, <2>7, Zenon DEF PasskeyInv
<1>BeginKeeps. ASSUME PasskeyInv,
                      (\E t \in Challenges, kind \in {"login", "register"} : P!Begin(t, kind))
                          \/ (\E t \in Challenges : P!SpendWrong(t)) \/ P!Tick
               PROVE  PasskeyInv'
  <2> USE <1>BeginKeeps
  <2>0. challenge \in [Challenges -> Challenge]
      BY Zenon DEF PasskeyInv, PasskeyTypes
  <2>1. ASSUME NEW t \in Challenges, NEW kind \in {"login", "register"}, P!Begin(t, kind)
        PROVE  PasskeyInv'
    <3>1. [kind |-> kind, left |-> ChallengeTTL] \in Challenge
        BY DEF Challenge, PasskeyConstants
    <3>2. /\ challenge' \in [Challenges -> Challenge] /\ challenge[t].kind = "new"
          /\ \A u \in Challenges : u /= t => challenge'[u] = challenge[u]
        BY <2>0, <2>1, <3>1, Zenon DEF P!Begin
    <3> QED BY <2>1, <3>2, <1>ChallengesMove, Zenon DEF P!Begin
  <2>2. ASSUME NEW t \in Challenges, P!SpendWrong(t)
        PROVE  PasskeyInv'
    <3>1. [kind |-> "gone", left |-> 0] \in Challenge
        BY DEF Challenge, PasskeyConstants
    <3>2. /\ challenge' \in [Challenges -> Challenge] /\ challenge'[t].kind = "gone"
          /\ \A u \in Challenges : u /= t => challenge'[u] = challenge[u]
        BY <2>0, <2>2, <3>1, Zenon DEF P!SpendWrong, P!Taken
    <3> QED BY <2>2, <3>2, <1>ChallengesMove, Zenon DEF P!SpendWrong
  <2>3. CASE P!Tick
    <3>1. \A u \in Challenge, n \in 0..ChallengeTTL : [u EXCEPT !.left = n] \in Challenge /\ [u EXCEPT !.left = n].kind = u.kind
        BY Zenon DEF Challenge
    <3>2. \A u \in Challenge : (IF u.left > 0 THEN u.left - 1 ELSE 0) \in 0..ChallengeTTL
        BY DEF Challenge, PasskeyConstants
    <3>3. challenge' = [t \in Challenges |-> [challenge[t] EXCEPT !.left = IF challenge[t].left > 0 THEN challenge[t].left - 1 ELSE 0]]
        BY <2>3, Zenon DEF P!Tick
    <3>4. challenge' \in [Challenges -> Challenge] /\ \A t \in Challenges : challenge'[t].kind = challenge[t].kind
        BY <2>0, <3>1, <3>2, <3>3, Zenon
    <3> QED BY <2>3, <3>4, <1>ChallengesMove, Zenon DEF P!Tick
  <2> QED BY <2>1, <2>2, <2>3, Zenon
<1>FinishRegistrationKeeps. ASSUME PasskeyInv, NEW t \in Challenges, NEW n \in 0..MaxCount, P!FinishRegistration(t, n)
                            PROVE  PasskeyInv'
  <2> USE <1>FinishRegistrationKeeps
  <2>1. /\ challenge[t].kind = "register" /\ cred.id = 0 /\ registered < MaxCreds
        /\ challenge' = [challenge EXCEPT ![t] = [kind |-> "gone", left |-> 0]]
        /\ registered' = registered + 1 /\ cred' = [id |-> registered + 1, count |-> n]
        /\ answered' = [answered EXCEPT ![t] = answered[t] + 1]
        /\ UNCHANGED <<policy, signin, accepted>>
      BY Zenon DEF P!FinishRegistration, P!Taken
  <2>2. [kind |-> "gone", left |-> 0] \in Challenge
      BY DEF Challenge, PasskeyConstants
  <2>3. /\ challenge' \in [Challenges -> Challenge] /\ challenge'[t].kind = "gone"
        /\ answered' \in [Challenges -> Nat] /\ answered'[t] = answered[t] + 1
        /\ \A u \in Challenges : u /= t => challenge'[u] = challenge[u] /\ answered'[u] = answered[u]
      BY <2>1, <2>2 DEF PasskeyInv, PasskeyTypes
  <2>a. /\ registered \in Nat /\ registered + 1 \in 0..MaxCreds
        /\ \A i : i \in 1..registered => i \in 1..(registered + 1)
      BY <2>1 DEF PasskeyInv, PasskeyTypes, PasskeyConstants
  <2>b. cred' \in [id : 0..MaxCreds, count : 0..MaxCount] /\ cred'.id = registered'
      BY <2>1, <2>a, Zenon
  <2>4. PasskeyTypes'
      BY <2>1, <2>3, <2>a, <2>b DEF PasskeyInv, PasskeyTypes
  <2>5. \A c \in Calls : SigninOK(signin[c])'
      BY <2>1, <2>a, Zenon DEF PasskeyInv, SigninOK
  <2>6. answered[t] = 0 /\ \A c \in Calls : ~Answers(c, t)
      BY <2>1, Zenon DEF PasskeyInv, AnswerOK
  <2>7. \A u \in Challenges : AnswerOK(u)'
      BY <2>1, <2>3, <2>6 DEF PasskeyInv, AnswerOK, Answers
  <2>8. \A i \in 1..MaxCreds, k \in 1..MaxCount : Passed(i, k) => Passed(i, k)'
      BY <2>1 DEF Passed, PasskeyInv, PasskeyTypes
  <2>9. policy = "reject" => \A i \in 1..MaxCreds, k \in 1..MaxCount : CountOK(i, k)'
      BY <2>1, <2>8 DEF PasskeyInv, CountOK, Issuing
  <2> QED BY <2>1, <2>4, <2>5, <2>7, <2>9, Zenon DEF PasskeyInv
<1>FinishLoginKeeps. ASSUME PasskeyInv, NEW c \in Calls, NEW t \in Challenges, NEW id \in 1..MaxCreds,
                            NEW n \in 0..MaxCount, id <= registered, P!FinishLogin(c, t, id, n)
                     PROVE  PasskeyInv'
  <2> USE <1>FinishLoginKeeps
  <2> DEFINE s == [pc |-> "validate", chal |-> t, id |-> id, asserted |-> n, count |-> 0, clone |-> FALSE]
  <2>1. /\ signin[c].pc = "idle" /\ challenge[t].kind = "login"
        /\ challenge' = [challenge EXCEPT ![t] = [kind |-> "gone", left |-> 0]]
        /\ signin' = [signin EXCEPT ![c] = s]
        /\ UNCHANGED <<policy, cred, registered, accepted, answered>>
      BY Zenon DEF P!FinishLogin, P!Taken
  <2>2. s \in Signin /\ s.pc = "validate" /\ s.chal = t /\ s.id = id
      BY DEF Signin, PasskeyConstants
  <2>3. [kind |-> "gone", left |-> 0] \in Challenge
      BY DEF Challenge, PasskeyConstants
  <2> HIDE DEF s
  <2>4. /\ challenge' \in [Challenges -> Challenge] /\ challenge'[t].kind = "gone"
        /\ \A u \in Challenges : u /= t => challenge'[u] = challenge[u]
      BY <2>1, <2>3, Zenon DEF PasskeyInv, PasskeyTypes
  <2>5. /\ signin' \in [Calls -> Signin] /\ signin'[c] = s
        /\ \A d \in Calls : d /= c => signin'[d] = signin[d]
      BY <2>1, <2>2, Zenon DEF PasskeyInv, PasskeyTypes
  <2>6. PasskeyTypes'
      BY <2>1, <2>4, <2>5, Zenon DEF PasskeyInv, PasskeyTypes
  <2>7. \A d \in Calls : SigninOK(signin[d])'
      BY <2>1, <2>2, <2>5 DEF PasskeyInv, PasskeyTypes, SigninOK
  <2>8. answered[t] = 0 /\ \A d \in Calls : ~Answers(d, t)
      BY <2>1, Zenon DEF PasskeyInv, AnswerOK
  <2>9. \A d \in Calls, u \in Challenges : Answers(d, u)' <=> Answers(d, u) \/ (d = c /\ u = t)
      BY <2>1, <2>2, <2>5, Zenon DEF Answers
  <2>10. \A u \in Challenges : AnswerOK(u)'
      BY <2>1, <2>4, <2>8, <2>9, Zenon DEF PasskeyInv, AnswerOK
  <2>11. \A d \in Calls, i \in 1..MaxCreds, k \in 1..MaxCount : Issuing(d, i, k)' => Issuing(d, i, k)
      BY <2>2, <2>5, Zenon DEF Issuing
  <2>12. policy = "reject" => \A i \in 1..MaxCreds, k \in 1..MaxCount : CountOK(i, k)'
      BY <2>1, <2>11 DEF PasskeyInv, CountOK, Passed
  <2> QED BY <2>1, <2>6, <2>7, <2>10, <2>12, Zenon DEF PasskeyInv
<1>ValidateKeeps. ASSUME PasskeyInv, NEW c \in Calls, P!Validate(c) \/ P!Lookup(c)
                  PROVE  PasskeyInv'
  <2> USE <1>ValidateKeeps
  <2>0. /\ signin[c] \in Signin /\ SigninOK(signin[c]) /\ SigninOK(P!NoSignin)
        /\ cred.count \in 0..MaxCount /\ signin[c].asserted \in 0..MaxCount
      BY <1>NoSigninOK, Zenon DEF PasskeyInv, PasskeyTypes, Signin, SigninOK
  <2>1. CASE P!Validate(c)
    <3> DEFINE n == signin[c].asserted
               clone == n <= cred.count /\ (n /= 0 \/ cred.count /= 0)
               s == [signin[c] EXCEPT !.pc = "lookup", !.clone = clone, !.count = IF clone THEN cred.count ELSE n]
    <3>1. /\ signin[c].pc = "validate"
          /\ signin' = [signin EXCEPT ![c] = IF cred.id /= signin[c].id THEN P!NoSignin ELSE s]
          /\ UNCHANGED <<policy, challenge, cred, registered, accepted, answered>>
        BY <2>1, Zenon DEF P!Validate
    <3>2. /\ s \in Signin /\ s.pc = "lookup" /\ s.chal = signin[c].chal /\ s.id = signin[c].id
          /\ ~s.clone => s.count = s.asserted
        BY <2>0, Zenon DEF Signin
    <3>3. SigninOK(s)
        BY <2>0, <3>1, <3>2, Zenon DEF SigninOK
    <3> HIDE DEF s
    <3>4. CASE cred.id /= signin[c].id
        BY <2>0, <3>1, <3>4, <1>NoSigninOK, <1>SigninMoves, Zenon
    <3>5. CASE cred.id = signin[c].id
        BY <3>1, <3>2, <3>3, <3>5, <1>SigninMoves, Zenon
    <3> QED BY <3>4, <3>5, Zenon
  <2>2. CASE P!Lookup(c)
    <3> DEFINE s == signin[c]
               still == ~(s.count > cred.count)
               clone == s.clone \/ (still /\ (s.count /= 0 \/ cred.count /= 0))
               up == [s EXCEPT !.pc = "update"]
               is == [s EXCEPT !.pc = "issue", !.clone = clone]
    <3>1. /\ s.pc = "lookup"
          /\ signin' = [signin EXCEPT ![c] = IF cred.id /= s.id THEN P!NoSignin
                                             ELSE IF ~still THEN up
                                             ELSE IF clone /\ policy = "reject" THEN P!NoSignin ELSE is]
          /\ UNCHANGED <<policy, challenge, cred, registered, accepted, answered>>
        BY <2>2, Zenon DEF P!Lookup, P!Advances
    <3>2. /\ up \in Signin /\ up.pc = "update" /\ up.chal = s.chal /\ up.id = s.id
          /\ up.clone = s.clone /\ up.count = s.count /\ up.asserted = s.asserted
        BY <2>0, Zenon DEF Signin
    <3>3. /\ is \in Signin /\ is.pc = "issue" /\ is.chal = s.chal /\ is.id = s.id /\ is.asserted = s.asserted
        BY <2>0, Zenon DEF Signin
    <3>4. SigninOK(up) /\ SigninOK(is)
        BY <2>0, <3>1, <3>2, <3>3, Zenon DEF SigninOK
    <3>5. still /\ ~clone => s.asserted = 0
        BY <2>0, <3>1, Zenon DEF SigninOK, Signin, PasskeyConstants
    <3> HIDE DEF up, is, still, clone
    <3>6. CASE signin' = [signin EXCEPT ![c] = P!NoSignin]
        BY <2>0, <3>1, <3>6, <1>NoSigninOK, <1>SigninMoves, Zenon
    <3>7. CASE signin' = [signin EXCEPT ![c] = up]
        BY <3>1, <3>2, <3>4, <3>7, <1>SigninMoves, Zenon
    <3>8. CASE signin' = [signin EXCEPT ![c] = is] /\ (policy = "reject" => s.asserted = 0)
        BY <3>1, <3>3, <3>4, <3>8, <1>SigninMoves, Zenon
    <3> QED BY <3>1, <3>5, <3>6, <3>7, <3>8, Zenon
  <2> QED BY <2>1, <2>2, Zenon
<1>UpdateSignCountKeeps. ASSUME PasskeyInv, NEW c \in Calls, P!UpdateSignCount(c)
                         PROVE  PasskeyInv'
  <2> USE <1>UpdateSignCountKeeps
  <2> DEFINE s == signin[c]
             ok == cred.id = s.id /\ s.count > cred.count
             drops == ~ok \/ (s.clone /\ policy = "reject")
             is == [s EXCEPT !.pc = "issue"]
             next == IF drops THEN P!NoSignin ELSE is
  <2>1. /\ s.pc = "update" /\ signin' = [signin EXCEPT ![c] = next]
        /\ cred' = IF ok THEN [cred EXCEPT !.count = s.count] ELSE cred
        /\ UNCHANGED <<policy, challenge, registered, accepted, answered>>
      BY Zenon DEF P!UpdateSignCount, P!CountAccepted, P!Advances
  <2>2. /\ s \in Signin /\ s.count \in 0..MaxCount /\ s.asserted \in 0..MaxCount
        /\ s.chal \in Challenges /\ s.id \in 1..registered /\ (~s.clone => s.count = s.asserted)
      BY <2>1, Zenon DEF PasskeyInv, PasskeyTypes, SigninOK, Signin
  <2>3. /\ is \in Signin /\ is.pc = "issue" /\ is.chal = s.chal /\ is.id = s.id /\ is.asserted = s.asserted
      BY <2>2, Zenon DEF Signin
  <2>4. SigninOK(is) /\ SigninOK(P!NoSignin)
      BY <2>2, <2>3, <1>NoSigninOK, Zenon DEF SigninOK
  <2> HIDE DEF is
  <2>5. CASE ~ok
    <3>1. cred' = cred /\ signin' = [signin EXCEPT ![c] = P!NoSignin]
        BY <2>1, <2>5, Zenon
    <3> QED BY <2>1, <2>4, <3>1, <1>NoSigninOK, <1>SigninMoves, Zenon
  <2>6. CASE ok
    <3>1. /\ cred \in [id : 0..MaxCreds, count : 0..MaxCount] /\ registered \in 0..MaxCreds
          /\ cred' = [cred EXCEPT !.count = s.count] /\ s.count > cred.count /\ cred.id = s.id
        BY <2>1, <2>6, Zenon DEF PasskeyInv, PasskeyTypes
    <3>2. cred' \in [id : 0..MaxCreds, count : 0..MaxCount] /\ cred'.id = cred.id /\ cred'.count = s.count
        BY <2>2, <3>1, Zenon
    <3>3. /\ next \in Signin /\ SigninOK(next)
          /\ next.pc \in {"idle", "issue"} /\ (next.pc = "issue" => ~drops /\ next = is)
        BY <2>3, <2>4, <1>NoSigninOK, Zenon
    <3> HIDE DEF next, ok
    <3>4. /\ signin' \in [Calls -> Signin] /\ signin'[c] = next
          /\ \A d \in Calls : d /= c => signin'[d] = signin[d]
        BY <2>1, <3>3, Zenon DEF PasskeyInv, PasskeyTypes
    <3>5. PasskeyTypes'
        BY <2>1, <3>2, <3>4, Zenon DEF PasskeyInv, PasskeyTypes
    <3>6. \A d \in Calls : SigninOK(signin[d])'
        BY <2>1, <3>3, <3>4, Zenon DEF PasskeyInv, SigninOK
    <3>7. \A d \in Calls, t \in Challenges : Answers(d, t)' => Answers(d, t)
        BY <2>1, <2>3, <3>3, <3>4, Zenon DEF Answers
    <3>8. \A t \in Challenges : AnswerOK(t)'
        BY <2>1, <3>7, Zenon DEF PasskeyInv, AnswerOK
    <3>9. ASSUME policy = "reject", NEW i \in 1..MaxCreds, NEW n \in 1..MaxCount
          PROVE  CountOK(i, n)'
      <4>1. CountOK(i, n)
          BY <3>9, Zenon DEF PasskeyInv
      <4>2. i \in Int /\ n \in Int /\ cred.count \in Int /\ s.count \in Int /\ registered \in Int /\ accepted[i][n] \in Nat
        <5>1. accepted \in [1..MaxCreds -> [0..MaxCount -> Nat]] /\ n \in 0..MaxCount
            BY <3>9 DEF PasskeyInv, PasskeyTypes, PasskeyConstants
        <5>2. accepted[i][n] \in Nat
            BY <3>9, <5>1, Zenon
        <5> QED BY <2>2, <3>1, <3>9, <5>2 DEF PasskeyConstants
      <4>3. Passed(i, n) => Passed(i, n)'
          BY <2>1, <3>1, <3>2, <4>2 DEF Passed
      <4>4. Issuing(c, i, n)' => i = s.id /\ n = s.count /\ ~Passed(i, n) /\ Passed(i, n)'
          BY <2>1, <2>2, <2>3, <3>1, <3>2, <3>3, <3>4, <3>9, <4>2 DEF Issuing, Passed
      <4>5. \A d \in Calls : d /= c => (Issuing(d, i, n)' <=> Issuing(d, i, n))
          BY <3>4, Zenon DEF Issuing
      <4> QED BY <2>1, <4>1, <4>2, <4>3, <4>4, <4>5, Zenon DEF CountOK
    <3> QED BY <2>1, <3>5, <3>6, <3>8, <3>9, Zenon DEF PasskeyInv
  <2> QED BY <2>5, <2>6, Zenon
<1>OneMore. ASSUME NEW D, NEW f \in [D -> Nat], NEW x \in D
            PROVE  /\ [f EXCEPT ![x] = f[x] + 1] \in [D -> Nat]
                   /\ [f EXCEPT ![x] = f[x] + 1][x] = f[x] + 1
                   /\ \A y \in D : y /= x => [f EXCEPT ![x] = f[x] + 1][y] = f[y]
  BY <1>OneMore
<1>IssueKeeps. ASSUME PasskeyInv, NEW c \in Calls, P!Issue(c)
               PROVE  PasskeyInv'
  <2> USE <1>IssueKeeps
  <2> DEFINE s == signin[c]
  <2>1. /\ s.pc = "issue" /\ signin' = [signin EXCEPT ![c] = P!NoSignin]
        /\ accepted' = [accepted EXCEPT ![s.id][s.asserted] = accepted[s.id][s.asserted] + 1]
        /\ answered' = [answered EXCEPT ![s.chal] = answered[s.chal] + 1]
        /\ UNCHANGED <<policy, challenge, cred, registered>>
      BY Zenon DEF P!Issue
  <2>2. /\ s \in Signin /\ s.chal \in Challenges /\ s.id \in 1..registered /\ s.id \in 1..MaxCreds /\ s.asserted \in 0..MaxCount
      BY <2>1 DEF PasskeyInv, PasskeyTypes, SigninOK, Signin, PasskeyConstants
  <2>3. /\ signin' \in [Calls -> Signin] /\ signin'[c].pc = "idle" /\ SigninOK(signin'[c])
        /\ \A d \in Calls : d /= c => signin'[d] = signin[d]
      BY <2>1, <1>NoSigninOK, Zenon DEF PasskeyInv, PasskeyTypes, SigninOK
  <2>4. /\ answered' \in [Challenges -> Nat] /\ answered'[s.chal] = answered[s.chal] + 1
        /\ \A u \in Challenges : u /= s.chal => answered'[u] = answered[u]
      BY <2>1, <2>2 DEF PasskeyInv, PasskeyTypes
  <2>5. /\ accepted' \in [1..MaxCreds -> [0..MaxCount -> Nat]] /\ accepted'[s.id][s.asserted] = accepted[s.id][s.asserted] + 1
        /\ \A i \in 1..MaxCreds, n \in 0..MaxCount :
              i /= s.id \/ n /= s.asserted => accepted'[i][n] = accepted[i][n]
    <3> DEFINE row == [accepted[s.id] EXCEPT ![s.asserted] = accepted[s.id][s.asserted] + 1]
    <3>1. accepted \in [1..MaxCreds -> [0..MaxCount -> Nat]] /\ accepted' = [accepted EXCEPT ![s.id] = row]
        BY <2>1, Zenon DEF PasskeyInv, PasskeyTypes
    <3>2. accepted[s.id] \in [0..MaxCount -> Nat] /\ accepted[s.id][s.asserted] \in Nat
        BY <2>2, <3>1, Zenon
    <3>3. /\ row \in [0..MaxCount -> Nat] /\ row[s.asserted] = accepted[s.id][s.asserted] + 1
          /\ \A n \in 0..MaxCount : n /= s.asserted => row[n] = accepted[s.id][n]
        BY <2>2, <3>2, <1>OneMore, Zenon
    <3> HIDE DEF row
    <3> QED BY <2>2, <3>1, <3>3, Zenon
  <2>6. PasskeyTypes'
      BY <2>1, <2>3, <2>4, <2>5, Zenon DEF PasskeyInv, PasskeyTypes
  <2>7. \A d \in Calls : SigninOK(signin[d])'
      BY <2>1, <2>3, Zenon DEF PasskeyInv, SigninOK
  <2>8. Answers(c, s.chal) /\ answered[s.chal] = 0 /\ challenge[s.chal].kind = "gone"
      BY <2>1, <2>2, Zenon DEF PasskeyInv, AnswerOK, Answers
  <2>9. \A d \in Calls, t \in Challenges : Answers(d, t)' <=> Answers(d, t) /\ d /= c
      BY <2>3, Zenon DEF Answers
  <2>10. \A t \in Challenges : AnswerOK(t)'
      BY <2>1, <2>2, <2>4, <2>8, <2>9 DEF PasskeyInv, AnswerOK
  <2>11. ASSUME policy = "reject", NEW i \in 1..MaxCreds, NEW n \in 1..MaxCount
         PROVE  CountOK(i, n)'
    <3>1. CountOK(i, n) /\ accepted[i][n] \in Nat /\ n \in 0..MaxCount
        BY <2>11 DEF PasskeyInv, PasskeyTypes, PasskeyConstants
    <3>2. \A d \in Calls : Issuing(d, i, n)' <=> Issuing(d, i, n) /\ d /= c
        BY <2>3, Zenon DEF Issuing
    <3>3. Issuing(c, i, n) <=> i = s.id /\ n = s.asserted
        BY <2>1, Zenon DEF Issuing
    <3>4. Passed(i, n)' <=> Passed(i, n)
        BY <2>1, Zenon DEF Passed
    <3>5. accepted'[i][n] = IF i = s.id /\ n = s.asserted THEN accepted[i][n] + 1 ELSE accepted[i][n]
        BY <2>5, <3>1, Zenon
    <3> QED BY <3>1, <3>2, <3>3, <3>4, <3>5 DEF CountOK
  <2> QED BY <2>1, <2>6, <2>7, <2>10, <2>11, Zenon DEF PasskeyInv
<1>DeleteCredentialKeeps. ASSUME PasskeyInv, P!DeleteCredential
                          PROVE  PasskeyInv'
  <2> USE <1>DeleteCredentialKeeps
  <2>1. /\ cred' = [id |-> 0, count |-> 0]
        /\ UNCHANGED <<policy, challenge, registered, signin, accepted, answered>>
      BY Zenon DEF P!DeleteCredential, P!NoCred
  <2>2. PasskeyTypes'
      BY <2>1 DEF PasskeyInv, PasskeyTypes, PasskeyConstants
  <2>3. \A i \in 1..MaxCreds, n \in 1..MaxCount : Passed(i, n) => Passed(i, n)'
      BY <2>1 DEF Passed
  <2> QED BY <2>1, <2>2, <2>3 DEF PasskeyInv, SigninOK, AnswerOK, Answers, CountOK, Issuing
<1>1. P!Init => PasskeyInv
    BY <1>PasskeyInit, Zenon
<1>2. PasskeyInv /\ [P!Next]_P!passkeyVars => PasskeyInv'
  <2> SUFFICES ASSUME PasskeyInv, [P!Next]_P!passkeyVars PROVE PasskeyInv'
      BY Zenon
  <2>1. CASE UNCHANGED <<policy, challenge, cred, registered, signin, accepted, answered>>
      BY <2>1 DEF PasskeyInv, PasskeyTypes, SigninOK, AnswerOK, Answers, CountOK, Issuing, Passed
  <2> QED BY <2>1, <1>BeginKeeps, <1>FinishRegistrationKeeps, <1>FinishLoginKeeps, <1>ValidateKeeps, <1>UpdateSignCountKeeps,
             <1>IssueKeeps, <1>DeleteCredentialKeeps, Zenon DEF P!Next, P!passkeyVars
<1>3. PasskeyInv => P!TypeOK /\ P!CountSpentOnce /\ P!ChallengeAnsweredOnce
  <2> SUFFICES ASSUME PasskeyInv PROVE P!TypeOK /\ P!CountSpentOnce /\ P!ChallengeAnsweredOnce
      BY Zenon
  <2>1. P!TypeOK
      BY SMTT(30) DEF PasskeyInv, PasskeyTypes, Signin, Challenge, P!TypeOK, PasskeyConstants
  <2>2. P!CountSpentOnce
      BY Zenon DEF PasskeyInv, CountOK, P!CountSpentOnce
  <2>3. P!ChallengeAnsweredOnce
      BY Zenon DEF PasskeyInv, AnswerOK, P!ChallengeAnsweredOnce
  <2> QED BY <2>1, <2>2, <2>3, Zenon
<1>4. PasskeyInv /\ [P!Next]_P!passkeyVars => [P!SignCountGrows]_P!passkeyVars
  <2> SUFFICES ASSUME PasskeyInv, P!Next, cred.id /= 0, cred'.id = cred.id PROVE cred'.count >= cred.count
      BY Zenon DEF P!SignCountGrows
  <2>1. cred \in [id : 0..MaxCreds, count : 0..MaxCount] /\ cred.count \in Int
      BY DEF PasskeyInv, PasskeyTypes, PasskeyConstants
  <2>2. CASE cred' = cred
      BY <2>1, <2>2
  <2>3. ASSUME NEW c \in Calls, P!UpdateSignCount(c) PROVE cred'.count >= cred.count
    <3>1. signin[c].count \in Int
        BY DEF PasskeyInv, PasskeyTypes, Signin, PasskeyConstants
    <3>2. cred' = cred \/ (cred' = [cred EXCEPT !.count = signin[c].count] /\ signin[c].count > cred.count)
        BY <2>3, Zenon DEF P!UpdateSignCount, P!CountAccepted, P!Advances
    <3> QED BY <2>1, <3>1, <3>2
  <2>4. ASSUME NEW t \in Challenges, NEW n \in 0..MaxCount, P!FinishRegistration(t, n) PROVE FALSE
      BY <2>4, Zenon DEF P!FinishRegistration
  <2>5. CASE P!DeleteCredential
      BY <2>5, Zenon DEF P!DeleteCredential, P!NoCred
  <2> QED BY <2>2, <2>3, <2>4, <2>5, Zenon DEF P!Next, P!Begin, P!SpendWrong, P!FinishLogin, P!Validate, P!Lookup, P!Issue, P!Tick
<1> QED BY <1>1, <1>2, <1>3, <1>4, PTL DEF P!Spec, P!PasskeyCountsOnce

-----------------------------------------------------------------------------
(* The login throttle (Throttle). Every wrong guess of the window is on    *)
(* record or belongs to an attempt that has still to record it, however    *)
(* often its compare-and-swap is retried.                                  *)

CONSTANTS Attempts, GraceFailures, MaxDelay, ResetAfter, UserMaxFailures, UserLockout, casAttempts, MaxFailures
VARIABLES login, user, att, guesses
H == INSTANCE Throttle

ThrottleConstants ==
    /\ IsFiniteSet(Attempts)
    /\ ResetAfter \in Nat \ {0} /\ UserMaxFailures \in Nat \ {0} /\ UserLockout \in Nat \ {0}
ThrottleSetting == ThrottleConstants /\ FiniteSetFacts

Entry == [failures : Nat, blocked : Nat, expires : Nat, locked : BOOLEAN]

(* The identifier's entry: an entry that counts is locked exactly when it  *)
(* has reached the limit, and expires only after its lockout.              *)
EntryOK(e) ==
    /\ e \in Entry
    /\ e.blocked > 0 => e.locked
    /\ e.blocked <= e.expires
    /\ e.expires > 0 => (e.locked <=> e.failures >= UserMaxFailures)

(* The failures that the current window has on record.                     *)
Window(e) == IF H!Restarts(e, TRUE) THEN 0 ELSE e.failures

(* Every wrong guess of the window is on record or still to be recorded.   *)
ThrottleInv ==
    /\ EntryOK(user)
    /\ att \in [Attempts -> [pc : {"idle", "guessed", "read", "swap"}, prev : Entry, tries : Nat]]
    /\ guesses \in Nat /\ Cardinality(H!Unrecorded) <= guesses
    /\ guesses <= Window(user) + Cardinality(H!Unrecorded)
    /\ guesses <= UserMaxFailures + Cardinality(Attempts) - 1

WithFields(n, f, b, l) == [n EXCEPT !.failures = f, !.blocked = b, !.locked = l]

(* The invariant holds initially, every step of an attempt keeps it,       *)
(* retries included, and it bounds the guesses.                            *)
LEMMA ThrottleSound ==
    ASSUME ThrottleSetting
    PROVE  /\ H!Init => ThrottleInv
           /\ ThrottleInv /\ [H!Next]_H!throttleVars => ThrottleInv'
           /\ ThrottleInv => H!LockoutBoundsGuesses
<1>NoEntryOK. EntryOK(H!NoEntry) /\ H!Restarts(H!NoEntry, TRUE)
  BY DEF ThrottleSetting, ThrottleConstants, EntryOK, Entry, H!NoEntry, H!Restarts
<1>EntryFields. ASSUME NEW n \in Entry, NEW f \in Nat, NEW b \in Nat, NEW l \in BOOLEAN
                PROVE  /\ WithFields(n, f, b, l) \in Entry /\ WithFields(n, f, b, l).failures = f
                       /\ WithFields(n, f, b, l).blocked = b /\ WithFields(n, f, b, l).locked = l
  BY <1>EntryFields, Zenon DEF Entry, WithFields
<1>ExpiringFields. ASSUME NEW n \in Entry
                   PROVE  LET r == H!Expiring(n)
                          IN  /\ r \in Entry /\ r.failures = n.failures /\ r.blocked = n.blocked /\ r.locked = n.locked
                              /\ r.expires > 0 /\ r.blocked <= r.expires
  <2> USE <1>ExpiringFields
  <2> DEFINE x == IF n.blocked > ResetAfter THEN n.blocked + ResetAfter ELSE ResetAfter
  <2>1. x \in Nat /\ x > 0 /\ n.blocked <= x
      BY DEF Entry, ThrottleSetting, ThrottleConstants
  <2> HIDE DEF x
  <2>2. LET r == [n EXCEPT !.expires = x]
        IN  r \in Entry /\ r.failures = n.failures /\ r.blocked = n.blocked /\ r.locked = n.locked /\ r.expires = x
      BY <2>1, Zenon DEF Entry
  <2> QED BY <2>1, <2>2, Zenon DEF H!Expiring, x
<1>BumpedOK. ASSUME NEW e, EntryOK(e)
             PROVE  EntryOK(H!UserBumped(e)) /\ Window(H!UserBumped(e)) = Window(e) + 1
  <2> USE <1>BumpedOK
  <2> DEFINE n == IF H!Restarts(e, TRUE) THEN H!NoEntry ELSE e
             full == n.failures + 1 >= UserMaxFailures
             l == n.locked \/ full
             b == IF full THEN UserLockout ELSE n.blocked
             fl == n.failures + 1
             m == WithFields(n, fl, b, l)
             r == H!Expiring(m)
  <2>1. n \in Entry /\ n.failures = Window(e) /\ n.failures \in Nat /\ n.blocked \in Nat /\ n.locked \in BOOLEAN
      BY <1>NoEntryOK, Zenon DEF Window, EntryOK, Entry, H!NoEntry
  <2>2. n.locked => n.failures >= UserMaxFailures
      BY <2>1 DEF EntryOK, Entry, H!Restarts, H!lapsed, H!NoEntry
  <2>3. H!UserBumped(e) = r
      BY Zenon DEF H!UserBumped, WithFields
  <2>4. n.blocked > 0 => n.locked
      BY <1>NoEntryOK, Zenon DEF EntryOK
  <2> HIDE DEF n
  <2>5. l \in BOOLEAN
      BY <2>1, Zenon
  <2>6. (l <=> full) /\ b \in Nat /\ (full => b > 0) /\ (b > 0 => full)
      BY <2>1, <2>2, <2>4 DEF ThrottleSetting, ThrottleConstants
  <2>7. n.failures + 1 \in Nat
      BY <2>1
  <2> HIDE DEF l, b
  <2>8. m \in Entry /\ m.failures = fl /\ m.blocked = b /\ m.locked = l
    <3>1. n \in Entry /\ fl \in Nat /\ b \in Nat /\ l \in BOOLEAN
        BY <2>1, <2>5, <2>6, <2>7, Zenon
    <3> HIDE DEF fl
    <3> QED BY <3>1, <1>EntryFields
  <2> HIDE DEF m
  <2>9. r \in Entry /\ r.failures = n.failures + 1 /\ r.blocked = b /\ r.locked = l /\ r.expires > 0 /\ r.blocked <= r.expires
      BY <2>8, <1>ExpiringFields, Zenon
  <2> HIDE DEF r
  <2>10. EntryOK(r)
      BY <2>6, <2>9, Zenon DEF EntryOK
  <2>11. ~H!Restarts(r, TRUE)
      BY <2>6, <2>9 DEF H!Restarts, H!lapsed
  <2> QED BY <2>1, <2>3, <2>9, <2>10, <2>11, Zenon DEF Window
<1>AgedOK. ASSUME NEW e, EntryOK(e)
           PROVE  /\ EntryOK(H!Aged(e)) /\ (H!Restarts(e, TRUE) => H!Restarts(H!Aged(e), TRUE))
                  /\ ~H!Restarts(H!Aged(e), TRUE) => Window(H!Aged(e)) = Window(e)
  <2> USE <1>AgedOK
  <2> DEFINE b == IF e.blocked > 0 THEN e.blocked - 1 ELSE 0
             x == IF e.expires > 0 THEN e.expires - 1 ELSE 0
             r == [e EXCEPT !.blocked = b, !.expires = x]
  <2>1. b \in Nat /\ x \in Nat /\ e \in Entry /\ e.blocked \in Nat /\ e.expires \in Nat
      BY DEF EntryOK, Entry
  <2>2. H!Aged(e) = r
      BY Zenon DEF H!Aged
  <2>3. r \in Entry /\ r.failures = e.failures /\ r.locked = e.locked /\ r.blocked = b /\ r.expires = x
    <3> HIDE DEF b, x
    <3> QED BY <2>1, Zenon DEF Entry
  <2>4. /\ b > 0 => e.blocked > 0
        /\ x > 0 => e.expires > 0
        /\ e.expires = 0 => x = 0
        /\ e.blocked = 0 => b = 0
        /\ b <= x
      BY <2>1 DEF EntryOK
  <2> HIDE DEF r, b, x
  <2>5. EntryOK(r)
      BY <2>3, <2>4, Zenon DEF EntryOK
  <2>6. H!Restarts(e, TRUE) => H!Restarts(r, TRUE)
      BY <2>3, <2>4, Zenon DEF H!Restarts, H!lapsed
  <2> QED BY <2>2, <2>3, <2>5, <2>6, Zenon DEF Window
<1>ThrCount. ASSUME NEW S PROVE H!Cardinality(S) = Cardinality(S)
  BY <1>ThrCount, Zenon DEF H!Cardinality, Cardinality
<1>Recorded. /\ IsFiniteSet(H!Unrecorded) /\ Cardinality(H!Unrecorded) \in Nat /\ Cardinality(Attempts) \in Nat
                    /\ Cardinality(H!Unrecorded) <= Cardinality(Attempts)
  <2>1. H!Unrecorded \subseteq Attempts
      BY Zenon DEF H!Unrecorded
  <2> QED BY <2>1, Zenon DEF ThrottleSetting, ThrottleConstants, FiniteSetFacts, PartCounts, NumberCounts
<1>ThrottleInit. ThrottleSetting /\ H!Init => ThrottleInv
  <2> SUFFICES ASSUME ThrottleSetting, H!Init PROVE ThrottleInv
      BY Zenon
  <2>1. H!NoEntry \in Entry
      BY <1>NoEntryOK, Zenon DEF EntryOK
  <2>2. H!Unrecorded = {} /\ att \in [Attempts -> [pc : {"idle", "guessed", "read", "swap"}, prev : Entry, tries : Nat]]
      BY <2>1, Zenon DEF H!Init, H!Idle, H!Unrecorded
  <2>3. Cardinality(H!Unrecorded) = 0
      BY <2>2, Zenon DEF ThrottleSetting, FiniteSetFacts, EmptyCounts
  <2> QED BY <2>2, <2>3, <1>NoEntryOK, <1>Recorded DEF ThrottleInv, H!Init, Window, ThrottleSetting, ThrottleConstants
(* A step of attempts that leaves the entry and the guesses alone.         *)
<1>AttemptsMove. ASSUME ThrottleInv, NEW a \in Attempts, NEW k,
                        k \in [pc : {"idle", "guessed", "read", "swap"}, prev : Entry, tries : Nat],
                        att' = [att EXCEPT ![a] = k]
                 PROVE  /\ att' \in [Attempts -> [pc : {"idle", "guessed", "read", "swap"}, prev : Entry, tries : Nat]]
                        /\ (k.pc = "idle" <=> att[a].pc = "idle") => H!Unrecorded' = H!Unrecorded
                        /\ k.pc /= "idle" /\ att[a].pc = "idle" =>
                              Cardinality(H!Unrecorded') = Cardinality(H!Unrecorded) + 1
                        /\ k.pc = "idle" /\ att[a].pc /= "idle" =>
                              /\ Cardinality(H!Unrecorded) = Cardinality(H!Unrecorded') + 1
                              /\ Cardinality(H!Unrecorded') \in Nat
  <2> USE <1>AttemptsMove
  <2>1. /\ att' \in [Attempts -> [pc : {"idle", "guessed", "read", "swap"}, prev : Entry, tries : Nat]]
        /\ att'[a] = k /\ \A b \in Attempts : b /= a => att'[b] = att[b]
      BY Zenon DEF ThrottleInv
  <2>2. (k.pc = "idle" <=> att[a].pc = "idle") => H!Unrecorded' = H!Unrecorded
      BY <2>1, Zenon DEF H!Unrecorded
  <2>3. ASSUME k.pc /= "idle", att[a].pc = "idle" PROVE Cardinality(H!Unrecorded') = Cardinality(H!Unrecorded) + 1
    <3>1. H!Unrecorded' = H!Unrecorded \cup {a} /\ a \notin H!Unrecorded
        BY <2>1, <2>3, Zenon DEF H!Unrecorded
    <3> QED BY <3>1, <1>Recorded, Zenon DEF ThrottleSetting, FiniteSetFacts, AddCounts
  <2>4. ASSUME k.pc = "idle", att[a].pc /= "idle" 
        PROVE  Cardinality(H!Unrecorded) = Cardinality(H!Unrecorded') + 1 /\ Cardinality(H!Unrecorded') \in Nat
    <3>1. H!Unrecorded' = H!Unrecorded \ {a} /\ a \in H!Unrecorded
        BY <2>1, <2>4, Zenon DEF H!Unrecorded
    <3>2. IsFiniteSet(H!Unrecorded')
        BY <3>1, <1>Recorded, Zenon DEF ThrottleSetting, FiniteSetFacts, RemoveCounts
    <3>3. Cardinality(H!Unrecorded') = Cardinality(H!Unrecorded) - 1
        BY <3>1, <1>Recorded, Zenon DEF ThrottleSetting, FiniteSetFacts, RemoveCounts
    <3> QED BY <3>2, <3>3, <1>Recorded DEF ThrottleSetting, FiniteSetFacts, NumberCounts
  <2> QED BY <2>1, <2>2, <2>3, <2>4, Zenon
<1>GuessKeeps. ASSUME ThrottleInv, NEW a \in Attempts, H!WrongGuess(a)
               PROVE  ThrottleInv'
  <2> USE <1>GuessKeeps
  <2> DEFINE k == [att[a] EXCEPT !.pc = "guessed"]
  <2>1. /\ att[a].pc = "idle" /\ user.blocked = 0 /\ user' = user /\ guesses' = guesses + 1
        /\ att' = [att EXCEPT ![a] = k]
      BY Zenon DEF H!WrongGuess, H!CheckLogin
  <2>2. k \in [pc : {"idle", "guessed", "read", "swap"}, prev : Entry, tries : Nat] /\ k.pc = "guessed"
      BY Zenon DEF ThrottleInv
  <2> HIDE DEF k
  <2>3. /\ att' \in [Attempts -> [pc : {"idle", "guessed", "read", "swap"}, prev : Entry, tries : Nat]]
        /\ Cardinality(H!Unrecorded') = Cardinality(H!Unrecorded) + 1
      BY <2>1, <2>2, <1>AttemptsMove, Zenon
  <2>4. Window(user) \in Nat /\ Window(user) < UserMaxFailures
      BY <2>1 DEF ThrottleInv, EntryOK, Entry, Window, H!Restarts, H!lapsed, ThrottleSetting, ThrottleConstants
  <2>5. Cardinality(H!Unrecorded') <= Cardinality(Attempts)
    <3>1. H!Unrecorded' \subseteq Attempts
        BY Zenon DEF H!Unrecorded
    <3> QED BY <3>1, Zenon DEF ThrottleSetting, ThrottleConstants, FiniteSetFacts, PartCounts
  <2>6. guesses' <= UserMaxFailures + Cardinality(Attempts) - 1
      BY <2>1, <2>3, <2>4, <2>5, <1>Recorded DEF ThrottleInv, ThrottleSetting, ThrottleConstants
  <2> QED BY <2>1, <2>3, <2>4, <2>6, <1>Recorded DEF ThrottleInv
(* Steps that neither touch the identifier's entry nor end an attempt.     *)
<1>AttemptKeeps. ASSUME ThrottleInv, NEW a \in Attempts,
                        H!RecordLoginFailure(a) \/ H!BumpRead(a) \/ (H!SwapLost(a) /\ att[a].tries < casAttempts)
                 PROVE  ThrottleInv'
  <2> USE <1>AttemptKeeps
  <2>1. PICK k : /\ k \in [pc : {"idle", "guessed", "read", "swap"}, prev : Entry, tries : Nat]
                 /\ k.pc /= "idle" /\ att' = [att EXCEPT ![a] = k]
    <3>0. att[a] \in [pc : {"idle", "guessed", "read", "swap"}, prev : Entry, tries : Nat] /\ user \in Entry
        BY Zenon DEF ThrottleInv, EntryOK
    <3>1. CASE att' = [att EXCEPT ![a].pc = "read"]
      <4>1. [att[a] EXCEPT !.pc = "read"] \in [pc : {"idle", "guessed", "read", "swap"}, prev : Entry, tries : Nat]
          BY <3>0, Zenon
      <4> QED BY <3>0, <3>1, <4>1, Zenon
    <3>2. CASE H!BumpRead(a)
      <4>1. [pc |-> "swap", prev |-> user, tries |-> att[a].tries + 1] \in
              [pc : {"idle", "guessed", "read", "swap"}, prev : Entry, tries : Nat]
          BY <3>0
      <4> QED BY <3>2, <4>1, Zenon DEF H!BumpRead
    <3> QED BY <3>1, <3>2, Zenon DEF H!RecordLoginFailure, H!SwapLost
  <2>2. att[a].pc /= "idle" /\ UNCHANGED <<user, guesses>>
      BY Zenon DEF H!RecordLoginFailure, H!BumpRead, H!SwapLost
  <2>3. /\ att' \in [Attempts -> [pc : {"idle", "guessed", "read", "swap"}, prev : Entry, tries : Nat]]
        /\ H!Unrecorded' = H!Unrecorded
      BY <2>1, <2>2, <1>AttemptsMove, Zenon
  <2> QED BY <2>2, <2>3, Zenon DEF ThrottleInv
<1>EndKeeps. ASSUME ThrottleInv, NEW a \in Attempts,
                    H!Swap(a) \/ (H!SwapLost(a) /\ ~(att[a].tries < casAttempts))
             PROVE  ThrottleInv'
  <2> USE <1>EndKeeps
  <2>0. H!Idle \in [pc : {"idle", "guessed", "read", "swap"}, prev : Entry, tries : Nat] /\ H!Idle.pc = "idle"
      BY <1>NoEntryOK, Zenon DEF H!Idle, EntryOK
  <2>1. att[a].pc /= "idle" /\ att' = [att EXCEPT ![a] = H!Idle]
      BY Zenon DEF H!Swap, H!SwapLost
  <2>2. /\ att' \in [Attempts -> [pc : {"idle", "guessed", "read", "swap"}, prev : Entry, tries : Nat]]
        /\ Cardinality(H!Unrecorded) = Cardinality(H!Unrecorded') + 1 /\ Cardinality(H!Unrecorded') \in Nat
      BY <2>0, <2>1, <1>AttemptsMove, Zenon
  <2>3. Window(user) \in Nat
      BY Zenon DEF ThrottleInv, EntryOK, Entry, Window
  <2>4. CASE H!Swap(a)
    <3>1. /\ user' = H!UserBumped(user)
          /\ guesses' = IF H!Restarts(user, TRUE) THEN Cardinality(H!Unrecorded) ELSE guesses
        BY <2>4, <1>ThrCount, Zenon DEF H!Swap, H!Swappable
    <3>2. EntryOK(user') /\ Window(user') = Window(user) + 1
        BY <3>1, <1>BumpedOK, Zenon DEF ThrottleInv
    <3>3. CASE H!Restarts(user, TRUE)
      <4>1. Window(user) = 0 /\ guesses' = Cardinality(H!Unrecorded)
          BY <3>1, <3>3, Zenon DEF Window
      <4>2. guesses' <= UserMaxFailures + Cardinality(Attempts) - 1
          BY <4>1, <1>Recorded DEF ThrottleSetting, ThrottleConstants
      <4> QED BY <2>2, <3>2, <4>1, <4>2, <1>Recorded DEF ThrottleInv
    <3>4. CASE ~H!Restarts(user, TRUE)
        BY <2>2, <2>3, <3>1, <3>2, <3>4 DEF ThrottleInv
    <3> QED BY <3>3, <3>4, Zenon
  <2>5. CASE H!SwapLost(a) /\ ~(att[a].tries < casAttempts)
    <3>1. user' = user /\ guesses' = guesses - 1
        BY <2>5, Zenon DEF H!SwapLost
    <3>2. Cardinality(Attempts) \in Nat
        BY <1>Recorded, Zenon
    <3> QED BY <2>2, <2>3, <3>1, <3>2 DEF ThrottleInv, ThrottleSetting, ThrottleConstants
  <2> QED BY <2>4, <2>5, Zenon
<1>WindowKeeps. ASSUME ThrottleInv,
                       (\E a \in Attempts : H!RecordLoginSuccess(a)) \/ H!UnlockIdentifier \/ H!ClearLoginBackoff \/ H!Tick
                PROVE  ThrottleInv'
  <2> USE <1>WindowKeeps
  <2>0. att' = att /\ H!Unrecorded' = H!Unrecorded
      BY Zenon DEF H!RecordLoginSuccess, H!UnlockIdentifier, H!ClearLoginBackoff, H!Tick, H!Unrecorded
  <2>1. ASSUME EntryOK(user'), H!Restarts(user', TRUE), guesses' = Cardinality(H!Unrecorded) PROVE ThrottleInv'
    <3>1. Window(user)' = 0
        BY <2>1, Zenon DEF Window
    <3>2. guesses' <= UserMaxFailures + Cardinality(Attempts) - 1
        BY <2>1, <1>Recorded DEF ThrottleSetting, ThrottleConstants
    <3> QED BY <2>0, <2>1, <3>1, <3>2, <1>Recorded DEF ThrottleInv
  <2>2. CASE (\E a \in Attempts : H!RecordLoginSuccess(a)) \/ H!UnlockIdentifier
      BY <2>1, <2>2, <1>NoEntryOK, <1>ThrCount, Zenon DEF H!RecordLoginSuccess, H!UnlockIdentifier
  <2>3. CASE H!ClearLoginBackoff
      BY <2>0, <2>3, Zenon DEF H!ClearLoginBackoff, ThrottleInv
  <2>4. CASE H!Tick
    <3>1. /\ user' = H!Aged(user)
          /\ guesses' = IF H!Restarts(H!Aged(user), TRUE) THEN Cardinality(H!Unrecorded) ELSE guesses
        BY <2>4, <1>ThrCount, Zenon DEF H!Tick
    <3>2. EntryOK(user') /\ (~H!Restarts(user', TRUE) => Window(user') = Window(user))
        BY <3>1, <1>AgedOK, Zenon DEF ThrottleInv
    <3>3. CASE H!Restarts(user', TRUE)
        BY <2>1, <3>1, <3>2, <3>3, Zenon
    <3>4. CASE ~H!Restarts(user', TRUE)
        BY <2>0, <3>1, <3>2, <3>4, Zenon DEF ThrottleInv
    <3> QED BY <3>3, <3>4, Zenon
  <2> QED BY <2>2, <2>3, <2>4, Zenon
<1>ThrottleNext. ASSUME ThrottleInv, [H!Next]_H!throttleVars
                 PROVE  ThrottleInv'
  <2> USE <1>ThrottleNext
  <2>1. CASE UNCHANGED <<login, user, att, guesses>>
      BY <2>1, Zenon DEF ThrottleInv, H!Unrecorded
  <2> QED BY <2>1, <1>GuessKeeps, <1>AttemptKeeps, <1>EndKeeps, <1>WindowKeeps, Zenon DEF H!Next, H!throttleVars
<1>1. ThrottleInv => H!LockoutBoundsGuesses
    BY <1>ThrCount, Zenon DEF ThrottleInv, H!LockoutBoundsGuesses
<1> QED BY <1>1, <1>ThrottleInit, <1>ThrottleNext, Zenon

-----------------------------------------------------------------------------
(* Registration tokens (RegistrationToken). What is in flight is counted:  *)
(* every use is a client, a waste or a request between its redemption and  *)
(* its end.                                                                *)

CONSTANTS Registrations, MaxUses, MaxTries
VARIABLES regToken, reg, tally
R == INSTANCE RegistrationToken

RegistrationConstants == IsFiniteSet(Registrations) /\ MaxUses \in Nat /\ MaxTries \in Nat
RegistrationSetting == RegistrationConstants /\ FiniteSetFacts

(* Requests that are under way.                                            *)
Trying == Into(reg, Registrations, {"read", "spent", "failed"})

RegInv ==
    /\ R!TypeOK /\ R!UsesAddUp
    /\ tally.clients + tally.wasted + Cardinality(Trying) <= tally.tries
    /\ IF R!Ended THEN tally.afterEnd + Cardinality(R!InFlight) <= tally.atEnd
                  ELSE tally.afterEnd = 0
    /\ tally.afterEnd <= tally.clients

RegStates == {"idle", "read", "spent", "failed"}

(* The invariant holds initially, every step of a registration keeps it,   *)
(* and the uses then add up.                                               *)
LEMMA RegistrationSound ==
    ASSUME RegistrationSetting
    PROVE  /\ R!Init => RegInv
           /\ RegInv /\ [R!Next]_R!registrationVars => RegInv'
           /\ RegInv => R!UsesAreRegistrations
<1>RegMoves. ASSUME RegInv, NEW r \in Registrations, NEW st \in RegStates, R!To(r, st)
             PROVE  /\ reg' \in [Registrations -> RegStates]
                    /\ Cardinality(R!InFlight) \in Nat /\ Cardinality(Trying) \in Nat
                    /\ reg[r] \in {"spent", "failed"} => Cardinality(R!InFlight) > 0
                    /\ reg[r] /= "idle" => Cardinality(Trying) > 0
                    /\ Cardinality(R!InFlight') = Cardinality(R!InFlight)
                         + (IF st \in {"spent", "failed"} THEN 1 ELSE 0) - (IF reg[r] \in {"spent", "failed"} THEN 1 ELSE 0)
                    /\ Cardinality(Trying') = Cardinality(Trying)
                         + (IF st /= "idle" THEN 1 ELSE 0) - (IF reg[r] /= "idle" THEN 1 ELSE 0)
  <2> USE <1>RegMoves
  <2>1. reg \in [Registrations -> RegStates] /\ reg' = [reg EXCEPT ![r] = st] /\ IsFiniteSet(Registrations)
      BY Zenon DEF RegInv, R!TypeOK, R!To, RegStates, RegistrationSetting, RegistrationConstants
  <2>2. /\ R!InFlight = Into(reg, Registrations, {"spent", "failed"})
        /\ R!InFlight' = Into(reg', Registrations, {"spent", "failed"})
        /\ Trying' = Into(reg', Registrations, {"read", "spent", "failed"})
      BY Zenon DEF R!InFlight, Into, Trying
  <2>3. reg[r] \in RegStates /\ reg'[r] = st /\ \A s \in Registrations : s /= r => reg'[s] = reg[s]
      BY <2>1, Zenon
  <2>4. ASSUME NEW V
        PROVE  /\ Cardinality(Into(reg, Registrations, V)) \in Nat
               /\ reg[r] \in V => Cardinality(Into(reg, Registrations, V)) > 0
               /\ Cardinality(Into(reg', Registrations, V)) =
                    Cardinality(Into(reg, Registrations, V)) + One(reg'[r], V) - One(reg[r], V)
    <3>1. Cardinality(Into(reg, Registrations, V)) \in Nat
        BY <2>1, IntoCounts, Zenon DEF RegistrationSetting
    <3>2. reg[r] \in V => Cardinality(Into(reg, Registrations, V)) > 0
        BY <2>1, IntoHas, Zenon DEF RegistrationSetting
    <3>3. Cardinality(Into(reg', Registrations, V)) =
            Cardinality(Into(reg, Registrations, V)) + One(reg'[r], V) - One(reg[r], V)
      <4>1. DifferAt(reg, reg', Registrations, r)
          BY <2>3, Zenon DEF DifferAt
      <4>2. IsFiniteSet(Registrations)
          BY <2>1, Zenon
      <4> QED BY <4>1, <4>2, IntoChange, SMT DEF RegistrationSetting
    <3> QED BY <3>1, <3>2, <3>3, Zenon
  <2>5. /\ Cardinality(Trying') = Cardinality(Trying)
             + (IF st \in {"read", "spent", "failed"} THEN 1 ELSE 0)
             - (IF reg[r] \in {"read", "spent", "failed"} THEN 1 ELSE 0)
        /\ Cardinality(R!InFlight') = Cardinality(R!InFlight)
             + (IF st \in {"spent", "failed"} THEN 1 ELSE 0) - (IF reg[r] \in {"spent", "failed"} THEN 1 ELSE 0)
        /\ Cardinality(Trying) \in Nat /\ Cardinality(R!InFlight) \in Nat
        /\ reg[r] \in {"spent", "failed"} => Cardinality(R!InFlight) > 0
        /\ reg[r] \in {"read", "spent", "failed"} => Cardinality(Trying) > 0
      BY <2>2, <2>3, <2>4, Zenon DEF Trying, One
  <2>6. reg' \in [Registrations -> RegStates]
      BY <2>1, Zenon
  <2> QED BY <2>3, <2>5, <2>6, Zenon DEF RegStates
(* Cardinality of the instance is Cardinality.                             *)
<1>RegCount. ASSUME NEW S PROVE R!Cardinality(S) = Cardinality(S)
  BY <1>RegCount, Zenon DEF R!Cardinality, Cardinality
<1>RegInvInit. RegistrationSetting /\ R!Init => RegInv
  <2> SUFFICES ASSUME RegistrationSetting, R!Init PROVE RegInv
      BY Zenon
  <2> USE DEF RegistrationSetting, RegistrationConstants
  <2>1. R!InFlight = {} /\ Trying = {}
      BY Zenon DEF R!Init, R!InFlight, Trying, Into
  <2>2. Cardinality({}) = 0 /\ Cardinality(Registrations) \in Nat
      BY Zenon DEF RegistrationSetting, FiniteSetFacts, EmptyCounts, NumberCounts
  <2>3. R!TypeOK
      BY <2>2, <1>RegCount DEF R!Init, R!TypeOK
  <2>4. R!UsesAddUp
      BY <2>1, <2>2, <1>RegCount DEF R!Init, R!UsesAddUp
  <2>5. ~R!Ended
      BY Zenon DEF R!Init, R!Ended
  <2> QED BY <2>1, <2>2, <2>3, <2>4, <2>5 DEF R!Init, RegInv
(* The fields of the token and of the tally, as plain facts.               *)
<1>RegInvNext. ASSUME RegInv, [R!Next]_<<regToken, reg, tally>> PROVE RegInv'
  <2> USE <1>RegInvNext
  <2> USE DEF RegistrationSetting, RegistrationConstants
  <2> DEFINE flying == Cardinality(R!InFlight)
             trying == Cardinality(Trying)
             Goal ==
               /\ regToken' \in [uses : 0..MaxUses, revoked : BOOLEAN, expired : BOOLEAN]
               /\ tally' \in [clients : 0..MaxTries, wasted : 0..MaxTries, tries : 0..MaxTries,
                                afterEnd : 0..MaxTries, atEnd : 0..Cardinality(Registrations)]
               /\ reg' \in [Registrations -> RegStates]
               /\ regToken'.uses = tally'.clients + tally'.wasted + flying'
               /\ tally'.clients + tally'.wasted + trying' <= tally'.tries
               /\ IF R!Ended' THEN tally'.afterEnd + flying' <= tally'.atEnd ELSE tally'.afterEnd = 0
               /\ tally'.afterEnd <= tally'.clients
  <2>0. /\ regToken \in [uses : 0..MaxUses, revoked : BOOLEAN, expired : BOOLEAN]
        /\ tally \in [clients : 0..MaxTries, wasted : 0..MaxTries, tries : 0..MaxTries,
                      afterEnd : 0..MaxTries, atEnd : 0..Cardinality(Registrations)]
        /\ reg \in [Registrations -> RegStates]
        /\ regToken.uses = tally.clients + tally.wasted + flying /\ regToken.uses <= MaxUses
      BY <1>RegCount, Zenon DEF RegInv, R!TypeOK, R!UsesAddUp, RegStates
  <2>1. flying \in Nat /\ trying \in Nat /\ Cardinality(Registrations) \in Nat /\ flying <= Cardinality(Registrations)
      BY <2>0, Zenon DEF R!InFlight, Trying, Into, RegistrationSetting, FiniteSetFacts, PartCounts, NumberCounts
  <2>2. SUFFICES Goal
      BY <1>RegCount DEF RegInv, R!TypeOK, R!UsesAddUp, RegStates
  <2>3. /\ tally.clients + tally.wasted + trying <= tally.tries
        /\ IF R!Ended THEN tally.afterEnd + flying <= tally.atEnd ELSE tally.afterEnd = 0
        /\ tally.afterEnd <= tally.clients
      BY Zenon DEF RegInv
  <2>4. ASSUME NEW r \in Registrations, R!Check(r) PROVE Goal
    <3>1. R!To(r, "read") /\ "read" \in RegStates /\ reg[r] = "idle"
        BY <2>4, Zenon DEF R!Check, RegStates
    <3>2. flying' = flying /\ trying' = trying + 1 /\ reg' \in [Registrations -> RegStates]
        BY <3>1, <1>RegMoves, <2>1
    <3> HIDE DEF flying, trying
    <3>3. tally' = [tally EXCEPT !.tries = @ + 1] /\ tally.tries < MaxTries /\ regToken' = regToken /\ R!Ended' = R!Ended
        BY <2>4, Zenon DEF R!Check, R!Ended
    <3> QED BY <2>0, <2>1, <2>3, <3>2, <3>3
  <2>5. ASSUME NEW r \in Registrations, R!Redeem(r) PROVE Goal
    <3>1. tally' = tally /\ reg[r] = "read"
        BY <2>5, Zenon DEF R!Redeem
    <3>2. CASE R!Redeemable
      <4>1. R!To(r, "spent") /\ "spent" \in RegStates
          BY <2>5, <3>2, Zenon DEF R!Redeem, RegStates
      <4>2. flying' = flying + 1 /\ trying' = trying /\ reg' \in [Registrations -> RegStates]
          BY <4>1, <3>1, <1>RegMoves, <2>1
      <4>3. regToken' = [regToken EXCEPT !.uses = @ + 1] /\ regToken.uses < MaxUses /\ ~R!Ended /\ ~R!Ended'
          BY <2>0, <2>5, <3>2, Zenon DEF R!Redeem, R!Redeemable, R!Active, R!Ended
      <4> HIDE DEF flying, trying
      <4> QED BY <2>0, <2>1, <2>3, <3>1, <4>2, <4>3
    <3>3. CASE ~R!Redeemable
      <4>1. R!To(r, "idle") /\ "idle" \in RegStates /\ regToken' = regToken /\ R!Ended' = R!Ended
          BY <2>5, <3>3, Zenon DEF R!Redeem, RegStates, R!Ended
      <4>2. flying' = flying /\ trying' = trying - 1 /\ reg' \in [Registrations -> RegStates]
          BY <4>1, <3>1, <1>RegMoves, <2>1
      <4> HIDE DEF flying, trying
      <4> QED BY <2>0, <2>1, <2>3, <3>1, <4>1, <4>2
    <3> QED BY <3>2, <3>3, Zenon
  <2>6. ASSUME NEW r \in Registrations, R!RegisterClient(r) PROVE Goal
    <3>1. regToken' = regToken /\ reg[r] = "spent" /\ R!Ended' = R!Ended
        BY <2>6, Zenon DEF R!RegisterClient, R!Ended
    <3>2. CASE R!To(r, "idle")
               /\ tally' = [tally EXCEPT !.clients = @ + 1, !.afterEnd = IF R!Ended THEN @ + 1 ELSE @]
      <4>1. flying' = flying - 1 /\ trying' = trying - 1 /\ trying > 0 /\ reg' \in [Registrations -> RegStates]
          BY <3>1, <3>2, <1>RegMoves, <2>1 DEF RegStates
      <4>2. tally' = [clients |-> tally.clients + 1, wasted |-> tally.wasted, tries |-> tally.tries,
                      afterEnd |-> IF R!Ended THEN tally.afterEnd + 1 ELSE tally.afterEnd, atEnd |-> tally.atEnd]
          BY <2>0, <3>2, Zenon
      <4> HIDE DEF flying, trying
      <4> QED BY <2>0, <2>1, <2>3, <3>1, <4>1, <4>2
    <3>3. CASE R!To(r, "failed") /\ tally' = tally
      <4>1. flying' = flying /\ trying' = trying /\ reg' \in [Registrations -> RegStates]
          BY <3>1, <3>3, <1>RegMoves, <2>1 DEF RegStates
      <4> HIDE DEF flying, trying
      <4> QED BY <2>0, <2>1, <2>3, <3>1, <3>3, <4>1, Zenon
    <3> QED BY <2>6, <3>2, <3>3, Zenon DEF R!RegisterClient
  <2>7. ASSUME NEW r \in Registrations, R!Refund(r) PROVE Goal
    <3>1. R!To(r, "idle") /\ reg[r] = "failed" /\ "idle" \in RegStates
        BY <2>7, Zenon DEF R!Refund, RegStates
    <3>2. flying' = flying - 1 /\ flying > 0 /\ trying' = trying - 1 /\ trying > 0
          /\ reg' \in [Registrations -> RegStates]
        BY <3>1, <1>RegMoves, <2>1
    <3>3. \/ regToken' = [regToken EXCEPT !.uses = IF @ > 0 THEN @ - 1 ELSE @] /\ tally' = tally
          \/ regToken' = regToken /\ tally' = [tally EXCEPT !.wasted = @ + 1]
        BY <2>7, Zenon DEF R!Refund
    <3>4. R!Ended' = R!Ended
        BY <2>0, <3>3, Zenon DEF R!Ended
    <3> HIDE DEF flying, trying
    <3> QED BY <2>0, <2>1, <2>3, <3>2, <3>3, <3>4
  <2>8. ASSUME NEW r \in Registrations, R!RegistrationCrash(r) PROVE Goal
    <3>1. R!To(r, "idle") /\ reg[r] \in {"spent", "failed"} /\ "idle" \in RegStates
        BY <2>8, Zenon DEF R!RegistrationCrash, RegStates
    <3>2. flying' = flying - 1 /\ flying > 0 /\ trying' = trying - 1 /\ trying > 0
          /\ reg' \in [Registrations -> RegStates]
        BY <3>1, <1>RegMoves, <2>1
    <3>3. regToken' = regToken /\ tally' = [tally EXCEPT !.wasted = @ + 1] /\ R!Ended' = R!Ended
        BY <2>8, Zenon DEF R!RegistrationCrash, R!Ended
    <3> HIDE DEF flying, trying
    <3> QED BY <2>0, <2>1, <2>3, <3>2, <3>3
  <2>9. ASSUME R!RevokeRegistrationToken \/ R!ExpireRegistrationToken PROVE Goal
    <3>1. /\ \/ regToken' = [regToken EXCEPT !.revoked = TRUE]
             \/ regToken' = [regToken EXCEPT !.expired = TRUE]
          /\ reg' = reg /\ R!Ended'
        BY <2>0, <2>9, Zenon DEF R!RevokeRegistrationToken, R!ExpireRegistrationToken, R!Ended
    <3>2. flying' = flying /\ trying' = trying
        BY <3>1, Zenon DEF R!InFlight, Trying
    <3>3. tally' = [clients |-> tally.clients, wasted |-> tally.wasted, tries |-> tally.tries,
                    afterEnd |-> tally.afterEnd, atEnd |-> IF R!Ended THEN tally.atEnd ELSE flying]
        BY <2>0, <2>9, <1>RegCount, Zenon DEF R!RevokeRegistrationToken, R!ExpireRegistrationToken
    <3> HIDE DEF flying, trying
    <3>4. regToken' \in [uses : 0..MaxUses, revoked : BOOLEAN, expired : BOOLEAN] /\ regToken'.uses = regToken.uses
        BY <2>0, <3>1, Zenon
    <3> QED BY <2>0, <2>1, <2>3, <3>1, <3>2, <3>3, <3>4
  <2>10. CASE UNCHANGED <<regToken, reg, tally>>
    <3>1. flying' = flying /\ trying' = trying /\ R!Ended' = R!Ended
        BY <2>10, Zenon DEF R!InFlight, Trying, R!Ended
    <3> HIDE DEF flying, trying
    <3> QED BY <2>0, <2>3, <2>10, <3>1, Zenon
  <2> QED BY <2>4, <2>5, <2>6, <2>7, <2>8, <2>9, <2>10, Zenon DEF R!Next
<1>RegHolds. ASSUME RegInv PROVE R!UsesAreRegistrations
  <2> USE <1>RegHolds
  <2>1. Cardinality(R!InFlight) \in Nat
      BY Zenon DEF R!InFlight, RegistrationSetting, RegistrationConstants, FiniteSetFacts, PartCounts, NumberCounts
  <2> QED BY <2>1, <1>RegCount DEF RegInv, R!EndedTokenRegistersNoMore, R!TypeOK, R!UsesAreRegistrations
<1> QED BY <1>RegInvInit, <1>RegInvNext, <1>RegHolds, Zenon DEF R!registrationVars

-----------------------------------------------------------------------------
(* What the lemmas above assume of finite sets, from the library, and the  *)
(* theorems that rest on it.                                               *)

INSTANCE FiniteSetTheorems

(* The library proves every fact about finite sets that the lemmas take as *)
(* a hypothesis.                                                           *)
LEMMA FiniteSetFactsHold == FiniteSetFacts
<1>1. EmptyCounts
    BY FS_EmptySet, Zenon DEF EmptyCounts
<1>2. NumberCounts
    BY FS_CardinalityType, Zenon DEF NumberCounts
<1>3. PartCounts
    BY FS_Subset, Zenon DEF PartCounts
<1>4. AddCounts
    BY FS_AddElement, Zenon DEF AddCounts
<1>5. RemoveCounts
    BY FS_RemoveElement, Zenon DEF RemoveCounts
<1>6. UnionCounts
    BY FS_Union, Zenon DEF UnionCounts
<1> QED BY <1>1, <1>2, <1>3, <1>4, <1>5, <1>6 DEF FiniteSetFacts

(* However many verifications overlap, a one-time code is guessed at most  *)
(* as often as the attempts and the verifications in flight allow before   *)
(* its lock, and a used code is not accepted again later.                  *)
THEOREM OtpGuesses ==
    ASSUME OtpConstants
    PROVE  O!Spec => []O!GuessingIsBounded
<1>1. OtpSetting
    BY FiniteSetFactsHold, Zenon DEF OtpSetting
<1>2. /\ O!Init => OtpInv
      /\ OtpInv /\ [O!Next]_O!otpVars => OtpInv'
      /\ OtpInv => O!GuessingIsBounded
    BY <1>1, OtpSound
<1> QED BY <1>2, PTL DEF O!Spec

(* However many attempts overlap, the wrong guesses at one identifier in a *)
(* window of the lockout stay below the limit plus the number of attempts  *)
(* that can be in flight.                                                  *)
THEOREM LockoutHolds ==
    ASSUME ThrottleConstants
    PROVE  H!Spec => []H!LockoutBoundsGuesses
<1>1. ThrottleSetting
    BY FiniteSetFactsHold, Zenon DEF ThrottleSetting
<1>2. /\ H!Init => ThrottleInv
      /\ ThrottleInv /\ [H!Next]_H!throttleVars => ThrottleInv'
      /\ ThrottleInv => H!LockoutBoundsGuesses
    BY <1>1, ThrottleSound, Zenon
<1> QED BY <1>2, PTL DEF H!Spec

(* However registrations, refunds, crashes, revocation and expiry          *)
(* interleave, the uses of a registration token count the registrations    *)
(* made or in flight, never pass its limit, and no registration starts to  *)
(* count after the token has ended.                                        *)
THEOREM UsesOfATokenAddUp ==
    ASSUME RegistrationConstants
    PROVE  R!Spec => []R!UsesAreRegistrations
<1>1. RegistrationSetting
    BY FiniteSetFactsHold, Zenon DEF RegistrationSetting
<1>2. /\ R!Init => RegInv
      /\ RegInv /\ [R!Next]_R!registrationVars => RegInv'
      /\ RegInv => R!UsesAreRegistrations
    BY <1>1, RegistrationSound, Zenon
<1> QED BY <1>2, PTL DEF R!Spec
=============================================================================
