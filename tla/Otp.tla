---------------------------------- MODULE Otp ----------------------------------
(***************************************************************************)
(* One-time codes by mail or message (otp/otp.go) for one purpose and      *)
(* destination, over the key-value cache (kv/memory.go).  The state of the *)
(* service is four cache keys: the code, the attempt counter, the lock and *)
(* the resend cooldown.  Each step of Issue and Verify is one cache call,  *)
(* so concurrent requests interleave between them.                         *)
(*                                                                         *)
(* Time is relative: every key carries the ticks it has left.  As with the *)
(* defaults of New, LockTTL is at least CodeTTL.  One Issue runs at a time:*)
(* the cooldown outlives the sending of a code.                            *)
(***************************************************************************)
EXTENDS Integers, FiniteSets

CONSTANTS Verifiers,     \* concurrent Verify requests
          MaxAttempts,   \* Config.MaxAttempts
          CodeTTL, LockTTL, Cooldown,
          MaxCodes       \* bound: codes issued in a behaviour

VARIABLES cache,     \* code, att, lock, cd: value and remaining ticks
          issuer,    \* where Issue is
          verify,    \* per request: where Verify is
          codes,     \* codes generated so far
          log        \* history: guesses, acceptances, overlaps

otpVars == <<cache, issuer, verify, codes, log>>

Codes == 1..MaxCodes
Idle == [step |-> "idle", guess |-> 0, spent |-> {}]

TypeOK ==
    /\ cache \in [code : 0..MaxCodes, codeLeft : 0..CodeTTL, att : 0..MaxAttempts + Cardinality(Verifiers),
                  attLeft : 0..LockTTL, lockLeft : 0..LockTTL, cdLeft : 0..Cooldown]
    /\ (cache.code = 0) = (cache.codeLeft = 0) /\ (cache.att = 0) = (cache.attLeft = 0)
    /\ issuer \in {"idle", "cooldown", "set", "reset", "send", "unsend", "release"}
    /\ verify \in [Verifiers -> [step : {"idle", "count", "lock", "discard", "compare", "delete", "clear"},
                                 guess : 0..MaxCodes, spent : SUBSET Codes]]
    /\ codes \in 0..MaxCodes
    /\ log \in [guesses : 0..MaxAttempts + 1, muddled : BOOLEAN,
                accepted : SUBSET Codes, reused : SUBSET Codes]

Init ==
    /\ cache = [code |-> 0, codeLeft |-> 0, att |-> 0, attLeft |-> 0, lockLeft |-> 0, cdLeft |-> 0]
    /\ issuer = "idle"
    /\ verify = [v \in Verifiers |-> Idle]
    /\ codes = 0
    /\ log = [guesses |-> 0, muddled |-> FALSE, accepted |-> {}, reused |-> {}]

-----------------------------------------------------------------------------
Locked == cache.lockLeft > 0
DeleteCode == cache' = [cache EXCEPT !.code = 0, !.codeLeft = 0]
DeleteAttempts == cache' = [cache EXCEPT !.att = 0, !.attLeft = 0]

(* Verify requests that are past the lock check.                           *)
Busy == {v \in Verifiers : verify[v].step \notin {"idle", "count"}}

(* Issue: the lock, the cooldown, the code, the counter, the message.      *)
Issue ==
    /\ issuer = "idle" /\ ~Locked /\ codes < MaxCodes
    /\ issuer' = "cooldown"
    /\ UNCHANGED <<cache, verify, codes, log>>

TakeCooldown ==
    /\ issuer = "cooldown"
    /\ IF cache.cdLeft > 0
         THEN issuer' = "idle" /\ UNCHANGED cache
         ELSE issuer' = "set" /\ cache' = [cache EXCEPT !.cdLeft = Cooldown]
    /\ UNCHANGED <<verify, codes, log>>

(* Writing the code, or failing to generate or to write one.               *)
SetCode ==
    /\ issuer = "set"
    /\ \/ issuer' = "release" /\ UNCHANGED <<cache, codes, log>>
       \/ /\ issuer' = "reset" /\ codes' = codes + 1
          /\ cache' = [cache EXCEPT !.code = codes + 1, !.codeLeft = CodeTTL]
          /\ log' = [log EXCEPT !.guesses = 0, !.muddled = Busy /= {}]
    /\ UNCHANGED verify

ResetAttempts ==
    /\ issuer = "reset" /\ issuer' = "send"
    /\ DeleteAttempts
    /\ UNCHANGED <<verify, codes, log>>

Send ==
    /\ issuer = "send" /\ issuer' \in {"idle", "unsend"}
    /\ UNCHANGED <<cache, verify, codes, log>>

Unsend ==
    /\ issuer = "unsend" /\ issuer' = "release"
    /\ DeleteCode
    /\ UNCHANGED <<verify, codes, log>>

ReleaseCooldown ==
    /\ issuer = "release" /\ issuer' = "idle"
    /\ cache' = [cache EXCEPT !.cdLeft = 0]
    /\ UNCHANGED <<verify, codes, log>>

-----------------------------------------------------------------------------
To(v, st) == verify' = [verify EXCEPT ![v].step = st]

(* Verify with one of the codes sent so far, or (0) with a wrong one.      *)
Verify(v, guess) ==
    /\ verify[v].step = "idle" /\ ~Locked
    /\ verify' = [verify EXCEPT ![v] = [step |-> "count", guess |-> guess, spent |-> log.accepted]]
    /\ UNCHANGED <<cache, issuer, codes, log>>

TooMany(n) == n > MaxAttempts

Count(v) ==
    LET n == cache.att + 1
    IN  /\ verify[v].step = "count"
        /\ cache' = [cache EXCEPT !.att = n, !.attLeft = IF cache.att = 0 THEN LockTTL ELSE @]
        /\ To(v, IF TooMany(n) THEN "lock" ELSE "compare")
        /\ log' = [log EXCEPT !.muddled = @ \/ issuer = "reset"]
        /\ UNCHANGED <<issuer, codes>>

Lock(v) ==
    /\ verify[v].step = "lock" /\ To(v, "discard")
    /\ cache' = [cache EXCEPT !.lockLeft = LockTTL]
    /\ UNCHANGED <<issuer, codes, log>>

Discard(v) ==
    /\ verify[v].step = "discard" /\ verify' = [verify EXCEPT ![v] = Idle]
    /\ DeleteCode
    /\ UNCHANGED <<issuer, codes, log>>

Compare(v) ==
    /\ verify[v].step = "compare"
    /\ IF cache.code /= 0 /\ cache.code = verify[v].guess
         THEN To(v, "delete") ELSE verify' = [verify EXCEPT ![v] = Idle]
    /\ log' = [log EXCEPT !.guesses = IF cache.code = 0 \/ @ > MaxAttempts THEN @ ELSE @ + 1]
    /\ UNCHANGED <<cache, issuer, codes>>

Consume(v) ==
    /\ verify[v].step = "delete" /\ To(v, "clear")
    /\ DeleteCode
    /\ UNCHANGED <<issuer, codes, log>>

Accept(v) ==
    LET c == verify[v].guess
    IN  /\ verify[v].step = "clear" /\ verify' = [verify EXCEPT ![v] = Idle]
        /\ DeleteAttempts
        /\ log' = [log EXCEPT !.accepted = @ \cup {c},
                              !.reused = IF c \in verify[v].spent THEN @ \cup {c} ELSE @]
        /\ UNCHANGED <<issuer, codes>>

(* kv: a key whose time has passed is gone.                                *)
Tick ==
    /\ cache' = [code |-> IF cache.codeLeft <= 1 THEN 0 ELSE cache.code,
                 codeLeft |-> IF cache.codeLeft > 0 THEN cache.codeLeft - 1 ELSE 0,
                 att |-> IF cache.attLeft <= 1 THEN 0 ELSE cache.att,
                 attLeft |-> IF cache.attLeft > 0 THEN cache.attLeft - 1 ELSE 0,
                 lockLeft |-> IF cache.lockLeft > 0 THEN cache.lockLeft - 1 ELSE 0,
                 cdLeft |-> IF cache.cdLeft > 0 THEN cache.cdLeft - 1 ELSE 0]
    /\ UNCHANGED <<issuer, verify, codes, log>>

Next ==
    \/ Issue \/ TakeCooldown \/ SetCode \/ ResetAttempts \/ Send \/ Unsend \/ ReleaseCooldown
    \/ \E v \in Verifiers : \/ \E guess \in 0..codes : Verify(v, guess)
                            \/ Count(v) \/ Lock(v) \/ Discard(v) \/ Compare(v) \/ Consume(v) \/ Accept(v)
    \/ Tick

Spec == Init /\ [][Next]_otpVars

-----------------------------------------------------------------------------
(* A code is compared with at most MaxAttempts guesses, however the Verify *)
(* requests interleave, because the counter is taken before the code is    *)
(* read.  It holds unless a Verify was under way while the code was        *)
(* written and the counter reset.                                          *)
GuessesBounded == log.muddled \/ log.guesses <= MaxAttempts

(* A code that a request has finished accepting is never accepted by a     *)
(* request that starts later.  (Requests that overlap may share one.)      *)
NoLaterReuse == log.reused = {}

(* Together: a code is guessed at most MaxAttempts times per lock, however *)
(* the attempts overlap, and is not accepted again later.                  *)
GuessingIsBounded == TypeOK /\ GuessesBounded /\ NoLaterReuse
=============================================================================
