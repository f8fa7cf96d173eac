------------------------------- MODULE Throttle -------------------------------
(***************************************************************************)
(* Sign-in throttling (internal/throttle): a backoff per address and       *)
(* identifier and a lockout per identifier, kept as counters in a store    *)
(* that several processes share.  The lockout counter is bumped by a read  *)
(* and a compare-and-swap that is retried.                                 *)
(*                                                                         *)
(* One identifier; every attempt comes from an address of its own.  Times  *)
(* count down.  The clock does not advance inside one bump, which takes    *)
(* its time once.                                                          *)
(***************************************************************************)
EXTENDS Integers, FiniteSets

CONSTANTS Attempts,         \* concurrent sign-in attempts, one address each
          GraceFailures, MaxDelay, ResetAfter, UserMaxFailures, UserLockout,
          casAttempts,      \* tries of one bump
          MaxFailures       \* bound: failures counted in one entry

VARIABLES login,    \* login[a]: the entry of the attempt's address
          user,     \* the entry of the identifier
          att,      \* att[a]: where the attempt stands
          guesses   \* history: wrong passwords tried in the current window
                    \* whose bump has not given up

throttleVars == <<login, user, att, guesses>>

(* An absent entry counts nothing; a new failure starts it in either case. *)
NoEntry == [failures |-> 0, blocked |-> 0, expires |-> 0, locked |-> FALSE]
Idle == [pc |-> "idle", prev |-> NoEntry, tries |-> 0]
Unrecorded == {a \in Attempts : att[a].pc /= "idle"}

Lesser(i, j) == IF i < j THEN i ELSE j

(* BaseDelay is one tick and doubles with every failure over the grace.    *)
backoff(over) == Lesser(2^(over - 1), MaxDelay)

lapsed(e) == e.blocked = 0 /\ e.locked

Restarts(e, restartAfterLock) == e.expires = 0 \/ (restartAfterLock /\ lapsed(e))

Expiring(e) ==
    [e EXCEPT !.expires = IF e.blocked > ResetAfter THEN e.blocked + ResetAfter ELSE ResetAfter]

LoginBumped(e) ==
    LET n == IF Restarts(e, FALSE) THEN NoEntry ELSE e
        over == n.failures + 1 - GraceFailures
    IN  Expiring([n EXCEPT !.failures = @ + 1,
                           !.blocked = IF over > 0 THEN backoff(over) ELSE @,
                           !.locked = @ \/ over > 0])

UserBumped(e) ==
    LET n == IF Restarts(e, TRUE) THEN NoEntry ELSE e
        full == n.failures + 1 >= UserMaxFailures
    IN  Expiring([n EXCEPT !.failures = @ + 1,
                           !.blocked = IF full THEN UserLockout ELSE @,
                           !.locked = @ \/ full])

TypeOK ==
    /\ \A e \in {login[a] : a \in Attempts} \cup {user} \cup {att[a].prev : a \in Attempts} :
         /\ e.failures \in 0..MaxFailures /\ e.locked \in BOOLEAN
         /\ e.blocked \in 0..UserLockout + MaxDelay
         /\ e.expires \in 0..UserLockout + MaxDelay + ResetAfter
         /\ e.blocked > 0 => e.locked /\ e.expires > 0
    /\ \A a \in Attempts : att[a].pc \in {"idle", "guessed", "read", "swap"} /\ att[a].tries \in 0..casAttempts
    /\ guesses \in Nat

Init ==
    /\ login = [a \in Attempts |-> NoEntry] /\ user = NoEntry
    /\ att = [a \in Attempts |-> Idle]
    /\ guesses = 0

(* CheckLogin lets the attempt through and the password is wrong.          *)
CheckLogin(a) == user.blocked = 0 /\ login[a].blocked = 0

WrongGuess(a) ==
    /\ att[a].pc = "idle" /\ CheckLogin(a)
    /\ att' = [att EXCEPT ![a].pc = "guessed"]
    /\ guesses' = guesses + 1
    /\ UNCHANGED <<login, user>>

(* RecordLoginFailure: the entry of the address, then the identifier's.    *)
RecordLoginFailure(a) ==
    /\ att[a].pc = "guessed" /\ login[a].failures < MaxFailures
    /\ login' = [login EXCEPT ![a] = LoginBumped(@)]
    /\ att' = [att EXCEPT ![a].pc = "read"]
    /\ UNCHANGED <<user, guesses>>

BumpRead(a) ==
    /\ att[a].pc = "read"
    /\ att' = [att EXCEPT ![a] = [pc |-> "swap", prev |-> user, tries |-> @.tries + 1]]
    /\ UNCHANGED <<login, user, guesses>>

(* Mutant of Swappable: the entry is set whatever it has become.           *)
SwappableAlways(a) == TRUE

Swappable(a) == user = att[a].prev

(* A window ends when the counter starts anew; attempts still to be        *)
(* counted belong to the next one.                                         *)
Swap(a) ==
    /\ att[a].pc = "swap" /\ Swappable(a) /\ user.failures < MaxFailures
    /\ user' = UserBumped(att[a].prev)
    /\ guesses' = IF Restarts(att[a].prev, TRUE) THEN Cardinality(Unrecorded) ELSE guesses
    /\ att' = [att EXCEPT ![a] = Idle]
    /\ UNCHANGED login

SwapLost(a) ==
    /\ att[a].pc = "swap" /\ ~Swappable(a)
    /\ IF att[a].tries < casAttempts
       THEN att' = [att EXCEPT ![a].pc = "read"] /\ UNCHANGED guesses
       ELSE att' = [att EXCEPT ![a] = Idle] /\ guesses' = guesses - 1
    /\ UNCHANGED <<login, user>>

(* RecordLoginSuccess after a correct password from a's address.           *)
RecordLoginSuccess(a) ==
    /\ att[a].pc = "idle" /\ CheckLogin(a)
    /\ login' = [login EXCEPT ![a] = NoEntry] /\ user' = NoEntry
    /\ guesses' = Cardinality(Unrecorded)
    /\ UNCHANGED att

(* UnlockIdentifier and ClearLoginBackoff, by an administrator.            *)
UnlockIdentifier ==
    /\ user' = NoEntry /\ guesses' = Cardinality(Unrecorded)
    /\ UNCHANGED <<login, att>>

ClearLoginBackoff ==
    /\ login' = [a \in Attempts |-> NoEntry]
    /\ UNCHANGED <<user, att, guesses>>

Aged(e) == [e EXCEPT !.blocked = IF @ > 0 THEN @ - 1 ELSE 0, !.expires = IF @ > 0 THEN @ - 1 ELSE 0]

(* A lockout that lapses, and an entry that expires, end the window too.   *)
Tick ==
    /\ \A a \in Attempts : att[a].pc \in {"idle", "guessed"}
    /\ login' = [a \in Attempts |-> Aged(login[a])] /\ user' = Aged(user)
    /\ guesses' = IF Restarts(Aged(user), TRUE) THEN Cardinality(Unrecorded) ELSE guesses
    /\ UNCHANGED att

Next ==
    \/ \E a \in Attempts : \/ WrongGuess(a) \/ RecordLoginFailure(a) \/ BumpRead(a)
                           \/ Swap(a) \/ SwapLost(a) \/ RecordLoginSuccess(a)
    \/ UnlockIdentifier \/ ClearLoginBackoff \/ Tick

Spec == Init /\ [][Next]_throttleVars

(* Within one window an identifier's password is tried wrongly at most     *)
(* UserMaxFailures times, plus the attempts that were let through before   *)
(* the lockout was written: no failure is lost to a concurrent one, short  *)
(* of a bump that loses casAttempts swaps and reports an error.            *)
LockoutBoundsGuesses == guesses <= UserMaxFailures + Cardinality(Attempts) - 1
=============================================================================
