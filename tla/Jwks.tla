-------------------------------- MODULE Jwks --------------------------------
(***************************************************************************)
(* The signing keys of the authorization server (internal/as/jwks.go), for *)
(* one algorithm: keys go from next to current to previous to retired.     *)
(* Each instance of the server signs and verifies with a snapshot of the   *)
(* table, and reloads it when it starts and after its own rotations only.  *)
(*                                                                         *)
(* With JWKSAtomicRotator (Postgres, SQLite) a rotation is one transaction *)
(* under a unique index on the current row, and instances share the table. *)
(* Without it a rotation is a series of updates, meant for one process.    *)
(***************************************************************************)
EXTENDS Integers, FiniteSets, FiniteSetsExt

CONSTANTS
    Instances,  \* processes of the authorization server
    MaxKeys     \* bound: keys ever generated

VARIABLES
    rotator,    \* "atomic" or "stepwise", fixed
    rows,       \* the jwks_keys table: the state of each key
    snap,       \* each instance's snapshot of it
    inst,       \* what each instance is doing
    behind      \* history: rotations since the instance loaded its snapshot

jwksVars == <<rotator, rows, snap, inst, behind>>

Kids == 1 .. MaxKeys
States == <<"none", "next", "current", "previous", "retired">>
Rank(s) == CHOOSE i \in 1 .. 5 : States[i] = s
In(t, s) == {k \in Kids : t[k] = s}

Rest == [pc |-> "up", current |-> 0, next |-> 0, retire |-> {}]

TypeOK ==
    /\ rotator \in {"atomic", "stepwise"}
    /\ rows \in [Kids -> {States[i] : i \in 1 .. 5}]
    /\ snap \in [Instances -> [Kids -> {States[i] : i \in 1 .. 5}]]
    /\ inst \in [Instances ->
                   [pc : {"down", "mint", "mintNext", "reload", "up",
                          "retire", "demote", "promote", "insert"},
                    current : 0 .. MaxKeys, next : 0 .. MaxKeys, retire : SUBSET Kids]]
    /\ behind \in [Instances -> 0 .. 2]
    /\ \A i \in Instances : Cardinality(In(snap[i], "current")) <= 1

Init ==
    /\ rotator \in {"atomic", "stepwise"}
    /\ rows = [k \in Kids |-> "none"]
    /\ snap = [i \in Instances |-> rows]
    /\ inst = [i \in Instances |-> [Rest EXCEPT !.pc = "down"]]
    /\ behind = [i \in Instances |-> 0]

At(i, pc) == inst[i].pc = pc
Goto(i, pc) == inst' = [inst EXCEPT ![i].pc = pc]

\* InsertJWKSKey: key k is the next one generated.
Fresh(k) == In(rows, "none") # {} /\ k = Min(In(rows, "none"))
Load(i) == /\ snap' = [snap EXCEPT ![i] = rows]
           /\ behind' = [behind EXCEPT ![i] = 0]

-----------------------------------------------------------------------------
(* bootstrapJWKS and ensureKeysetLocked.                                   *)

Boot(i) ==
    /\ At(i, "down")
    /\ rotator = "stepwise" => \A j \in Instances : At(j, "down")
    /\ Load(i)
    /\ Goto(i, IF In(rows, "current") = {} THEN "mint" ELSE "up")
    /\ UNCHANGED <<rotator, rows>>

\* The index refuses a second current row; adoptConcurrentKeyset then loads it.
MintCurrent(i) ==
    /\ At(i, "mint")
    /\ IF rotator = "atomic" /\ In(rows, "current") # {}
       THEN Load(i) /\ Goto(i, "up") /\ UNCHANGED rows
       ELSE \E k \in Kids : /\ Fresh(k)
                            /\ rows' = [rows EXCEPT ![k] = "current"]
                            /\ Goto(i, "mintNext")
                            /\ UNCHANGED <<snap, behind>>
    /\ UNCHANGED rotator

MintNext(i) ==
    /\ At(i, "mintNext")
    /\ \E k \in Kids : Fresh(k) /\ rows' = [rows EXCEPT ![k] = "next"]
    /\ Goto(i, "reload")
    /\ UNCHANGED <<rotator, snap, behind>>

Reload(i) ==
    /\ At(i, "reload")
    /\ Load(i)
    /\ inst' = [inst EXCEPT ![i] = Rest]
    /\ UNCHANGED <<rotator, rows>>

-----------------------------------------------------------------------------
(* RotateSigningKey and rotateAlg. Without a current and a next key in the *)
(* snapshot a rotation fails. Keys are listed in the order of creation and *)
(* the last of a state is taken.                                           *)

Last(i, s) == Max(In(snap[i], s))

Overtake == [i \in Instances |-> IF behind[i] = 2 THEN 2 ELSE behind[i] + 1]

Rotated(i, c, n, f) ==
    [k \in Kids |-> CASE k = f -> "next"
                      [] k = n -> "current"
                      [] k = c -> "previous"
                      [] k \in In(snap[i], "previous") -> "retired"
                      [] OTHER -> rows[k]]

AtomicRotateUnindexed(i, c, n, f) ==
    /\ rows' = Rotated(i, c, n, f)
    /\ behind' = Overtake
    /\ Goto(i, "reload")
    /\ UNCHANGED <<rotator, snap>>

\* AtomicRotateJWKS; a transaction that the index refuses changes nothing, and
\* the instance keeps its snapshot.
AtomicRotate(i, c, n, f) ==
    /\ rows' = Rotated(i, c, n, f)
    /\ Cardinality(In(rows', "current")) = 1
    /\ behind' = Overtake
    /\ Goto(i, "reload")
    /\ UNCHANGED <<rotator, snap>>

\* The fallback: retire, demote, promote and insert, one call each.
RotateBegin(i, c, n) ==
    /\ inst' = [inst EXCEPT ![i] = [pc |-> "retire", current |-> c, next |-> n,
                                    retire |-> In(snap[i], "previous")]]
    /\ UNCHANGED <<rotator, rows, snap, behind>>

RotateSigningKey(i) ==
    /\ At(i, "up")
    /\ In(snap[i], "current") # {} /\ In(snap[i], "next") # {}
    /\ LET c == Last(i, "current")
           n == Last(i, "next")
       IN  \/ rotator = "atomic" /\ \E f \in Kids : Fresh(f) /\ AtomicRotate(i, c, n, f)
           \/ rotator = "stepwise" /\ RotateBegin(i, c, n)

Retire(i) ==
    /\ At(i, "retire")
    /\ IF inst[i].retire = {}
       THEN Goto(i, "demote") /\ UNCHANGED rows
       ELSE \E k \in inst[i].retire :
              /\ rows' = [rows EXCEPT ![k] = "retired"]
              /\ inst' = [inst EXCEPT ![i].retire = @ \ {k}]
    /\ UNCHANGED <<rotator, snap, behind>>

Demote(i) ==
    /\ At(i, "demote")
    /\ rows' = [rows EXCEPT ![inst[i].current] = "previous"]
    /\ Goto(i, "promote")
    /\ UNCHANGED <<rotator, snap, behind>>

Promote(i) ==
    /\ At(i, "promote")
    /\ rows' = [rows EXCEPT ![inst[i].next] = "current"]
    /\ Goto(i, "insert")
    /\ UNCHANGED <<rotator, snap, behind>>

InsertNext(i) ==
    /\ At(i, "insert")
    /\ \E k \in Kids : Fresh(k) /\ rows' = [rows EXCEPT ![k] = "next"]
    /\ Goto(i, "reload")
    /\ UNCHANGED <<rotator, snap, behind>>

-----------------------------------------------------------------------------
(* A storage error ends a stepwise rotation where it is, and the snapshot  *)
(* is not reloaded. A process may stop anywhere.                           *)

RotateFails(i) ==
    /\ inst[i].pc \in {"retire", "demote", "promote", "insert"}
    /\ inst' = [inst EXCEPT ![i] = Rest]
    /\ UNCHANGED <<rotator, rows, snap, behind>>

Crash(i) ==
    /\ ~At(i, "down")
    /\ inst' = [inst EXCEPT ![i] = [Rest EXCEPT !.pc = "down"]]
    /\ snap' = [snap EXCEPT ![i] = [k \in Kids |-> "none"]]
    /\ behind' = [behind EXCEPT ![i] = 0]
    /\ UNCHANGED <<rotator, rows>>

Next == \E i \in Instances :
    \/ Boot(i) \/ MintCurrent(i) \/ MintNext(i) \/ Reload(i) \/ RotateSigningKey(i)
    \/ Retire(i) \/ Demote(i) \/ Promote(i) \/ InsertNext(i)
    \/ RotateFails(i) \/ Crash(i)

Spec == Init /\ [][Next]_jwksVars

-----------------------------------------------------------------------------
\* A key moves one state at a time and never back, whatever stale snapshot an
\* instance rotates from and wherever one stops: next, current, previous,
\* retired. So no token is signed with a key that has been withdrawn, and none
\* loses its key without the window in which it is the previous one.
KeysAdvance == \A k \in Kids : rows[k] = "none" \/ Rank(rows'[k]) - Rank(rows[k]) \in {0, 1}

\* The key an instance signs with is still published by the table (current or
\* previous) as long as there has been at most one rotation since it loaded its
\* snapshot; a second one, of another instance, retires it.
LaggingSignerPublished ==
    \A i \in Instances : inst[i].pc # "down" /\ behind[i] <= 1 =>
        \A k \in In(snap[i], "current") : rows[k] \in {"current", "previous"}
=============================================================================
