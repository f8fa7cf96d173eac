---------------------------- MODULE FiniteCounts ----------------------------
(***************************************************************************)
(* What the proofs use of finite sets and of how many members they have.   *)
(* FiniteSetTheorems proves all of it. A lemma takes it as a hypothesis,   *)
(* FiniteSetFacts, and a theorem discharges that with FiniteSetFactsHold,  *)
(* which the module that holds the theorem takes from the library at its   *)
(* end: the provers carry along whatever a module has stated before a      *)
(* step, and the library is large.                                         *)
(***************************************************************************)
EXTENDS Integers, FiniteSets

-----------------------------------------------------------------------------
EmptyCounts == IsFiniteSet({}) /\ Cardinality({}) = 0 /\ \A S : IsFiniteSet(S) => (Cardinality(S) = 0 <=> S = {})
NumberCounts == \A S : IsFiniteSet(S) => Cardinality(S) \in Nat
PartCounts == \A S, T : IsFiniteSet(S) /\ T \subseteq S => IsFiniteSet(T) /\ Cardinality(T) <= Cardinality(S)
AddCounts ==
    \A S, x : IsFiniteSet(S) => /\ IsFiniteSet(S \cup {x})
                                /\ Cardinality(S \cup {x}) = IF x \in S THEN Cardinality(S) ELSE Cardinality(S) + 1
RemoveCounts ==
    \A S, x : IsFiniteSet(S) => /\ IsFiniteSet(S \ {x})
                                /\ Cardinality(S \ {x}) = IF x \in S THEN Cardinality(S) - 1 ELSE Cardinality(S)
UnionCounts ==
    \A S, T : IsFiniteSet(S) /\ IsFiniteSet(T) =>
        Cardinality(S \cup T) = Cardinality(S) + Cardinality(T) - Cardinality(S \cap T)
FiniteSetFacts == EmptyCounts /\ NumberCounts /\ PartCounts /\ AddCounts /\ RemoveCounts /\ UnionCounts
=============================================================================
