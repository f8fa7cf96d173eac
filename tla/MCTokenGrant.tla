---------------------------- MODULE MCTokenGrant ----------------------------
(* Small instances of TokenGrant for TLC. *)
EXTENDS TokenGrant, TLC

\* Requests, tokens, scopes and keys are interchangeable: no definition names one.
Symmetry == UNION {Permutations(Requests), Permutations(Tokens), Permutations(Scopes), Permutations(Keys)}
=============================================================================
