---------------------------- MODULE MCDelegation ----------------------------
(***************************************************************************)
(* Small instances of Delegation for TLC.                                  *)
(***************************************************************************)
EXTENDS Delegation, TLC

CONSTANTS s1, s2

OneScope == {{s1}}
AllScopes == {{s1}, {s1, s2}}
BareScopes == {{}, {s1}}

Symmetry ==
  Permutations(Agents) \cup Permutations(Grants) \cup Permutations(Tokens)
    \cup Permutations(Requests) \cup Permutations(Operators)
=============================================================================
