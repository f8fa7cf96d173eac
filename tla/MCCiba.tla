------------------------------- MODULE MCCiba -------------------------------
(***************************************************************************)
(* Small instances of Ciba for TLC.                                        *)
(***************************************************************************)
EXTENDS Ciba, TLC

Symmetry ==
  Permutations(Clients) \cup Permutations(Users) \cup Permutations(Polls)
    \cup Permutations(Callbacks)

\* Authenticate, decide, poll and redeem: the rows and calls are well typed, and CIBA implements
\* the abstract grant on each storage.
TypedAndImplements == []TypeOK /\ ImplementsApprovalGrant
=============================================================================
