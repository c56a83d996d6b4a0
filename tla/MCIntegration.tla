--------------------------- MODULE MCIntegration ---------------------------
(***************************************************************************)
(* Instances of Integration for TLC.                                       *)
(***************************************************************************)
EXTENDS Integration, TLC

\* Model values of one kind are only ever compared with each other.
Symmetry ==
    Permutations(Users) \cup Permutations(Integrations) \cup Permutations(Calls)
=============================================================================
