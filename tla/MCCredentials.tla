---------------------------- MODULE MCCredentials ----------------------------
(***************************************************************************)
(* Instances of Credentials for TLC.                                       *)
(***************************************************************************)
EXTENDS Credentials, TLC

\* Model values of one kind are only ever compared with each other.
Symmetry ==
    Permutations(Users) \cup Permutations(Passwords) \cup Permutations(Tokens)
        \cup Permutations(Requests)
=============================================================================
