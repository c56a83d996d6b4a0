----------------------------- MODULE MCAccounts -----------------------------
(***************************************************************************)
(* Instances of Registration and of Integration, side by side: accounts    *)
(* that come to be, and accounts that install and uninstall, with calls    *)
(* that overlap and fail.  part tells which runs; the other stays where it *)
(* starts.                                                                 *)
(***************************************************************************)
EXTENDS Registration, Integration, TLC

VARIABLE part

accountsVars == <<part, vars, callVars>>

MCInit == part \in {"registration", "integration"} /\ Init /\ IntegrationInit

RegistrationRuns == part = "registration" /\ Next /\ UNCHANGED <<part, callVars>>

IntegrationRuns == part = "integration" /\ IntegrationNext /\ UNCHANGED <<part, vars>>

MCNext == RegistrationRuns \/ IntegrationRuns

MCSpec == MCInit /\ [][MCNext]_accountsVars

\* Model values of one kind are only ever compared with each other.
Symmetry ==
    Permutations(Accounts) \cup Permutations(Emails) \cup Permutations(Codes)
        \cup Permutations(Requests)
        \cup Permutations(Users) \cup Permutations(Integrations) \cup Permutations(Calls)
=============================================================================
