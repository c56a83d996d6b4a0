------------------------------ MODULE MCWebsite ------------------------------
(***************************************************************************)
(* Instances of Website for TLC.                                           *)
(***************************************************************************)
EXTENDS Website, TLC

\* Model values of one kind are only ever compared with each other.
Symmetry ==
    Permutations(Users) \cup Permutations(Urls) \cup Permutations(WebsiteIds)
        \cup Permutations(Requests)

\* The operations that give a website its URL or bring it back.
UrlOps == {"create", "update", "status"}

\* The operations that write rules.
RuleOps == {"create", "update", "createAlert", "updateAlert", "deleteAlert"}

\* Everything but the two operations that take a rule away on request.
WatchOps == {"create", "update", "status", "softDelete", "delete", "createAlert"}

CreateOps == {"create"}

EditOps == {"create", "update"}
=============================================================================
