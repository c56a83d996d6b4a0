------------------------------ MODULE Platform ------------------------------
(***************************************************************************)
(* What the services share: the NestJS process they run in and the users   *)
(* that call it.  No handler runs in a database transaction; each of its   *)
(* database statements is one atomic step, and at every await any other    *)
(* request or job may run.                                                 *)
(***************************************************************************)
CONSTANTS
    Users,     \* ids of the subscribers that call
    None,      \* "undefined" or NULL
    Faults     \* TRUE: a statement or a lookup may fail, the process may die

ASSUME PlatformAssumption ==
    /\ Faults \in BOOLEAN
    /\ None \notin Users

\* enum StatusField.  Inactive stands for every member but Active and Deleted:
\* the handlers that use this set store them all alike.  The overviews, which
\* count Inactive and no other of them, have statuses of their own.
Statuses == {"Active", "Inactive", "Deleted"}
=============================================================================
