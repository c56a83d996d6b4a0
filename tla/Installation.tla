---------------------------- MODULE Installation ----------------------------
(***************************************************************************)
(* What the integration page promises: one call installs an integration    *)
(* that its user does not have, and uninstalls one that the user has.      *)
(***************************************************************************)
CONSTANTS Users, Integrations

VARIABLE installed

Init == installed = [u \in Users |-> {}]

Flip(set, i) == IF i \in set THEN set \ {i} ELSE set \cup {i}

Toggle(u, i) == installed' = [installed EXCEPT ![u] = Flip(@, i)]

Next == \E u \in Users, i \in Integrations : Toggle(u, i)

Spec == Init /\ [][Next]_installed
=============================================================================
