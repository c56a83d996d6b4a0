----------------------------- MODULE Integration -----------------------------
(***************************************************************************)
(* IntegrationService.updateIntegration keeps what a user has installed    *)
(* twice: as the JSON column integrationIds of "subscriberUser", and as    *)
(* the rows of "integrationConfigure".  A call reads the column, inserts   *)
(* or deletes the row, and writes back the column it has read, changed in  *)
(* one place: three statements, outside any transaction.                   *)
(***************************************************************************)
EXTENDS Naturals, FiniteSets

CONSTANTS
    Users,           \* subscribers and team members
    Integrations,    \* ids of the available integrations
    MaxRows,         \* bound: configuration rows ever inserted
    Calls,           \* bound: calls in flight at the same time
    Nobody,          \* no user, no integration
    Overlap,         \* TRUE: one user's calls may overlap
    Faults           \* TRUE: a statement may be rejected

ASSUME IntegrationAssumption ==
    /\ MaxRows \in Nat /\ Overlap \in BOOLEAN /\ Faults \in BOOLEAN
    /\ Nobody \notin Users \cup Integrations

VARIABLES
    ids,             \* subscriberUser.integrationIds
    rows,            \* the integrationConfigure table
    lastRow,         \* its id sequence
    call,            \* the calls in flight
    broken           \* history: the user and the integration of each call
                     \* that broke off between its two writes

callVars == <<ids, rows, lastRow, call, broken>>

\* Nothing in the table keeps (user, integration) unique.
ConfigureRow ==
    [id: Nat, user: Users, integration: Integrations, isEnableNow: BOOLEAN]

\* read is the column as the call has read it.  stale is history: another call
\* of this user has written since.
Call ==
    [pc: {"idle", "configure", "save"}, user: Users \cup {Nobody},
     integration: Integrations \cup {Nobody}, read: SUBSET Integrations,
     stale: BOOLEAN]

NoCall ==
    [pc |-> "idle", user |-> Nobody, integration |-> Nobody, read |-> {}, stale |-> FALSE]

IntegrationTypeOK ==
    /\ ids \in [Users -> SUBSET Integrations]
    /\ rows \subseteq ConfigureRow
    /\ lastRow \in Nat
    /\ call \in [Calls -> Call]
    /\ broken \subseteq Users \X Integrations
    /\ \A r \in Calls :
          call[r].pc # "idle" => call[r].user # Nobody /\ call[r].integration # Nobody
    /\ \A a \in rows : a.id <= lastRow
    /\ \A a, b \in rows : a.id = b.id => a = b

Calling == {r \in Calls : call[r].pc # "idle"}

\* Bound: a call starts only while its row fits, so none gets stuck.
RoomForRow == lastRow + Cardinality(Calling) < MaxRows

Configured(u) == {a.integration : a \in {b \in rows : b.user = u}}

\* splice or push: the list keeps no duplicate, so it is a set here.
Flip(set, i) == IF i \in set THEN set \ {i} ELSE set \cup {i}

\* The calls as they are after r has written something of its user and is at c.
Others(r, c) ==
    [q \in Calls |->
        IF q = r THEN c
        ELSE IF call[q].user = call[r].user THEN [call[q] EXCEPT !.stale = TRUE]
        ELSE call[q]]

(***************************************************************************)
(* updateIntegration.  The controller has refused unknown integrations.    *)
(***************************************************************************)
ReadIds(r, u, i) ==
    /\ RoomForRow
    /\ call[r].pc = "idle"
    /\ Overlap \/ \A q \in Calls : call[q].user # u
    /\ call' = [call EXCEPT ![r] =
           [pc |-> "configure", user |-> u, integration |-> i, read |-> ids[u],
            stale |-> FALSE]]
    /\ UNCHANGED <<ids, rows, lastRow, broken>>

\* Mutants: the DELETE forgets userId; the call leaves the row where it is.
DeleteOfAnyUser(r) ==
    /\ call[r].pc = "configure" /\ call[r].integration \in call[r].read
    /\ rows' = {a \in rows : a.integration # call[r].integration}
    /\ call' = Others(r, [call[r] EXCEPT !.pc = "save"])
    /\ UNCHANGED <<ids, lastRow, broken>>

DeleteNothing(r) ==
    /\ call[r].pc = "configure" /\ call[r].integration \in call[r].read
    /\ call' = [call EXCEPT ![r].pc = "save"]
    /\ UNCHANGED <<ids, rows, lastRow, broken>>

\* Every row of the user for the integration, should there be more than one.
DeleteConfiguration(r) ==
    /\ call[r].pc = "configure" /\ call[r].integration \in call[r].read
    /\ rows' = {a \in rows : a.user # call[r].user \/ a.integration # call[r].integration}
    /\ call' = Others(r, [call[r] EXCEPT !.pc = "save"])
    /\ UNCHANGED <<ids, lastRow, broken>>

\* Mutant: the id does not come from the sequence.
InsertSameId(r) ==
    /\ call[r].pc = "configure" /\ call[r].integration \notin call[r].read
    /\ rows' = rows \cup {[id |-> lastRow, user |-> call[r].user,
                           integration |-> call[r].integration, isEnableNow |-> FALSE]}
    /\ call' = Others(r, [call[r] EXCEPT !.pc = "save"])
    /\ UNCHANGED <<ids, lastRow, broken>>

InsertConfiguration(r) ==
    /\ call[r].pc = "configure" /\ call[r].integration \notin call[r].read
    /\ rows' = rows \cup {[id |-> lastRow + 1, user |-> call[r].user,
                           integration |-> call[r].integration, isEnableNow |-> FALSE]}
    /\ lastRow' = lastRow + 1
    /\ call' = Others(r, [call[r] EXCEPT !.pc = "save"])
    /\ UNCHANGED <<ids, broken>>

\* Mutant: the one id replaces the list.
SaveOneId(r) ==
    /\ call[r].pc = "save"
    /\ ids' = [ids EXCEPT ![call[r].user] = {call[r].integration} \ call[r].read]
    /\ call' = Others(r, NoCall)
    /\ UNCHANGED <<rows, lastRow, broken>>

\* The list that was read, changed in one place, replaces whatever is there.
SaveIds(r) ==
    /\ call[r].pc = "save"
    /\ ids' = [ids EXCEPT ![call[r].user] = Flip(call[r].read, call[r].integration)]
    /\ call' = Others(r, NoCall)
    /\ UNCHANGED <<rows, lastRow, broken>>

\* A statement is rejected, or the process dies: earlier ones stay written.
CallFails(r) ==
    /\ Faults
    /\ call[r].pc # "idle"
    /\ call' = [call EXCEPT ![r] = NoCall]
    /\ broken' = IF call[r].pc = "save"
                 THEN broken \cup {<<call[r].user, call[r].integration>>} ELSE broken
    /\ UNCHANGED <<ids, rows, lastRow>>

\* updateIntegrationConfig: one UPDATE, which may match no row or several.
UpdateIntegrationConfig(u, i, enable) ==
    /\ rows' = {IF a.user = u /\ a.integration = i THEN [a EXCEPT !.isEnableNow = enable] ELSE a
                  : a \in rows}
    /\ UNCHANGED <<ids, lastRow, call, broken>>

IntegrationInit ==
    /\ ids = [u \in Users |-> {}]
    /\ rows = {}
    /\ lastRow = 0
    /\ call = [r \in Calls |-> NoCall]
    /\ broken = {}

IntegrationNext ==
    \/ \E r \in Calls, u \in Users, i \in Integrations : ReadIds(r, u, i)
    \/ \E r \in Calls :
          \/ DeleteConfiguration(r)
          \/ InsertConfiguration(r)
          \/ SaveIds(r)
          \/ CallFails(r)
    \/ \E u \in Users, i \in Integrations, enable \in BOOLEAN :
          UpdateIntegrationConfig(u, i, enable)

IntegrationSpec == IntegrationInit /\ [][IntegrationNext]_callVars

-----------------------------------------------------------------------------
(***************************************************************************)
(* Properties.                                                             *)
(***************************************************************************)
\* At rest the two stores agree: a user has exactly one configuration row for
\* each integration the list calls installed, and none for the others, but for
\* integrations whose call broke off between the row and the list.
InstalledIffConfigured ==
    \A u \in Users, i \in Integrations :
        (\A r \in Calls : call[r].user # u) /\ <<u, i>> \notin broken =>
            /\ i \in ids[u] <=> i \in Configured(u)
            /\ \A a, b \in rows :
                  a.user = u /\ b.user = u /\ a.integration = i /\ b.integration = i => a = b

\* A call that no other call of its user has overtaken tells the truth when it
\* answers: both stores then have the integration, or neither does, whatever
\* disagreement earlier calls have left behind.
AnswerHolds ==
    [][\A r \in Calls : SaveIds(r) /\ ~call[r].stale =>
          (call[r].integration \in ids'[call[r].user] <=>
              \E a \in rows' :
                  a.user = call[r].user /\ a.integration = call[r].integration)]_callVars

\* updateIntegration implements the one-step toggle of the integration page.
Page == INSTANCE Installation WITH installed <- ids

TogglesInstallation == Page!Spec
=============================================================================
