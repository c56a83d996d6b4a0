----------------------------- MODULE Incidents ------------------------------
(***************************************************************************)
(* Incidents and the records waiting to be resolved.  The monitor worker,  *)
(* which is not in this repository, writes an incident and a record for    *)
(* it; a client resolves the record (deleteResolve), which is to lower the *)
(* flag of the load time incidents of the website, or deletes all          *)
(* incidents of a website (deleteIncident).                                *)
(***************************************************************************)
EXTENDS Platform, Naturals

CONSTANTS
    Sites,           \* websites
    Alarms,          \* bound: incidents, each with the record of the same id
    Resolvers        \* bound: deleteResolve handlers in flight at the same time

ASSUME IncidentsAssumption == None \notin Sites \cup Alarms

VARIABLES
    incident,        \* the incident table
    record,          \* the websiteResolve table
    resolve,         \* the handlers in flight
    orphaned         \* history: sites where a handler ended between its writes

incidentVars == <<incident, record, resolve, orphaned>>

Incident ==
    [state: {"free", "there", "gone"}, site: Sites \cup {None},
     type: {"loadTime", "responseCode"}, isOccured: {0, 1}]

NoIncident ==
    [state |-> "free", site |-> None, type |-> "loadTime", isOccured |-> 0]

\* by (history): the handler whose DELETE removed the record.
Record ==
    [state: {"free", "there", "gone"}, site: Sites \cup {None},
     by: Resolvers \cup {None}]

NoRecord == [state |-> "free", site |-> None, by |-> None]

\* site is what findOne saw: None when there was no record.
ResolveRequest ==
    [pc: {"idle", "delete", "clear"}, id: Alarms \cup {None}, site: Sites \cup {None}]

NoResolve == [pc |-> "idle", id |-> None, site |-> None]

IncidentsTypeOK ==
    /\ incident \in [Alarms -> Incident]
    /\ record \in [Alarms -> Record]
    /\ resolve \in [Resolvers -> ResolveRequest]
    /\ orphaned \subseteq Sites

IncidentsInit ==
    /\ incident = [a \in Alarms |-> NoIncident]
    /\ record = [a \in Alarms |-> NoRecord]
    /\ resolve = [r \in Resolvers |-> NoResolve]
    /\ orphaned = {}

\* The worker: an incident that has occurred, and the record to resolve.
RaiseAlarm(a, s, type) ==
    /\ incident[a].state = "free"
    /\ incident' = [incident EXCEPT ![a] =
          [state |-> "there", site |-> s, type |-> type, isOccured |-> 1]]
    /\ record' = [record EXCEPT ![a] = [state |-> "there", site |-> s, by |-> None]]
    /\ UNCHANGED <<resolve, orphaned>>

\* Records stay when the incidents of their website are deleted.
deleteIncident(s) ==
    /\ incident' = [a \in Alarms |->
          IF incident[a].state = "there" /\ incident[a].site = s
          THEN [NoIncident EXCEPT !.state = "gone"] ELSE incident[a]]
    /\ UNCHANGED <<record, resolve, orphaned>>

deleteResolve(r, a) ==
    /\ resolve[r].pc = "idle"
    /\ resolve' = [resolve EXCEPT ![r] =
          [pc |-> "delete", id |-> a,
           site |-> IF record[a].state = "there" THEN record[a].site ELSE None]]
    /\ UNCHANGED <<incident, record, orphaned>>

\* Mutant: the record counts as removed when it was found before.
WasFound(r) == resolve[r].site # None

\* data.affected > 0
Affected(r) == record[resolve[r].id].state = "there"

\* Without an affected row the request ends with BadRequest; with one that
\* findOne had not seen, resolveData.websiteId throws.
DeleteRecord(r) ==
    /\ resolve[r].pc = "delete"
    /\ record' = [record EXCEPT ![resolve[r].id] =
          IF record[resolve[r].id].state = "there"
          THEN [state |-> "gone", site |-> record[resolve[r].id].site, by |-> r]
          ELSE record[resolve[r].id]]
    /\ resolve' = [resolve EXCEPT ![r] =
          IF Affected(r) /\ resolve[r].site # None
          THEN [resolve[r] EXCEPT !.pc = "clear"] ELSE NoResolve]
    /\ orphaned' = orphaned \cup
          {s \in Sites : /\ resolve[r].site = None
                        /\ record[resolve[r].id].state = "there"
                        /\ record[resolve[r].id].site = s}
    /\ UNCHANGED incident

\* Mutant: the flags of all types but the load time's.
OtherTypes(s) ==
    {a \in Alarms : incident[a].state = "there" /\ incident[a].site = s /\
                    incident[a].type # "loadTime"}

\* UPDATE isOccured = 0 WHERE websiteId = ... AND type = 'loadTime'
LoadTimeOf(s) ==
    {a \in Alarms : incident[a].state = "there" /\ incident[a].site = s /\
                    incident[a].type = "loadTime"}

ClearFlags(r) ==
    /\ resolve[r].pc = "clear"
    /\ incident' = [a \in Alarms |->
          IF a \in LoadTimeOf(resolve[r].site)
          THEN [incident[a] EXCEPT !.isOccured = 0] ELSE incident[a]]
    /\ resolve' = [resolve EXCEPT ![r] = NoResolve]
    /\ UNCHANGED <<record, orphaned>>

\* A statement fails or the process dies: the flags stay up.
ResolveFails(r) ==
    /\ Faults
    /\ resolve[r].pc # "idle"
    /\ orphaned' = IF resolve[r].pc = "clear"
                   THEN orphaned \cup {resolve[r].site} ELSE orphaned
    /\ resolve' = [resolve EXCEPT ![r] = NoResolve]
    /\ UNCHANGED <<incident, record>>

IncidentsNext ==
    \/ \E a \in Alarms, s \in Sites, type \in {"loadTime", "responseCode"} :
          RaiseAlarm(a, s, type)
    \/ \E s \in Sites : deleteIncident(s)
    \/ \E r \in Resolvers :
          \/ \E a \in Alarms : deleteResolve(r, a)
          \/ DeleteRecord(r) \/ ClearFlags(r) \/ ResolveFails(r)

IncidentsSpec == IncidentsInit /\ [][IncidentsNext]_incidentVars

(***************************************************************************)
(* Properties.                                                             *)
(***************************************************************************)
\* A load time incident that is up can still be resolved: a record of its
\* website waits, or a handler is about to lower the flag.  The exception is
\* a handler that fails or dies after it removed the last record.
FlagsAnswered ==
    \A a \in Alarms :
       (/\ incident[a].state = "there"
        /\ incident[a].type = "loadTime" /\ incident[a].isOccured = 1) =>
          \/ \E b \in Alarms : record[b].state = "there" /\ record[b].site = incident[a].site
          \/ \E r \in Resolvers :
                resolve[r].pc = "clear" /\ resolve[r].site = incident[a].site
          \/ incident[a].site \in orphaned

\* A flag is lowered only by the one request that removed a record of the
\* flag's website: of two requests that found the same record, the second
\* lowers nothing.
LoweredByRemover ==
    [][\A a \in Alarms :
          (incident[a].isOccured = 1 /\ incident'[a].state = "there"
             /\ incident'[a].isOccured = 0) =>
             \E r \in Resolvers :
                /\ resolve[r].pc = "clear" /\ resolve'[r].pc = "idle"
                /\ record[resolve[r].id].by = r
                /\ record[resolve[r].id].site = incident[a].site]_incidentVars
=============================================================================
