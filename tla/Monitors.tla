------------------------------ MODULE Monitors ------------------------------
(***************************************************************************)
(* The registries beside the websites': domains, blacklist watches, SSL    *)
(* watches, workspaces and plans.  The five services keep one table each,  *)
(* with the same life cycle and different guards; an instance picks one of *)
(* them (kind).  Domains and blacklist watches also store what a lookup    *)
(* about their URL found, which a nightly job brings up to date; the job   *)
(* of the domains then judges how near each one is to its expiry.          *)
(*                                                                         *)
(* Refusals that write nothing (permission, unhealthy or ill-formed URL,   *)
(* unknown team member) are left out: a request enters the model at the    *)
(* first statement whose answer it later relies on.  Days are counted from *)
(* the epoch; 3 AM of day d is hour 24 * d + 3.                            *)
(***************************************************************************)
EXTENDS Platform, Integers, FiniteSets

CONSTANTS
    Owners,          \* bound: the users that register something
    MonitorIds,      \* the ids the table's sequence hands out, in this order
    Urls,            \* the URLs (for a workspace or a plan: the names) asked for
    ExpiryDays,      \* the days a registrar may report as a domain's expiry
    Bodies,          \* the bodies of requests about domains
    Updates,         \* bound: updateDomain handlers in flight at the same time
    MaxDay,          \* bound: days
    MaxCalls         \* bound: requests of clients

ASSUME MonitorsAssumption ==
    /\ Owners \subseteq Users
    /\ MonitorIds \subseteq Nat
    /\ None \notin Urls \cup Int
    /\ ExpiryDays \subseteq Nat
    /\ Bodies \subseteq [url: Urls \cup {None}, before: Nat \cup {None}]
    /\ MaxDay \in Nat /\ MaxCalls \in Nat

VARIABLES
    kind,            \* the table of this instance; never changes
    rows,            \* its rows
    update,          \* the updateDomain handlers in flight
    round,           \* the nightly job
    day,             \* today
    calls            \* requests started so far

monitorVars == <<kind, rows, update, round, day, calls>>

Kind == {"domain", "blacklist", "ssl", "workspace", "plan"}

AlertStatus == {"up", "alert", "down"}

Day == 0 .. MaxDay

(***************************************************************************)
(* A row is free until the sequence hands its id out, then visible, hidden *)
(* (deletedAt set: SELECT skips it, UPDATE and DELETE do not) and gone.    *)
(* about is the URL the stored lookup is about.  The last three fields are *)
(* history: the URL the stored expiry was looked up for, the day of the    *)
(* verdict in alert, and whether expireAt or before has changed since the  *)
(* values that verdict was computed from were read.                        *)
(***************************************************************************)
MonitorRow ==
    [state: {"free", "visible", "hidden", "gone"}, url: Urls \cup {None},
     owner: Users \cup {None}, status: Statuses, about: Urls \cup {None},
     expireAt: Nat \cup {None}, before: Nat \cup {None},
     alert: AlertStatus \cup {None},
     datedBy: Urls \cup {None}, judged: Nat \cup {None}, touched: BOOLEAN]

FreeMonitor ==
    [state |-> "free", url |-> None, owner |-> None, status |-> "Active",
     about |-> None, expireAt |-> None, before |-> None, alert |-> None,
     datedBy |-> None, judged |-> None, touched |-> FALSE]

\* read is the URL findOne saw; moved (history): somebody wrote it since.
UpdateRequest ==
    [pc: {"idle", "write"}, user: Users \cup {None},
     id: MonitorIds \cup {None}, url: Urls \cup {None},
     before: Nat \cup {None}, read: Urls \cup {None}, moved: BOOLEAN]

NoUpdate ==
    [pc |-> "idle", user |-> None, id |-> None, url |-> None,
     before |-> None, read |-> None, moved |-> FALSE]

\* What updateDomainAlert reads of a row.
Reading == [id: MonitorIds, expireAt: Nat \cup {None}, before: Nat \cup {None}]

\* todo: the URLs to look up; left: the readings to judge; ran: started today.
Round ==
    [pc: {"idle", "lookup", "judge"}, ran: BOOLEAN, todo: SUBSET Urls,
     left: SUBSET Reading]

NoRound == [pc |-> "idle", ran |-> FALSE, todo |-> {}, left |-> {}]

MonitorsTypeOK ==
    /\ kind \in Kind
    /\ rows \in [MonitorIds -> MonitorRow]
    /\ \A i \in MonitorIds : rows[i].state \in {"visible", "hidden"} => rows[i].url # None
    /\ update \in [Updates -> UpdateRequest]
    /\ \A r \in Updates : update[r].pc = "write" =>
          update[r].id # None /\ (update[r].url # None \/ update[r].read # None)
    /\ round \in Round
    /\ day \in Day
    /\ calls \in 0 .. MaxCalls

MonitorsInit ==
    /\ kind \in Kind
    /\ rows = [i \in MonitorIds |-> FreeMonitor]
    /\ update = [r \in Updates |-> NoUpdate]
    /\ round = NoRound
    /\ day = 0
    /\ calls = 0

Listed(i) == rows[i].state = "visible"

Stored(i) == rows[i].state \in {"visible", "hidden"}

(***************************************************************************)
(* Statements.  What a request answers depends on the number of rows it    *)
(* reached; the answers write nothing and are left out.                    *)
(***************************************************************************)
Call(k) == kind = k /\ calls < MaxCalls /\ calls' = calls + 1

Insert(u, url, about, expireAt, before) ==
    /\ u \in Owners
    /\ \E i \in MonitorIds :
          /\ rows[i].state = "free"
          /\ \A j \in MonitorIds : rows[j].state = "free" => i <= j
          /\ rows' = [rows EXCEPT ![i] =
                [FreeMonitor EXCEPT
                    !.state = "visible", !.url = url, !.owner = u, !.about = about,
                    !.expireAt = expireAt, !.before = before,
                    !.datedBy = IF expireAt = None THEN None ELSE url]]
    /\ UNCHANGED <<kind, update, round, day>>

OwnedBy(u, ids) == {i \in ids : Stored(i) /\ rows[i].owner = u}

\* UPDATE by id (or uniqueId) and createdBy; a url of None is not written.
SetUrl(reached, url) ==
    /\ rows' = [i \in MonitorIds |->
          IF i \in reached /\ url # None THEN [rows[i] EXCEPT !.url = url] ELSE rows[i]]
    /\ UNCHANGED <<kind, update, round, day>>

\* UPDATE status, deletedAt, deletedBy, updatedBy WHERE id IN (ids).
SetStatus(ids, s) ==
    LET reached == {i \in ids : Stored(i)}
        state == IF s = "Deleted" THEN "hidden" ELSE "visible"
    IN /\ rows' = [i \in MonitorIds |->
             IF i \in reached THEN [rows[i] EXCEPT !.status = s, !.state = state]
                              ELSE rows[i]]
       /\ UNCHANGED <<kind, update, round, day>>

\* DELETE WHERE the row is one of reached
Remove(reached) ==
    /\ rows' = [i \in MonitorIds |->
          IF i \in reached THEN [FreeMonitor EXCEPT !.state = "gone"] ELSE rows[i]]
    /\ UNCHANGED <<kind, update, round, day>>

IdList == SUBSET MonitorIds \ {{}}

(***************************************************************************)
(* SSLService.  A watch stores no lookup: its certificates are measured by *)
(* the worker.                                                             *)
(***************************************************************************)
createSSL(u, url) == Call("ssl") /\ Insert(u, url, None, None, None)

\* Without a URL the health check fails, so a URL is always given.
updateSSL(u, i, url) == Call("ssl") /\ SetUrl(OwnedBy(u, {i}), url)

sslStatusChange(ids, s) == Call("ssl") /\ SetStatus(ids, s)

softDeleteSSL(ids) == Call("ssl") /\ SetStatus(ids, "Deleted")

deleteSSL(u, i) ==
    Call("ssl") /\ Remove(OwnedBy(u, {i}))

SSLNext ==
    \/ \E u \in Users, i \in MonitorIds, url \in Urls :
          createSSL(u, url) \/ updateSSL(u, i, url) \/ deleteSSL(u, i)
    \/ \E ids \in IdList : softDeleteSSL(ids) \/ \E s \in Statuses : sslStatusChange(ids, s)

(***************************************************************************)
(* WorkspaceService and the plans of the admin.  Their updates ask for no  *)
(* owner.  (userId, which both workspace writes set to the caller's        *)
(* family, and the plan's prices are data.)                                *)
(***************************************************************************)
createWorkspace(u, name) == Call("workspace") /\ Insert(u, name, None, None, None)

updateWorkspace(i, name) ==
    Call("workspace") /\ SetUrl({j \in {i} : Stored(j)}, name)

softDeleteWorkspace(ids) == Call("workspace") /\ SetStatus(ids, "Deleted")

deleteWorkspace(u, i) ==
    Call("workspace") /\ Remove(OwnedBy(u, {i}))

createPlan(u, name) == Call("plan") /\ Insert(u, name, None, None, None)

updatePlan(i, name) == Call("plan") /\ SetUrl({j \in {i} : Stored(j)}, name)

softDeletePlan(ids) == Call("plan") /\ SetStatus(ids, "Deleted")

\* (It answers success for more than one row only, so never.)
deletePlan(u, i) ==
    Call("plan") /\ Remove(OwnedBy(u, {i}))

WorkspaceOrPlanNext ==
    \/ \E u \in Users, name \in Urls : createWorkspace(u, name) \/ createPlan(u, name)
    \/ \E i \in MonitorIds, name \in Urls : updateWorkspace(i, name) \/ updatePlan(i, name)
    \/ \E ids \in IdList : softDeleteWorkspace(ids) \/ softDeletePlan(ids)
    \/ \E u \in Users, i \in MonitorIds : deleteWorkspace(u, i) \/ deletePlan(u, i)

(***************************************************************************)
(* BlacklistService: checkBlacklists catches every failure, so a watch is  *)
(* never refused for its lookup.  An update does not look anything up.     *)
(***************************************************************************)
createBlacklist(u, url) == Call("blacklist") /\ Insert(u, url, url, None, None)

updateBlacklist(u, i, url) == Call("blacklist") /\ SetUrl(OwnedBy(u, {i}), url)

blacklistStatusChange(ids, s) == Call("blacklist") /\ SetStatus(ids, s)

softDeleteBlacklist(ids) == Call("blacklist") /\ SetStatus(ids, "Deleted")

deleteBlacklist(u, i) ==
    Call("blacklist") /\ Remove(OwnedBy(u, {i}))

BlacklistNext ==
    \/ \E u \in Users, i \in MonitorIds, url \in Urls : createBlacklist(u, url)
    \/ \E u \in Users, i \in MonitorIds, url \in Urls \cup {None} : updateBlacklist(u, i, url)
    \/ \E u \in Users, i \in MonitorIds : deleteBlacklist(u, i)
    \/ \E ids \in IdList :
          softDeleteBlacklist(ids) \/ \E s \in Statuses : blacklistStatusChange(ids, s)

(***************************************************************************)
(* DomainService.  A domain is saved with its first lookup (a failing      *)
(* whois refuses the request).  updateDomain reads the row, of any owner,  *)
(* and writes by id and createdBy; without a URL in the body it writes     *)
(* back the URL it read.                                                   *)
(***************************************************************************)
\* The expiry a whois lookup finds; undefined when the answer names none.
domainInfo == ExpiryDays \cup {None}

createDomain(u, body, e) ==
    /\ Call("domain")
    /\ body.url # None
    /\ Insert(u, body.url, body.url, e, body.before)

\* Mutant: findOne without its where clause.
FoundAny(i) ==
    IF \E j \in MonitorIds : Listed(j)
    THEN rows[CHOOSE j \in MonitorIds : Listed(j)].url ELSE None

\* domainCollect.domainUrl
Found(i) == IF Listed(i) THEN rows[i].url ELSE None

\* Without a row and a URL the property access throws: nothing to model.
updateDomain(r, u, i, body) ==
    /\ Call("domain")
    /\ update[r].pc = "idle"
    /\ body.url # None \/ Found(i) # None
    /\ update' = [update EXCEPT ![r] =
          [pc |-> "write", user |-> u, id |-> i, url |-> body.url,
           before |-> body.before, read |-> Found(i), moved |-> FALSE]]
    /\ UNCHANGED <<kind, rows, round, day>>

\* Mutant: the URL is taken from the body as it is.
UrlAsked(q) == q.url

UrlToWrite(q) == IF q.url # None THEN q.url ELSE q.read

\* An update of 0 rows throws after the statement, at raw[0].
WriteDomain(r) ==
    LET q == update[r]
        reached == OwnedBy(q.user, {q.id})
    IN /\ q.pc = "write"
       /\ rows' = [i \in MonitorIds |->
             IF i \in reached
             THEN [rows[i] EXCEPT
                      !.url = UrlToWrite(q),
                      !.before = IF q.before = None THEN rows[i].before ELSE q.before,
                      !.touched = rows[i].touched \/ q.before \notin {None, rows[i].before}]
             ELSE rows[i]]
       /\ update' = [x \in Updates |->
             IF x = r THEN NoUpdate
             ELSE IF update[x].id \in reached THEN [update[x] EXCEPT !.moved = TRUE]
             ELSE update[x]]
       /\ UNCHANGED <<kind, round, day, calls>>

domainStatusChange(ids, s) == Call("domain") /\ SetStatus(ids, s)

softDeleteDomain(ids) == Call("domain") /\ SetStatus(ids, "Deleted")

deleteDomain(u, i) ==
    Call("domain") /\ Remove(OwnedBy(u, {i}))

DomainNext ==
    \/ \E u \in Users, body \in Bodies, e \in domainInfo : createDomain(u, body, e)
    \/ \E r \in Updates, u \in Users, i \in MonitorIds, body \in Bodies :
          updateDomain(r, u, i, body)
    \/ \E r \in Updates : WriteDomain(r)
    \/ \E u \in Users, i \in MonitorIds : deleteDomain(u, i)
    \/ \E ids \in IdList :
          softDeleteDomain(ids) \/ \E s \in Statuses : domainStatusChange(ids, s)

(***************************************************************************)
(* The nightly jobs, once a day (3 AM for the domains, 1 AM for the        *)
(* blacklist watches); a round ends before the next one is due.  A lookup  *)
(* reads nothing from the database, so it and the UPDATE after it are one  *)
(* step.  A lookup by URL reaches every row with that URL, hidden or not.  *)
(***************************************************************************)
Watched == {i \in MonitorIds : Listed(i) /\ rows[i].status = "Active"}

\* SELECT DISTINCT url ... WHERE status = 'Active'
DistinctUrls == {rows[i].url : i \in Watched}

StartRound ==
    /\ round.pc = "idle" /\ ~round.ran
    /\ round' = [pc |-> "lookup", ran |-> TRUE, todo |-> DistinctUrls, left |-> {}]
    /\ UNCHANGED <<kind, rows, update, day, calls>>

automatedDomainDetailsFetch == kind = "domain" /\ StartRound

\* Mutant: the loop asks again for the URLs instead of walking the list.
AskAgain(url) == DistinctUrls

\* for (const item of uniqueDomains)
Remaining(url) == round.todo \ {url}

\* Mutant: rows are matched by the lookup they hold, not by their URL.
SameLookup(url) == {i \in MonitorIds : Stored(i) /\ rows[i].about = url}

\* WHERE url = '...'
SameUrl(url) == {i \in MonitorIds : Stored(i) /\ rows[i].url = url}

StoreLookup(url, e) ==
    /\ url \in round.todo
    /\ rows' = [i \in MonitorIds |->
          IF i \in SameUrl(url)
          THEN [rows[i] EXCEPT
                   !.about = url,
                   !.expireAt = IF e = None THEN rows[i].expireAt ELSE e,
                   !.datedBy = IF e = None THEN rows[i].datedBy ELSE url,
                   !.touched = rows[i].touched \/ e \notin {None, rows[i].expireAt}]
          ELSE rows[i]]
    /\ round' = [round EXCEPT !.todo = Remaining(url)]
    /\ UNCHANGED <<kind, update, day, calls>>

\* An expiry the registrar does not report is undefined and not written.
updateDomainDetails(url, e) ==
    /\ kind = "domain" /\ round.pc = "lookup"
    /\ StoreLookup(url, e)

\* SELECT id, alertBeforeExpiration, expireAt ... WHERE status = 'Active'
ReadExpiries ==
    /\ kind = "domain" /\ round.pc = "lookup" /\ round.todo = {}
    /\ round' = [round EXCEPT
          !.pc = "judge",
          !.left = {[id |-> i, expireAt |-> rows[i].expireAt, before |-> rows[i].before] :
                       i \in Watched}]
    /\ UNCHANGED <<kind, rows, update, day, calls>>

\* A NULL date is the epoch; a NULL threshold compares as 0.
OrZero(d) == IF d = None THEN 0 ELSE d

\* Mutant: days left rounded up.
DaysLeftUp(e) == OrZero(e) - day

\* Math.floor of midnight of the expiry day minus 3 AM today, in days
DaysLeft(e) == (24 * OrZero(e) - (24 * day + 3)) \div 24

Verdict(item) ==
    LET diffInDays == DaysLeft(item.expireAt)
        before == OrZero(item.before)
    IN CASE diffInDays > before                    -> "up"
         [] diffInDays < before /\ diffInDays > 0  -> "alert"
         [] OTHER                                  -> "down"

\* Mutant: the verdict is written to every row with the expiry read.
SameExpiry(item) == {i \in MonitorIds : Stored(i) /\ rows[i].expireAt = item.expireAt}

\* WHERE id = '...'
Judged(item) == {i \in {item.id} : Stored(i)}

updateDomainAlert(item) ==
    /\ round.pc = "judge"
    /\ item \in round.left
    /\ rows' = [i \in MonitorIds |->
          IF i \in Judged(item)
          THEN [rows[i] EXCEPT
                   !.alert = Verdict(item), !.judged = day,
                   !.touched = \/ rows[item.id].expireAt # item.expireAt
                               \/ rows[item.id].before # item.before]
          ELSE rows[i]]
    /\ round' = [round EXCEPT !.left = round.left \ {item}]
    /\ UNCHANGED <<kind, update, day, calls>>

\* @Cron of BlacklistService: the same loop, without dates and verdicts.
BlacklistRound ==
    /\ kind = "blacklist"
    /\ \/ StartRound
       \/ round.pc = "lookup" /\ \E url \in Urls : StoreLookup(url, None)

EndRound ==
    /\ \/ round.pc = "judge" /\ round.left = {}
       \/ kind = "blacklist" /\ round.pc = "lookup" /\ round.todo = {}
    /\ round' = [NoRound EXCEPT !.ran = TRUE]
    /\ UNCHANGED <<kind, rows, update, day, calls>>

(***************************************************************************)
(* A whois lookup or a statement of the job throws: the rest of the round  *)
(* is skipped.  A dying process takes the requests in flight along.        *)
(***************************************************************************)
AbortRound ==
    /\ Faults
    /\ round.pc # "idle"
    /\ round' = [NoRound EXCEPT !.ran = TRUE]
    /\ UNCHANGED <<kind, rows, update, day, calls>>

MonitorsCrash ==
    /\ Faults
    /\ \E r \in Updates : update[r].pc # "idle"
    /\ update' = [r \in Updates |-> NoUpdate]
    /\ round' = [NoRound EXCEPT !.ran = round.ran]
    /\ UNCHANGED <<kind, rows, day, calls>>

NextDay ==
    /\ round.pc = "idle" /\ day < MaxDay
    /\ day' = day + 1
    /\ round' = NoRound
    /\ UNCHANGED <<kind, rows, update, calls>>

\* What the event loop owes a round that has started.
RoundStep ==
    \/ /\ round.pc = "lookup"
       /\ \/ \E url \in Urls, e \in domainInfo : updateDomainDetails(url, e)
          \/ BlacklistRound
    \/ ReadExpiries
    \/ \E item \in round.left : updateDomainAlert(item)
    \/ EndRound

MonitorsNext ==
    \/ SSLNext \/ WorkspaceOrPlanNext \/ BlacklistNext \/ DomainNext
    \/ automatedDomainDetailsFetch \/ BlacklistRound
    \/ RoundStep
    \/ AbortRound \/ MonitorsCrash \/ NextDay

\* The lookups answer or give up, and the database answers.
MonitorsFairness == WF_monitorVars(RoundStep)

MonitorsSpec == MonitorsInit /\ [][MonitorsNext]_monitorVars /\ MonitorsFairness

(***************************************************************************)
(* Properties.                                                             *)
(***************************************************************************)
\* A lookup, or an expiry date, is only ever stored with a row that watches
\* the URL it is about: the jobs write by URL after their awaits, and a row
\* moved to another URL in between is not reached.
LookupsFollowUrls ==
    [][\A i \in MonitorIds :
          /\ rows'[i].about # rows[i].about => rows'[i].about \in {None, rows'[i].url}
          /\ rows'[i].datedBy # rows[i].datedBy => rows'[i].datedBy \in {None, rows'[i].url}]_monitorVars

\* A domain's URL changes only to what a request of its owner asked for, or
\* to what that request had read when another one moved the domain in between
\* (updateDomain writes the URL it read back).
MovesAsAsked ==
    [][\A i \in MonitorIds :
          (kind = "domain" /\ Stored(i) /\ Stored(i)' /\ rows'[i].url # rows[i].url) =>
             \E r \in Updates :
                /\ update[r].pc = "write" /\ update'[r].pc = "idle"
                /\ update[r].id = i /\ update[r].user = rows[i].owner
                /\ update[r].url = rows'[i].url \/ update[r].moved]_monitorVars

\* What a domain's alert status should be on day d: up while more than before
\* full days lie between today and the day it expires, alert while fewer but
\* at least one does, and down otherwise - with exactly before days left too.
VerdictOn(d, expireAt, before) ==
    IF OrZero(expireAt) > d + OrZero(before) + 1 THEN "up"
    ELSE IF OrZero(expireAt) \in d + 2 .. d + OrZero(before) THEN "alert"
    ELSE "down"

\* However the 3 AM job interleaves with edits, other rounds and crashes, the
\* alert status of a domain is the verdict of the last round that reached it
\* on the domain's own date and threshold, unless these changed after the
\* round read them.
VerdictsHold ==
    \A i \in MonitorIds :
       (Stored(i) /\ rows[i].judged # None /\ ~rows[i].touched) =>
          rows[i].alert = VerdictOn(rows[i].judged, rows[i].expireAt, rows[i].before)

\* Every round of a nightly job comes to an end, whatever clients do to the
\* rows meanwhile.
RoundEnds == round.pc # "idle" ~> round.pc = "idle"
=============================================================================
