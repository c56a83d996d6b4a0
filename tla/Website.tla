------------------------------- MODULE Website -------------------------------
(***************************************************************************)
(* The website registry of a subscriber: rows of "website" and the alert   *)
(* rules ("websiteAlert") that hang off them, as WebsiteService writes     *)
(* them.  No handler runs in a database transaction, so a request is a     *)
(* little process: each of its database statements is one atomic step, and *)
(* at every await any other request may run.                               *)
(*                                                                         *)
(* A request's refusals (permission, URL health, URL syntax) read the      *)
(* database and write nothing, so a request enters the model at its first  *)
(* statement whose answer it later relies on.                              *)
(***************************************************************************)
EXTENDS Naturals, FiniteSets

CONSTANTS
    Users,           \* ids of the subscribers and team members that call
    Urls,            \* the URLs they ask to have watched
    WebsiteIds,      \* the values the website id sequence may hand out
    MaxAlerts,       \* bound: alert rows ever inserted
    Requests,        \* bound: handlers in flight at the same time
    None,            \* "undefined" or NULL
    Ops,             \* the operations clients call in this instance
    Faults,          \* TRUE: statements may fail, the process may die
    PartialUpdates   \* TRUE: an update may leave out loadTime or occurrences

ASSUME WebsiteAssumption ==
    /\ MaxAlerts \in Nat
    /\ Faults \in BOOLEAN
    /\ PartialUpdates \in BOOLEAN
    /\ None \notin Users \cup Urls \cup WebsiteIds \cup Nat
    /\ None \notin {"loadTime", "responseCode", "searchStringMissing"}

VARIABLES
    website,         \* the website table
    alerts,          \* the websiteAlert table
    lastAlert,       \* the id sequence of websiteAlert
    req              \* the handlers in flight

vars == <<website, alerts, lastAlert, req>>

\* Every status other than these goes through the branch of Inactive.
StatusField == {"Active", "Inactive", "Deleted"}

AlertType == {"loadTime", "responseCode", "searchStringMissing"}

(***************************************************************************)
(* A website id is free until the sequence hands it out; its row is then   *)
(* visible, hidden (deletedAt set: find and select skip it, UPDATE and     *)
(* DELETE do not), and gone after a hard delete.  unchecked is history: it *)
(* tells that the row took its URL, or came back with it, although a row   *)
(* with that URL may have appeared after the last look.                    *)
(***************************************************************************)
WebsiteRow ==
    [state: {"free", "visible", "hidden", "gone"}, url: Urls \cup {None},
     owner: Users \cup {None}, status: StatusField, unchecked: BOOLEAN]

FreeRow ==
    [state |-> "free", url |-> None, owner |-> None, status |-> "Active",
     unchecked |-> FALSE]

\* type is nullable; unchecked is history, as for websites.
AlertRow ==
    [id: Nat, website: WebsiteIds, type: AlertType \cup {None},
     unchecked: BOOLEAN]

(***************************************************************************)
(* A handler in flight.  pc is its next statement; found tells whether     *)
(* updateWebsite's findOne saw the row; limits whether the body carried    *)
(* loadTime and occurrences.  stale is history: since its last look at the *)
(* table, a row that look was for has been written by somebody else.       *)
(***************************************************************************)
Request ==
    [pc: {"idle", "check", "write", "wipe", "loadTime", "responseCode",
          "searchString", "saveAlert", "writeAlert"},
     user: Users \cup {None}, url: Urls \cup {None},
     website: WebsiteIds \cup {None}, found: BOOLEAN, limits: BOOLEAN,
     type: AlertType \cup {None}, alert: Nat \cup {None}, stale: BOOLEAN]

Idle ==
    [pc |-> "idle", user |-> None, url |-> None, website |-> None,
     found |-> FALSE, limits |-> TRUE, type |-> None, alert |-> None,
     stale |-> FALSE]

TypeOK ==
    /\ website \in [WebsiteIds -> WebsiteRow]
    /\ alerts \subseteq AlertRow
    /\ lastAlert \in Nat
    /\ req \in [Requests -> Request]
    /\ \A r \in Requests :
          /\ req[r].pc \notin {"idle", "write"} => req[r].website # None
          /\ req[r].pc # "writeAlert" => req[r].alert = None

Visible(w) == website[w].state = "visible"

\* Mutant: a statement by id that would also reach a row deleted for good.
HasHadRow(w) == website[w].state # "free"

HasRow(w) == website[w].state \in {"visible", "hidden"}

InFlight == {r \in Requests : req[r].pc # "idle"}

\* Bounds: a request starts only while its rows fit, so none gets stuck.
RoomForAlerts == lastAlert + 3 * (Cardinality(InFlight) + 1) <= MaxAlerts

RoomForWebsite ==
    Cardinality(InFlight) < Cardinality({w \in WebsiteIds : website[w].state = "free"})

(***************************************************************************)
(* History.  Requests that looked for url before writing it, and requests  *)
(* that count on there being no rule of some type for their website.       *)
(***************************************************************************)
UrlSeen(q, ws, table) ==
    IF q.pc = "write" /\ \E w \in ws : /\ table[w].state = "visible"
                                       /\ table[w].url = q.url
                                       /\ w # q.website
    THEN [q EXCEPT !.stale = TRUE]
    ELSE q

Intends(q) ==
    CASE q.pc = "loadTime"                      -> AlertType
      [] q.pc = "responseCode"                  -> AlertType \ {"loadTime"}
      [] q.pc = "searchString"                  -> {"searchStringMissing"}
      [] q.pc \in {"saveAlert", "writeAlert"}   -> {q.type}
      [] OTHER                                  -> {}

AlertSeen(q, row) ==
    IF q.website = row.website /\ row.type \in Intends(q) /\ row.id # q.alert
    THEN [q EXCEPT !.stale = TRUE]
    ELSE q

(***************************************************************************)
(* createWebsite: the duplicate check, the insert, then the rules.         *)
(***************************************************************************)
\* Mutant: only rows with status Active count as taken.
UrlTakenActive(url, self) ==
    \E w \in WebsiteIds \ {self} :
        Visible(w) /\ website[w].status = "Active" /\ website[w].url = url

\* getCount() over every user's rows; soft-deleted ones are not counted.
UrlTaken(url, self) ==
    \E w \in WebsiteIds \ {self} : Visible(w) /\ website[w].url = url

CheckCreate(r, u, url) ==
    /\ "create" \in Ops
    /\ RoomForAlerts /\ RoomForWebsite
    /\ req[r].pc = "idle"
    /\ ~UrlTaken(url, None)
    /\ req' = [req EXCEPT ![r] = [Idle EXCEPT !.pc = "write", !.user = u, !.url = url]]
    /\ UNCHANGED <<website, alerts, lastAlert>>

InsertWebsite(r) ==
    /\ req[r].pc = "write" /\ req[r].website = None
    /\ \E w \in WebsiteIds :
         /\ website[w].state = "free"
         /\ website' = [website EXCEPT ![w] =
                [state |-> "visible", url |-> req[r].url, owner |-> req[r].user,
                 status |-> "Active", unchecked |-> req[r].stale]]
         /\ req' = [q \in Requests |->
                IF q = r
                THEN [req[r] EXCEPT !.pc = "loadTime", !.website = w, !.stale = FALSE]
                ELSE UrlSeen(req[q], {w}, website')]
    /\ UNCHANGED <<alerts, lastAlert>>

(***************************************************************************)
(* Inserts one rule of type t for r's website, and sends r on to next.     *)
(***************************************************************************)
InsertAlert(r, t, next) ==
    LET row == [id |-> lastAlert + 1, website |-> req[r].website, type |-> t,
                unchecked |-> req[r].stale]
    IN  /\ alerts' = alerts \cup {row}
        /\ lastAlert' = lastAlert + 1
        /\ req' = [q \in Requests |->
               IF q = r
               THEN IF next = "idle" THEN Idle ELSE [req[r] EXCEPT !.pc = next]
               ELSE AlertSeen(req[q], row)]
        /\ UNCHANGED website

\* Mutant: the handler answers after the first rule.
SaveLoadTimeOnly(r) ==
    /\ req[r].pc = "loadTime"
    /\ req[r].limits
    /\ InsertAlert(r, "loadTime", "idle")

\* Without loadTime or occurrences a NOT NULL column rejects the row.
SaveLoadTime(r) ==
    /\ req[r].pc = "loadTime"
    /\ req[r].limits
    /\ InsertAlert(r, "loadTime", "responseCode")

RejectLoadTime(r) ==
    /\ req[r].pc = "loadTime"
    /\ ~req[r].limits
    /\ req' = [req EXCEPT ![r] = Idle]
    /\ UNCHANGED <<website, alerts, lastAlert>>

\* The third rule is saved only for a body with a search string to miss.
SaveResponseCode(r) ==
    /\ req[r].pc = "responseCode"
    /\ \E next \in {"searchString", "idle"} : InsertAlert(r, "responseCode", next)

SaveSearchString(r) ==
    /\ req[r].pc = "searchString"
    /\ InsertAlert(r, "searchStringMissing", "idle")

(***************************************************************************)
(* updateWebsite: find, check, write, wipe the rules, save them again.     *)
(***************************************************************************)
FindForUpdate(r, u, w, url, limits) ==
    /\ "update" \in Ops
    /\ RoomForAlerts
    /\ req[r].pc = "idle"
    /\ website[w].state # "free"
    /\ req' = [req EXCEPT ![r] = [Idle EXCEPT
            !.pc = "check", !.user = u, !.url = url, !.website = w,
            !.found = Visible(w), !.limits = limits]]
    /\ UNCHANGED <<website, alerts, lastAlert>>

CheckUpdate(r) ==
    /\ req[r].pc = "check"
    /\ ~UrlTaken(req[r].url, req[r].website)
    /\ req' = [req EXCEPT ![r].pc = "write"]
    /\ UNCHANGED <<website, alerts, lastAlert>>

(***************************************************************************)
(* The URL is taken or unhealthy; or the row was not found and the body    *)
(* leaves out a field that is then read from null.                         *)
(***************************************************************************)
RefuseUpdate(r) ==
    /\ req[r].pc = "check"
    /\ req' = [req EXCEPT ![r] = Idle]
    /\ UNCHANGED <<website, alerts, lastAlert>>

\* Mutant: the WHERE forgets createdBy.
MatchesAnyOwner(r) == HasRow(req[r].website)

\* The WHERE names the owner, not deletedAt; no matching row is no error.
Matches(r) == HasRow(req[r].website) /\ website[req[r].website].owner = req[r].user

UpdateRow(r) ==
    /\ req[r].pc = "write" /\ req[r].website # None
    /\ website' = IF Matches(r)
                  THEN [website EXCEPT ![req[r].website] =
                           [@ EXCEPT !.url = req[r].url, !.unchecked = req[r].stale]]
                  ELSE website
    /\ req' = [q \in Requests |->
           IF q = r
           THEN IF req[r].found THEN [req[r] EXCEPT !.pc = "wipe"] ELSE Idle
           ELSE IF Matches(r)
                THEN UrlSeen(req[q], {req[r].website}, website')
                ELSE req[q]]
    /\ UNCHANGED <<alerts, lastAlert>>

\* Mutants: the handler stops after the wipe; the wipe leaves the third rule;
\* the wipe clears websiteId instead of deleting the row.
WipeAlertsAndStop(r) ==
    /\ req[r].pc = "wipe"
    /\ alerts' = {a \in alerts : a.website # req[r].website}
    /\ req' = [req EXCEPT ![r] = Idle]
    /\ UNCHANGED <<website, lastAlert>>

WipeTwoTypes(r) ==
    /\ req[r].pc = "wipe"
    /\ alerts' = {a \in alerts : a.website # req[r].website \/ a.type = "searchStringMissing"}
    /\ req' = [req EXCEPT ![r].pc = "loadTime", ![r].stale = FALSE]
    /\ UNCHANGED <<website, lastAlert>>

WipeByOrphaning(r) ==
    /\ req[r].pc = "wipe"
    /\ alerts' = {[a EXCEPT !.website = IF @ = req[r].website THEN None ELSE @] : a \in alerts}
    /\ req' = [req EXCEPT ![r].pc = "loadTime", ![r].stale = FALSE]
    /\ UNCHANGED <<website, lastAlert>>

\* By website id alone, whoever the caller is and however many rows matched.
WipeAlerts(r) ==
    /\ req[r].pc = "wipe"
    /\ alerts' = {a \in alerts : a.website # req[r].website}
    /\ req' = [req EXCEPT ![r].pc = "loadTime", ![r].stale = FALSE]
    /\ UNCHANGED <<website, lastAlert>>

(***************************************************************************)
(* Single statements: status change, soft delete, hard delete.  The first  *)
(* two go by id alone.  A row that comes back was not checked.             *)
(***************************************************************************)
\* Mutant: deletedAt is cleared only for Active.
StateAfterActive(status) == IF status = "Active" THEN "visible" ELSE "hidden"

StateAfter(status) == IF status = "Deleted" THEN "hidden" ELSE "visible"

SetStatus(ws, status) ==
    LET state == StateAfter(status)
        hit   == {w \in ws : HasRow(w)}
    IN  /\ website' = [w \in WebsiteIds |->
              IF w \in hit
              THEN [website[w] EXCEPT
                       !.state = state, !.status = status,
                       !.unchecked = @ \/ (website[w].state = "hidden" /\ state = "visible")]
              ELSE website[w]]
        /\ req' = [q \in Requests |->
               UrlSeen(req[q], {w \in hit : ~Visible(w)}, website')]
        /\ UNCHANGED <<alerts, lastAlert>>

WebsiteStatusChange(ws, status) ==
    /\ "status" \in Ops
    /\ \E w \in ws : HasRow(w)
    /\ SetStatus(ws, status)

SoftDeleteWebsite(ws) ==
    /\ "softDelete" \in Ops
    /\ \E w \in ws : HasRow(w)
    /\ SetStatus(ws, "Deleted")

\* The rules of the website stay behind.
DeleteWebsite(u, w) ==
    /\ "delete" \in Ops
    /\ HasRow(w) /\ website[w].owner = u
    /\ website' = [website EXCEPT ![w] = [FreeRow EXCEPT !.state = "gone"]]
    /\ UNCHANGED <<alerts, lastAlert, req>>

(***************************************************************************)
(* createWebsiteAlert, updateSingleAlert, deleteWebsiteALert.  Clients use *)
(* website ids they have been given.  A missing type matches every type.   *)
(***************************************************************************)
RuleTaken(w, t, self) ==
    \E a \in alerts : a.website = w /\ t \in {None, a.type} /\ a.id # self

CheckCreateAlert(r, w, t) ==
    /\ "createAlert" \in Ops
    /\ RoomForAlerts
    /\ req[r].pc = "idle"
    /\ website[w].state # "free"
    /\ ~RuleTaken(w, t, None)
    /\ req' = [req EXCEPT ![r] = [Idle EXCEPT !.pc = "saveAlert", !.website = w, !.type = t]]
    /\ UNCHANGED <<website, alerts, lastAlert>>

SaveAlert(r) ==
    /\ req[r].pc = "saveAlert"
    /\ InsertAlert(r, req[r].type, "idle")

CheckUpdateAlert(r, a, w, t) ==
    /\ "updateAlert" \in Ops
    /\ req[r].pc = "idle"
    /\ website[w].state # "free"
    /\ ~RuleTaken(w, t, a)
    /\ req' = [req EXCEPT ![r] =
           [Idle EXCEPT !.pc = "writeAlert", !.website = w, !.type = t, !.alert = a]]
    /\ UNCHANGED <<website, alerts, lastAlert>>

WriteAlert(r) ==
    LET hit(a) == a.id = req[r].alert /\ a.website = req[r].website
        new(a) == [a EXCEPT !.type = req[r].type, !.unchecked = req[r].stale]
    IN  /\ req[r].pc = "writeAlert"
        /\ alerts' = {a \in alerts : ~hit(a)} \cup {new(a) : a \in {b \in alerts : hit(b)}}
        /\ req' = [q \in Requests |->
               IF q = r THEN Idle
               ELSE IF \E a \in alerts : hit(a) /\ AlertSeen(req[q], new(a)) # req[q]
                    THEN [req[q] EXCEPT !.stale = TRUE]
                    ELSE req[q]]
        /\ UNCHANGED <<website, lastAlert>>

DeleteAlert(a) ==
    /\ "deleteAlert" \in Ops
    /\ a \in alerts
    /\ alerts' = alerts \ {a}
    /\ UNCHANGED <<website, lastAlert, req>>

(***************************************************************************)
(* A statement is rejected and the handler throws; or the process dies and *)
(* takes every handler with it.  What was written stays written.           *)
(***************************************************************************)
Fail(r) ==
    /\ Faults
    /\ req[r].pc # "idle"
    /\ req' = [req EXCEPT ![r] = Idle]
    /\ UNCHANGED <<website, alerts, lastAlert>>

Crash ==
    /\ Faults
    /\ InFlight # {}
    /\ req' = [r \in Requests |-> Idle]
    /\ UNCHANGED <<website, alerts, lastAlert>>

(***************************************************************************)
(* Listings, counts and charts write nothing; taken only at rest, so that  *)
(* a handler in flight without a next step still shows as a deadlock.      *)
(***************************************************************************)
ReadOnly == InFlight = {} /\ UNCHANGED vars

Init ==
    /\ website = [w \in WebsiteIds |-> FreeRow]
    /\ alerts = {}
    /\ lastAlert = 0
    /\ req = [r \in Requests |-> Idle]

\* What a handler in flight does next, once the client has called it.
Step(r) ==
    \/ InsertWebsite(r)
    \/ SaveLoadTime(r)
    \/ RejectLoadTime(r)
    \/ SaveResponseCode(r)
    \/ SaveSearchString(r)
    \/ CheckUpdate(r)
    \/ RefuseUpdate(r)
    \/ UpdateRow(r)
    \/ WipeAlerts(r)
    \/ SaveAlert(r)
    \/ WriteAlert(r)

Next ==
    \/ \E r \in Requests : Step(r) \/ Fail(r)
    \/ \E r \in Requests, u \in Users, url \in Urls : CheckCreate(r, u, url)
    \/ \E r \in Requests, u \in Users, w \in WebsiteIds, url \in Urls,
          limits \in IF PartialUpdates THEN BOOLEAN ELSE {TRUE} :
            FindForUpdate(r, u, w, url, limits)
    \/ \E r \in Requests, w \in WebsiteIds, t \in AlertType \cup {None} :
            CheckCreateAlert(r, w, t)
    \/ \E r \in Requests, a \in alerts, w \in WebsiteIds, t \in AlertType :
            CheckUpdateAlert(r, a.id, w, t)
    \/ \E ws \in SUBSET WebsiteIds, s \in StatusField : WebsiteStatusChange(ws, s)
    \/ \E ws \in SUBSET WebsiteIds : SoftDeleteWebsite(ws)
    \/ \E u \in Users, w \in WebsiteIds : DeleteWebsite(u, w)
    \/ \E a \in alerts : DeleteAlert(a)
    \/ Crash
    \/ ReadOnly

Spec == Init /\ [][Next]_vars

\* Node runs every promise continuation it can: a handler is not starved.
FairSpec == Spec /\ \A r \in Requests : WF_vars(Step(r))

-----------------------------------------------------------------------------
(***************************************************************************)
(* Properties.                                                             *)
(***************************************************************************)
\* Soft delete is two columns, and three handlers write one or both: a row is
\* hidden from every listing exactly when its status reads Deleted.
HiddenIffDeleted ==
    \A w \in WebsiteIds :
        HasRow(w) => (website[w].state = "hidden" <=> website[w].status = "Deleted")

\* No two visible websites have the same URL: what both duplicate checks are
\* for, since rules, charts and Influx queries find a website by its URL.
UniqueUrl ==
    \A v, w \in WebsiteIds :
        Visible(v) /\ Visible(w) /\ website[v].url = website[w].url => v = w

\* createWebsite and updateWebsite let two visible websites share a URL in no
\* other way than a write whose check had gone stale, or a restored row.
SharedUrlOnlyUnchecked ==
    \A v, w \in WebsiteIds :
        Visible(v) /\ Visible(w) /\ website[v].url = website[w].url /\ v # w =>
            website[v].unchecked \/ website[w].unchecked

\* A website has at most one rule of a type: what createWebsiteAlert and
\* updateSingleAlert look for before they write.
UniqueRule ==
    \A a, b \in alerts :
        a.website = b.website /\ a.type = b.type /\ a.type # None => a = b

\* The four handlers that write rules leave two of one type in no other way
\* than by writing after somebody else wrote one they had not seen.
SharedRuleOnlyUnchecked ==
    \A a, b \in alerts :
        a.website = b.website /\ a.type = b.type /\ a.type # None /\ a # b =>
            a.unchecked \/ b.unchecked

\* A handler that is not marked stale and is about to write its URL would
\* still find it free: nobody has taken it since the duplicate check.
UrlLookHolds ==
    \A r \in Requests : req[r].pc = "write" /\ ~req[r].stale =>
        \A w \in WebsiteIds :
            Visible(w) /\ website[w].url = req[r].url => w = req[r].website

\* A handler that is not marked stale would find no rule of a type it is still
\* to write, other than the row it is to change.
RuleLookHolds ==
    \A r \in Requests : ~req[r].stale =>
        \A a \in alerts :
            a.website = req[r].website /\ a.type # None /\ a.type \in Intends(req[r])
                => a.id = req[r].alert

\* Ids come from sequences: they name one row, and free ones none.
IdsFromSequence ==
    /\ \A a \in alerts : a.id <= lastAlert /\ website[a.website].state # "free"
    /\ \A a, b \in alerts : a.id = b.id => a = b
    /\ \A r \in Requests :
          req[r].website # None => website[req[r].website].state # "free"

\* The inductive invariants behind SharedUrlOnlyUnchecked and
\* SharedRuleOnlyUnchecked.
UrlInv == TypeOK /\ UrlLookHolds /\ SharedUrlOnlyUnchecked

RuleInv == TypeOK /\ IdsFromSequence /\ RuleLookHolds /\ SharedRuleOnlyUnchecked

HasRule(w, t) == \E a \in alerts : a.website = w /\ a.type = t

Pending(w, t) == \E r \in Requests : req[r].website = w /\ t \in Intends(req[r])

\* The rules a website is watched by are there, or a handler that wiped or has
\* not yet saved them is on its way to save them.
WatchedOrPending ==
    \A w \in WebsiteIds : HasRow(w) =>
        \A t \in {"loadTime", "responseCode"} : HasRule(w, t) \/ Pending(w, t)

\* Once no handler runs, every website that createWebsite and updateWebsite
\* have left behind has the two rules it is watched by.
WatchedAtRest ==
    InFlight = {} =>
        \A w \in WebsiteIds : HasRow(w) =>
            HasRule(w, "loadTime") /\ HasRule(w, "responseCode")

\* A website's URL changes only under updateWebsite of the one who created it.
OnlyOwnerMoves ==
    [][\A w \in WebsiteIds :
          HasRow(w) /\ HasRow(w)' /\ website'[w].url # website[w].url =>
              \E r \in Requests : /\ req[r].pc = "write" /\ req[r].website = w
                                  /\ req[r].user = website[w].owner
                                  /\ req'[r] # req[r]]_vars

\* A website that has been deleted for good never comes back, whatever
\* updates and status changes of its id were under way.
GoneForGood ==
    [][\A w \in WebsiteIds : website[w].state = "gone" => website'[w].state = "gone"]_vars

\* Every website that is created comes to be watched, or is deleted.
CreatedGetsWatched ==
    \A w \in WebsiteIds : Visible(w) ~>
        (~HasRow(w) \/ (HasRule(w, "loadTime") /\ HasRule(w, "responseCode")))
=============================================================================
