---------------------------- MODULE WebsiteProofs ----------------------------
(***************************************************************************)
(* Proofs about Website, for every set of users, URLs, ids and requests    *)
(* and every choice of operations and faults.                              *)
(***************************************************************************)
EXTENDS Website, TLAPS

\* The records the handlers start from have their types.
LEMMA IdleType == Idle \in Request /\ FreeRow \in WebsiteRow
  BY DEF Idle, Request, FreeRow, WebsiteRow, StatusField

\* Marking a request stale is the only effect of the history operators.
LEMMA SeenType ==
    ASSUME NEW q \in Request
    PROVE  /\ \A ws, table : UrlSeen(q, ws, table) \in {q, [q EXCEPT !.stale = TRUE]}
           /\ \A row : AlertSeen(q, row) \in {q, [q EXCEPT !.stale = TRUE]}
           /\ [q EXCEPT !.stale = TRUE] \in Request
  BY DEF UrlSeen, AlertSeen, Request

\* A request record that names what its next statement needs.
Named(q) ==
    /\ q \in Request
    /\ q.pc \notin {"idle", "write"} => q.website # None
    /\ q.pc # "writeAlert" => q.alert = None

\* TypeOK in terms of Named.
LEMMA NamedRequests ==
    TypeOK <=> /\ website \in [WebsiteIds -> WebsiteRow]
               /\ alerts \subseteq AlertRow
               /\ lastAlert \in Nat
               /\ req \in [Requests -> Request]
               /\ \A r \in Requests : Named(req[r])
  BY DEF TypeOK, Named

\* The idle record names nothing and needs nothing.
LEMMA IdleNamed == Named(Idle)
  BY IdleType DEF Named, Idle

\* Marking stale keeps a request named.
LEMMA SeenNamed ==
    ASSUME NEW q, Named(q)
    PROVE  /\ \A ws, table : Named(UrlSeen(q, ws, table))
           /\ \A row : Named(AlertSeen(q, row))
           /\ Named([q EXCEPT !.stale = TRUE])
  <1>1. q \in Request
    BY DEF Named
  <1>2. Named([q EXCEPT !.stale = TRUE])
    BY <1>1 DEF Named, Request
  <1> QED
    BY <1>1, <1>2, SeenType

\* Giving one request a named record keeps all of them named.
LEMMA RequestNamed ==
    ASSUME TypeOK, NEW r \in Requests, NEW new, Named(new),
           req' = [req EXCEPT ![r] = new]
    PROVE  req' \in [Requests -> Request] /\ \A q \in Requests : Named(req'[q])
  BY NamedRequests DEF Named

\* Inserting a rule keeps every table typed.
LEMMA InsertAlertType ==
    ASSUME TypeOK, NEW r \in Requests, NEW t \in AlertType \cup {None},
           NEW next \in {"idle", "responseCode", "searchString"},
           req[r].website # None, next = "idle" \/ req[r].alert = None,
           InsertAlert(r, t, next)
    PROVE  TypeOK'
  <1> DEFINE row == [id |-> lastAlert + 1, website |-> req[r].website, type |-> t,
                     unchecked |-> req[r].stale]
  <1>1. Named(req[r]) /\ req[r] \in Request
    BY DEF TypeOK, Named
  <1>2. row \in AlertRow
    BY <1>1 DEF TypeOK, Request, AlertRow
  <1>3. alerts' \subseteq AlertRow /\ lastAlert' \in Nat
    BY <1>2 DEF TypeOK, InsertAlert
  <1>4. ASSUME NEW q \in Requests
        PROVE  Named(IF q = r THEN IF next = "idle" THEN Idle ELSE [req[r] EXCEPT !.pc = next]
                              ELSE AlertSeen(req[q], row))
    <2>1. CASE q # r
      BY <2>1, SeenNamed, NamedRequests
    <2>2. CASE q = r /\ next = "idle"
      BY <2>2, IdleNamed
    <2>3. CASE q = r /\ next # "idle"
      BY <2>3, <1>1 DEF Named, Request
    <2> QED
      BY <2>1, <2>2, <2>3
  <1>5. req' \in [Requests -> Request] /\ \A q \in Requests : Named(req'[q])
    BY <1>4 DEF InsertAlert, Named
  <1> QED
    BY <1>3, <1>5, NamedRequests DEF TypeOK, InsertAlert, Named

\* The ways a step may move its own request and leave the others alone.
LEMMA MoveNamed ==
    ASSUME TypeOK, NEW r \in Requests
    PROVE  /\ req' = [req EXCEPT ![r] = Idle] =>
                req' \in [Requests -> Request] /\ \A q \in Requests : Named(req'[q])
           /\ (req[r].pc = "check" /\ req' = [req EXCEPT ![r].pc = "write"]) =>
                req' \in [Requests -> Request] /\ \A q \in Requests : Named(req'[q])
           /\ (req[r].pc = "wipe" /\ req' = [req EXCEPT ![r].pc = "loadTime", ![r].stale = FALSE]) =>
                req' \in [Requests -> Request] /\ \A q \in Requests : Named(req'[q])
  <1>1. Named(req[r]) /\ req[r] \in Request /\ req \in [Requests -> Request]
    BY DEF TypeOK, Named
  <1>2. ASSUME req' = [req EXCEPT ![r] = Idle]
        PROVE  req' \in [Requests -> Request] /\ \A q \in Requests : Named(req'[q])
    BY <1>2, IdleNamed, RequestNamed
  <1>3. ASSUME req[r].pc = "check", req' = [req EXCEPT ![r].pc = "write"]
        PROVE  req' \in [Requests -> Request] /\ \A q \in Requests : Named(req'[q])
    <2>1. Named([req[r] EXCEPT !.pc = "write"])
      BY <1>1, <1>3 DEF Named, Request
    <2>2. req' = [req EXCEPT ![r] = [req[r] EXCEPT !.pc = "write"]]
      BY <1>1, <1>3
    <2> QED
      BY <2>1, <2>2, RequestNamed
  <1>4. ASSUME req[r].pc = "wipe", req' = [req EXCEPT ![r].pc = "loadTime", ![r].stale = FALSE]
        PROVE  req' \in [Requests -> Request] /\ \A q \in Requests : Named(req'[q])
    <2>1. Named([req[r] EXCEPT !.pc = "loadTime", !.stale = FALSE])
      BY <1>1, <1>4 DEF Named, Request
    <2>2. req' = [req EXCEPT ![r] = [req[r] EXCEPT !.pc = "loadTime", !.stale = FALSE]]
      BY <1>1, <1>4
    <2> QED
      BY <2>1, <2>2, RequestNamed
  <1> QED
    BY <1>2, <1>3, <1>4

\* TypeOK is kept by the statements of a handler in flight.
LEMMA StepType ==
    ASSUME TypeOK, NEW r \in Requests, Step(r)
    PROVE  TypeOK'
  <1>0. /\ Named(req[r]) /\ req[r] \in Request /\ req \in [Requests -> Request]
        /\ website \in [WebsiteIds -> WebsiteRow] /\ alerts \subseteq AlertRow
        /\ lastAlert \in Nat
    BY DEF TypeOK, Named
  <1>1. CASE InsertWebsite(r)
    <2>1. PICK w \in WebsiteIds :
            /\ website' = [website EXCEPT ![w] =
                   [state |-> "visible", url |-> req[r].url, owner |-> req[r].user,
                    status |-> "Active", unchecked |-> req[r].stale]]
            /\ req' = [q \in Requests |->
                   IF q = r
                   THEN [req[r] EXCEPT !.pc = "loadTime", !.website = w, !.stale = FALSE]
                   ELSE UrlSeen(req[q], {w}, website')]
      BY <1>1 DEF InsertWebsite
    <2>2. website' \in [WebsiteIds -> WebsiteRow]
      BY <1>0, <2>1 DEF Request, WebsiteRow, StatusField
    <2>3. Named([req[r] EXCEPT !.pc = "loadTime", !.website = w, !.stale = FALSE])
      BY <1>0, <1>1, WebsiteAssumption DEF Named, Request, InsertWebsite
    <2>4. \A q \in Requests : Named(UrlSeen(req[q], {w}, website'))
      BY SeenNamed, NamedRequests
    <2>5. req' \in [Requests -> Request] /\ \A q \in Requests : Named(req'[q])
      BY <2>1, <2>3, <2>4 DEF Named
    <2> QED
      BY <1>0, <1>1, <2>2, <2>5 DEF TypeOK, Named, InsertWebsite
  <1>2. CASE SaveLoadTime(r)
    BY <1>0, <1>2, InsertAlertType DEF SaveLoadTime, Named, AlertType
  <1>3. CASE SaveResponseCode(r)
    BY <1>0, <1>3, InsertAlertType DEF SaveResponseCode, Named, AlertType
  <1>4. CASE SaveSearchString(r)
    BY <1>0, <1>4, InsertAlertType DEF SaveSearchString, Named, AlertType
  <1>5. CASE SaveAlert(r)
    BY <1>0, <1>5, InsertAlertType DEF SaveAlert, Named, Request
  <1>6. CASE RejectLoadTime(r) \/ RefuseUpdate(r) \/ CheckUpdate(r)
    <2>1. req' \in [Requests -> Request] /\ \A q \in Requests : Named(req'[q])
      BY <1>6, MoveNamed DEF RejectLoadTime, RefuseUpdate, CheckUpdate
    <2> QED
      BY <1>0, <1>6, <2>1 DEF TypeOK, Named, RejectLoadTime, RefuseUpdate, CheckUpdate
  <1>7. CASE UpdateRow(r)
    <2>1. website' \in [WebsiteIds -> WebsiteRow]
      <3> DEFINE w == req[r].website
                 row == [website[w] EXCEPT !.url = req[r].url, !.unchecked = req[r].stale]
      <3>1. w \in WebsiteIds
        BY <1>0, <1>7 DEF UpdateRow, Request
      <3>2. row \in WebsiteRow
        <4>1. website[w] \in WebsiteRow
          BY <1>0, <3>1
        <4>2. req[r].url \in Urls \cup {None} /\ req[r].stale \in BOOLEAN
          BY <1>0 DEF Request
        <4> QED
          BY <4>1, <4>2 DEF WebsiteRow
      <3>3. website' = website \/ website' = [website EXCEPT ![w] = row]
        BY <1>7 DEF UpdateRow
      <3> QED
        BY <1>0, <3>1, <3>2, <3>3
    <2>2. Named([req[r] EXCEPT !.pc = "wipe"])
      BY <1>0, <1>7 DEF UpdateRow, Named, Request
    <2>3. ASSUME NEW q \in Requests
          PROVE  Named(IF q = r
                       THEN IF req[r].found THEN [req[r] EXCEPT !.pc = "wipe"] ELSE Idle
                       ELSE IF Matches(r)
                            THEN UrlSeen(req[q], {req[r].website}, website')
                            ELSE req[q])
      BY <2>2, IdleNamed, SeenNamed, NamedRequests
    <2>4. req' \in [Requests -> Request] /\ \A q \in Requests : Named(req'[q])
      BY <1>7, <2>3 DEF UpdateRow, Named
    <2> QED
      BY <1>0, <1>7, <2>1, <2>4 DEF TypeOK, Named, UpdateRow
  <1>8. CASE WipeAlerts(r)
    <2>1. req' \in [Requests -> Request] /\ \A q \in Requests : Named(req'[q])
      BY <1>8, MoveNamed DEF WipeAlerts
    <2> QED
      BY <1>0, <1>8, <2>1 DEF TypeOK, Named, WipeAlerts
  <1>9. CASE WriteAlert(r)
    <2> DEFINE new(a) == [a EXCEPT !.type = req[r].type, !.unchecked = req[r].stale]
    <2>1. \A a \in alerts : new(a) \in AlertRow
      BY <1>0 DEF AlertRow, Request
    <2>2. alerts' \subseteq AlertRow
      BY <1>0, <1>9, <2>1 DEF WriteAlert
    <2>3. \A q \in Requests : Named([req[q] EXCEPT !.stale = TRUE]) /\ Named(req[q])
      BY SeenNamed, NamedRequests
    <2>4. req' \in [Requests -> Request] /\ \A q \in Requests : Named(req'[q])
      BY <1>9, <2>3, IdleNamed DEF WriteAlert, Named
    <2> QED
      BY <1>0, <1>9, <2>2, <2>4 DEF TypeOK, Named, WriteAlert
  <1> QED
    BY <1>1, <1>2, <1>3, <1>4, <1>5, <1>6, <1>7, <1>8, <1>9 DEF Step

\* TypeOK is kept by the first statement of each handler a client may call.
LEMMA CallType ==
    ASSUME TypeOK, NEW r \in Requests
    PROVE  /\ \A u \in Users, url \in Urls : CheckCreate(r, u, url) => TypeOK'
           /\ \A u \in Users, w \in WebsiteIds, url \in Urls, limits \in BOOLEAN :
                 FindForUpdate(r, u, w, url, limits) => TypeOK'
           /\ \A w \in WebsiteIds, t \in AlertType \cup {None} :
                 CheckCreateAlert(r, w, t) => TypeOK'
           /\ \A a \in Nat, w \in WebsiteIds, t \in AlertType :
                 CheckUpdateAlert(r, a, w, t) => TypeOK'
  <1>0. /\ website \in [WebsiteIds -> WebsiteRow] /\ alerts \subseteq AlertRow
        /\ lastAlert \in Nat /\ req \in [Requests -> Request]
    BY DEF TypeOK
  <1>1. ASSUME NEW u \in Users, NEW url \in Urls, CheckCreate(r, u, url)
        PROVE  TypeOK'
    <2>1. Named([Idle EXCEPT !.pc = "write", !.user = u, !.url = url])
      BY DEF Named, Idle, Request
    <2>2. req' \in [Requests -> Request] /\ \A q \in Requests : Named(req'[q])
      BY <1>1, <2>1, RequestNamed DEF CheckCreate
    <2> QED
      BY <1>0, <1>1, <2>2 DEF TypeOK, Named, CheckCreate
  <1>2. ASSUME NEW u \in Users, NEW w \in WebsiteIds, NEW url \in Urls,
               NEW limits \in BOOLEAN, FindForUpdate(r, u, w, url, limits)
        PROVE  TypeOK'
    <2>1. Named([Idle EXCEPT !.pc = "check", !.user = u, !.url = url, !.website = w,
                             !.found = Visible(w), !.limits = limits])
      BY WebsiteAssumption DEF Named, Idle, Request, Visible
    <2>2. req' \in [Requests -> Request] /\ \A q \in Requests : Named(req'[q])
      BY <1>2, <2>1, RequestNamed DEF FindForUpdate
    <2> QED
      BY <1>0, <1>2, <2>2 DEF TypeOK, Named, FindForUpdate
  <1>3. ASSUME NEW w \in WebsiteIds, NEW t \in AlertType \cup {None},
               CheckCreateAlert(r, w, t)
        PROVE  TypeOK'
    <2>1. Named([Idle EXCEPT !.pc = "saveAlert", !.website = w, !.type = t])
      BY WebsiteAssumption DEF Named, Idle, Request
    <2>2. req' \in [Requests -> Request] /\ \A q \in Requests : Named(req'[q])
      BY <1>3, <2>1, RequestNamed DEF CheckCreateAlert
    <2> QED
      BY <1>0, <1>3, <2>2 DEF TypeOK, Named, CheckCreateAlert
  <1>4. ASSUME NEW a \in Nat, NEW w \in WebsiteIds, NEW t \in AlertType,
               CheckUpdateAlert(r, a, w, t)
        PROVE  TypeOK'
    <2>1. Named([Idle EXCEPT !.pc = "writeAlert", !.website = w, !.type = t, !.alert = a])
      BY WebsiteAssumption DEF Named, Idle, Request
    <2>2. req' \in [Requests -> Request] /\ \A q \in Requests : Named(req'[q])
      BY <1>4, <2>1, RequestNamed DEF CheckUpdateAlert
    <2> QED
      BY <1>0, <1>4, <2>2 DEF TypeOK, Named, CheckUpdateAlert
  <1> QED
    BY <1>1, <1>2, <1>3, <1>4

\* TypeOK is kept by a status change of any set of websites.
LEMMA SetStatusType ==
    ASSUME TypeOK, NEW ws \in SUBSET WebsiteIds, NEW s \in StatusField, SetStatus(ws, s)
    PROVE  TypeOK'
  <1>1. /\ website \in [WebsiteIds -> WebsiteRow] /\ alerts \subseteq AlertRow
        /\ lastAlert \in Nat /\ \A q \in Requests : Named(req[q])
    BY NamedRequests
  <1>2. StateAfter(s) \in {"visible", "hidden"}
    BY DEF StateAfter
  <1>3. website' \in [WebsiteIds -> WebsiteRow]
    BY <1>1, <1>2 DEF SetStatus, WebsiteRow
  <1>4. \A q \in Requests, seen \in SUBSET WebsiteIds : Named(UrlSeen(req[q], seen, website'))
    BY <1>1, SeenNamed
  <1>5. req' \in [Requests -> Request] /\ \A q \in Requests : Named(req'[q])
    BY <1>4 DEF SetStatus, Named
  <1> QED
    BY <1>1, <1>3, <1>5 DEF SetStatus, TypeOK, Named

\* TypeOK is inductive.
LEMMA NextType ==
    TypeOK /\ [Next]_vars => TypeOK'
  <1> SUFFICES ASSUME TypeOK, [Next]_vars
               PROVE  TypeOK'
    OBVIOUS
  <1>0. /\ website \in [WebsiteIds -> WebsiteRow] /\ alerts \subseteq AlertRow
        /\ lastAlert \in Nat /\ req \in [Requests -> Request]
    BY DEF TypeOK
  <1>1. CASE \E r \in Requests : Step(r)
    BY <1>1, StepType
  <1>2. CASE \E r \in Requests : Fail(r)
    BY <1>0, <1>2, MoveNamed DEF Fail, TypeOK, Named
  <1>3. CASE \E r \in Requests, u \in Users, url \in Urls : CheckCreate(r, u, url)
    BY <1>3, CallType
  <1>4. CASE \E r \in Requests, u \in Users, w \in WebsiteIds, url \in Urls,
                limits \in IF PartialUpdates THEN BOOLEAN ELSE {TRUE} :
               FindForUpdate(r, u, w, url, limits)
    BY <1>4, CallType
  <1>5. CASE \E r \in Requests, w \in WebsiteIds, t \in AlertType \cup {None} :
               CheckCreateAlert(r, w, t)
    BY <1>5, CallType
  <1>6. CASE \E r \in Requests, a \in alerts, w \in WebsiteIds, t \in AlertType :
               CheckUpdateAlert(r, a.id, w, t)
    <2>1. \A a \in alerts : a.id \in Nat
      BY <1>0 DEF AlertRow
    <2> QED
      BY <1>6, <2>1, CallType
  <1>7. CASE \/ \E ws \in SUBSET WebsiteIds, s \in StatusField : WebsiteStatusChange(ws, s)
             \/ \E ws \in SUBSET WebsiteIds : SoftDeleteWebsite(ws)
    <2>1. "Deleted" \in StatusField
      BY DEF StatusField
    <2> QED
      BY <1>7, <2>1, SetStatusType DEF WebsiteStatusChange, SoftDeleteWebsite
  <1>8. CASE \E u \in Users, w \in WebsiteIds : DeleteWebsite(u, w)
    <2>1. [FreeRow EXCEPT !.state = "gone"] \in WebsiteRow
      BY DEF FreeRow, WebsiteRow, StatusField
    <2> QED
      BY <1>0, <1>8, <2>1 DEF DeleteWebsite, TypeOK
  <1>9. CASE \E a \in alerts : DeleteAlert(a)
    BY <1>0, <1>9 DEF DeleteAlert, TypeOK
  <1>10. CASE Crash
    BY <1>0, <1>10, IdleNamed DEF Crash, TypeOK, Named
  <1>11. CASE ReadOnly \/ UNCHANGED vars
    BY <1>11 DEF ReadOnly, TypeOK, vars
  <1> QED
    BY <1>1, <1>2, <1>3, <1>4, <1>5, <1>6, <1>7, <1>8, <1>9, <1>10, <1>11 DEF Next

\* Initially every table is empty and every slot idle.
LEMMA InitType ==
    Init => TypeOK
  BY IdleNamed, IdleType DEF Init, TypeOK, Named

\* Every row and every request always has its type, for every instance.
THEOREM TypeCorrect == Spec => []TypeOK
  BY InitType, NextType, PTL DEF Spec

-----------------------------------------------------------------------------
(***************************************************************************)
(* Deletion: the two columns agree.                                        *)
(***************************************************************************)
\* A status change leaves the two columns of every row it reaches agreeing.
LEMMA SetStatusAgrees ==
    ASSUME TypeOK, HiddenIffDeleted, NEW ws \in SUBSET WebsiteIds, NEW s \in StatusField,
           SetStatus(ws, s)
    PROVE  HiddenIffDeleted'
  BY DEF TypeOK, HiddenIffDeleted, HasRow, SetStatus, StateAfter, WebsiteRow

\* HiddenIffDeleted is inductive once rows are typed.
LEMMA NextAgrees ==
    TypeOK /\ HiddenIffDeleted /\ [Next]_vars => HiddenIffDeleted'
  <1> SUFFICES ASSUME TypeOK, HiddenIffDeleted, [Next]_vars
               PROVE  HiddenIffDeleted'
    OBVIOUS
  <1>0. website \in [WebsiteIds -> WebsiteRow]
    BY DEF TypeOK
  <1>1. ASSUME website' = website
        PROVE  HiddenIffDeleted'
    BY <1>1 DEF HiddenIffDeleted, HasRow
  <1>2. ASSUME NEW r \in Requests, InsertWebsite(r)
        PROVE  HiddenIffDeleted'
    BY <1>0, <1>2 DEF InsertWebsite, HiddenIffDeleted, HasRow
  <1>3. ASSUME NEW r \in Requests, UpdateRow(r)
        PROVE  HiddenIffDeleted'
    <2>1. \A w \in WebsiteIds : /\ website'[w].state = website[w].state
                                /\ website'[w].status = website[w].status
      BY <1>0, <1>3 DEF UpdateRow, WebsiteRow
    <2> QED
      BY <2>1 DEF HiddenIffDeleted, HasRow
  <1>4. ASSUME NEW u \in Users, NEW w \in WebsiteIds, DeleteWebsite(u, w)
        PROVE  HiddenIffDeleted'
    BY <1>0, <1>4 DEF DeleteWebsite, HiddenIffDeleted, HasRow, FreeRow
  <1>5. CASE \/ \E ws \in SUBSET WebsiteIds, s \in StatusField : WebsiteStatusChange(ws, s)
             \/ \E ws \in SUBSET WebsiteIds : SoftDeleteWebsite(ws)
    BY <1>5, SetStatusAgrees DEF WebsiteStatusChange, SoftDeleteWebsite, StatusField
  <1>6. CASE \/ website' = website
             \/ \E r \in Requests : InsertWebsite(r) \/ UpdateRow(r)
             \/ \E u \in Users, w \in WebsiteIds : DeleteWebsite(u, w)
    BY <1>1, <1>2, <1>3, <1>4, <1>6
  <1> QED
    BY <1>5, <1>6
    DEF Next, Step, vars, ReadOnly, Crash, Fail, DeleteAlert, CheckUpdateAlert, CheckCreateAlert,
        FindForUpdate, CheckCreate, WriteAlert, SaveAlert, WipeAlerts, RefuseUpdate, CheckUpdate,
        SaveSearchString, SaveResponseCode, RejectLoadTime, SaveLoadTime, InsertAlert

\* A website is out of every listing exactly when its status reads Deleted.
THEOREM DeletionAgrees == Spec => []HiddenIffDeleted
  <1>1. Init => HiddenIffDeleted
    BY DEF Init, HiddenIffDeleted, HasRow, FreeRow
  <1> QED
    BY <1>1, TypeCorrect, NextAgrees, PTL DEF Spec

\* A website's URL changes only under updateWebsite of the one who created it.
THEOREM OwnersMove == Spec => OnlyOwnerMoves
  <1> DEFINE ByOwner(w) ==
                 \E r \in Requests : /\ req[r].pc = "write" /\ req[r].website = w
                                     /\ req[r].user = website[w].owner
                                     /\ req'[r] # req[r]
             Moved(w) == HasRow(w) /\ HasRow(w)' /\ website'[w].url # website[w].url
  <1>1. ASSUME TypeOK, NEW r \in Requests, UpdateRow(r), NEW w \in WebsiteIds, Moved(w)
        PROVE  ByOwner(w)
    <2>0. website \in [WebsiteIds -> WebsiteRow] /\ req[r] \in Request
      BY <1>1 DEF TypeOK
    <2>1. Matches(r) /\ req[r].website = w
      BY <1>1, <2>0 DEF UpdateRow, WebsiteRow
    <2>2. req'[r].pc \in {"wipe", "idle"}
      BY <1>1, <2>0 DEF UpdateRow, Request, Idle
    <2>3. req[r].pc = "write"
      BY <1>1 DEF UpdateRow
    <2> QED
      BY <2>1, <2>2, <2>3 DEF Matches
  <1>2. ASSUME TypeOK, NEW ws, NEW s, SetStatus(ws, s), NEW w \in WebsiteIds
        PROVE  ~Moved(w)
    BY <1>2 DEF SetStatus, TypeOK, WebsiteRow
  <1>3. ASSUME TypeOK, NEW w \in WebsiteIds,
               \/ website' = website
               \/ \E r \in Requests : InsertWebsite(r)
               \/ \E u \in Users, v \in WebsiteIds : DeleteWebsite(u, v)
        PROVE  ~Moved(w)
    BY <1>3 DEF TypeOK, HasRow, InsertWebsite, DeleteWebsite, FreeRow
  <1>4. ASSUME TypeOK, [Next]_vars
        PROVE  \/ website' = website
               \/ \E r \in Requests : InsertWebsite(r) \/ UpdateRow(r)
               \/ \E u \in Users, w \in WebsiteIds : DeleteWebsite(u, w)
               \/ \E ws \in SUBSET WebsiteIds, s \in StatusField : SetStatus(ws, s)
    BY <1>4
    DEF Next, Step, vars, ReadOnly, Crash, Fail, DeleteAlert, CheckUpdateAlert, CheckCreateAlert,
        FindForUpdate, CheckCreate, WriteAlert, SaveAlert, WipeAlerts, RefuseUpdate, CheckUpdate,
        SaveSearchString, SaveResponseCode, RejectLoadTime, SaveLoadTime, InsertAlert,
        WebsiteStatusChange, SoftDeleteWebsite, StatusField
  <1>5. ASSUME TypeOK, [Next]_vars, NEW w \in WebsiteIds, Moved(w)
        PROVE  ByOwner(w)
    <2> HIDE DEF Moved, ByOwner
    <2> QED
      BY <1>1, <1>2, <1>3, <1>4, <1>5
  <1>6. TypeOK /\ [Next]_vars =>
           [\A w \in WebsiteIds : Moved(w) => ByOwner(w)]_vars
    BY <1>5
  <1> QED
    BY <1>6, TypeCorrect, PTL DEF Spec, OnlyOwnerMoves

-----------------------------------------------------------------------------
(***************************************************************************)
(* URLs.  The argument: a handler about to write its URL either is marked  *)
(* stale, or would still pass its duplicate check (UrlLookHolds).  So a    *)
(* row written by an unmarked handler shares its URL with no visible row,  *)
(* and every other way to become visible marks the row unchecked.          *)
(***************************************************************************)
\* The history operators change nothing but the mark, and never clear it.
Alike(q, p) ==
    /\ q.pc = p.pc /\ q.url = p.url /\ q.website = p.website /\ q.type = p.type
    /\ q.alert = p.alert /\ (p.stale => q.stale)

\* Alike holds of what the history operators return.
LEMMA SeenAlike ==
    ASSUME NEW p \in Request
    PROVE  /\ Alike(p, p)
           /\ Alike([p EXCEPT !.stale = TRUE], p)
           /\ \A ws, table : Alike(UrlSeen(p, ws, table), p)
           /\ \A row : Alike(AlertSeen(p, row), p)
  <1>1. Alike(p, p)
    BY DEF Alike
  <1>2. Alike([p EXCEPT !.stale = TRUE], p)
    BY DEF Alike, Request
  <1> QED
    BY <1>1, <1>2, SeenType

\* A request that is not marked has not missed a row that took its URL.
LEMMA UrlSeenMarks ==
    ASSUME NEW p \in Request, p.pc = "write", NEW ws, NEW table,
           ~UrlSeen(p, ws, table).stale, NEW w \in ws,
           table[w].state = "visible", table[w].url = p.url
    PROVE  w = p.website
  BY DEF UrlSeen, Request

\* A step that leaves the websites alone, and moves to "write" only requests
\* that have just found their URL free, keeps UrlInv.
LEMMA UrlQuiet ==
    ASSUME UrlInv, TypeOK', website' = website,
           \A q \in Requests : \/ req'[q].pc # "write"
                               \/ Alike(req'[q], req[q])
                               \/ ~UrlTaken(req'[q].url, req'[q].website)
    PROVE  UrlInv'
  <1>1. SharedUrlOnlyUnchecked'
    BY DEF UrlInv, SharedUrlOnlyUnchecked, Visible
  <1>2. UrlLookHolds'
    BY DEF UrlInv, UrlLookHolds, Visible, UrlTaken, Alike
  <1> QED
    BY <1>1, <1>2 DEF UrlInv

\* Inserting a rule, whatever its type, is such a step.
LEMMA UrlInsertAlert ==
    ASSUME UrlInv, TypeOK', NEW r \in Requests, NEW t,
           NEW next \in {"idle", "responseCode", "searchString"}, InsertAlert(r, t, next)
    PROVE  UrlInv'
  <1>1. \A q \in Requests : req[q] \in Request
    BY DEF UrlInv, TypeOK
  <1>2. \A q \in Requests : req'[q].pc # "write" \/ Alike(req'[q], req[q])
    <2> SUFFICES ASSUME NEW q \in Requests
                 PROVE  req'[q].pc # "write" \/ Alike(req'[q], req[q])
      OBVIOUS
    <2>1. CASE q = r
      BY <1>1, <2>1 DEF InsertAlert, Idle, Request
    <2>2. CASE q # r
      BY <1>1, <2>2, SeenAlike DEF InsertAlert
    <2> QED
      BY <2>1, <2>2
  <1> QED
    BY <1>2, UrlQuiet DEF InsertAlert

\* createWebsite's insert.
LEMMA UrlInsertWebsite ==
    ASSUME UrlInv, TypeOK', NEW r \in Requests, InsertWebsite(r)
    PROVE  UrlInv'
  <1>0. /\ website \in [WebsiteIds -> WebsiteRow] /\ None \notin WebsiteIds
        /\ \A q \in Requests : req[q] \in Request
    BY WebsiteAssumption DEF UrlInv, TypeOK
  <1>1. PICK w \in WebsiteIds :
          /\ website[w].state = "free"
          /\ website' = [website EXCEPT ![w] =
                 [state |-> "visible", url |-> req[r].url, owner |-> req[r].user,
                  status |-> "Active", unchecked |-> req[r].stale]]
          /\ req' = [q \in Requests |->
                 IF q = r
                 THEN [req[r] EXCEPT !.pc = "loadTime", !.website = w, !.stale = FALSE]
                 ELSE UrlSeen(req[q], {w}, website')]
    BY DEF InsertWebsite
  <1>2. /\ \A v \in WebsiteIds \ {w} : website'[v] = website[v]
        /\ website'[w].unchecked = req[r].stale /\ website'[w].url = req[r].url
    BY <1>0, <1>1
  <1>3. ASSUME NEW v \in WebsiteIds \ {w}, Visible(v), website[v].url = req[r].url
        PROVE  req[r].stale
    BY <1>0, <1>3 DEF InsertWebsite, UrlInv, UrlLookHolds
  <1>4. SharedUrlOnlyUnchecked'
    BY <1>2, <1>3 DEF UrlInv, SharedUrlOnlyUnchecked, Visible
  <1>5. ASSUME NEW q \in Requests, req'[q].pc = "write", ~req'[q].stale,
               NEW v \in WebsiteIds, Visible(v)', website'[v].url = req'[q].url
        PROVE  v = req'[q].website
    <2>1. q # r
      BY <1>0, <1>1, <1>5 DEF Request
    <2>2. req'[q] = UrlSeen(req[q], {w}, website') /\ Alike(req'[q], req[q])
      BY <1>0, <1>1, <2>1, SeenAlike
    <2>3. CASE v = w
      BY <1>0, <1>5, <2>2, <2>3, UrlSeenMarks DEF Visible, Alike
    <2>4. CASE v # w
      BY <1>2, <1>5, <2>2, <2>4 DEF UrlInv, UrlLookHolds, Visible, Alike
    <2> QED
      BY <2>3, <2>4
  <1>6. UrlLookHolds'
    BY <1>5 DEF UrlLookHolds
  <1> QED
    BY <1>4, <1>6 DEF UrlInv

\* updateWebsite's UPDATE.
LEMMA UrlUpdateRow ==
    ASSUME UrlInv, TypeOK', NEW r \in Requests, UpdateRow(r)
    PROVE  UrlInv'
  <1> DEFINE w == req[r].website
  <1>0. /\ website \in [WebsiteIds -> WebsiteRow]
        /\ \A q \in Requests : req[q] \in Request
    BY DEF UrlInv, TypeOK
  <1>1. w \in WebsiteIds
    BY <1>0 DEF UpdateRow, Request
  <1>2. \A q \in Requests : q = r => req'[q].pc # "write"
    BY <1>0 DEF UpdateRow, Idle, Request
  <1>3. CASE ~Matches(r)
    <2>1. website' = website
      BY <1>3 DEF UpdateRow
    <2>2. \A q \in Requests : req'[q].pc # "write" \/ Alike(req'[q], req[q])
      BY <1>0, <1>2, <1>3, SeenAlike DEF UpdateRow
    <2> QED
      BY <2>1, <2>2, UrlQuiet
  <1>4. CASE Matches(r)
    <2>1. /\ \A v \in WebsiteIds \ {w} : website'[v] = website[v]
          /\ website'[w].unchecked = req[r].stale /\ website'[w].url = req[r].url
          /\ website'[w].state = website[w].state
      <3>1. website[w] \in WebsiteRow
        BY <1>0, <1>1
      <3> QED
        BY <1>0, <1>1, <1>4, <3>1 DEF UpdateRow, WebsiteRow
    <2>2. ASSUME NEW v \in WebsiteIds \ {w}, Visible(v), website[v].url = req[r].url
          PROVE  req[r].stale
      BY <2>2 DEF UpdateRow, UrlInv, UrlLookHolds
    <2>3. SharedUrlOnlyUnchecked'
      BY <2>1, <2>2 DEF UrlInv, SharedUrlOnlyUnchecked, Visible
    <2>4. ASSUME NEW q \in Requests, req'[q].pc = "write", ~req'[q].stale,
                 NEW v \in WebsiteIds, Visible(v)', website'[v].url = req'[q].url
          PROVE  v = req'[q].website
      <3>1. req'[q] = UrlSeen(req[q], {w}, website') /\ Alike(req'[q], req[q])
        BY <1>0, <1>2, <1>4, <2>4, SeenAlike DEF UpdateRow
      <3>2. CASE v = w
        BY <1>0, <2>4, <3>1, <3>2, UrlSeenMarks DEF Visible, Alike
      <3>3. CASE v # w
        BY <2>1, <2>4, <3>1, <3>3 DEF UrlInv, UrlLookHolds, Visible, Alike
      <3> QED
        BY <3>2, <3>3
    <2>5. UrlLookHolds'
      BY <2>4 DEF UrlLookHolds
    <2> QED
      BY <2>3, <2>5 DEF UrlInv
  <1> QED
    BY <1>3, <1>4

\* A status change, by which hidden rows come back unchecked.
LEMMA UrlSetStatus ==
    ASSUME UrlInv, TypeOK', NEW ws \in SUBSET WebsiteIds, NEW s \in StatusField,
           SetStatus(ws, s)
    PROVE  UrlInv'
  <1> DEFINE back == {w \in ws : HasRow(w) /\ ~Visible(w)}
  <1>0. /\ website \in [WebsiteIds -> WebsiteRow]
        /\ \A q \in Requests : req[q] \in Request
    BY DEF UrlInv, TypeOK
  <1>1. \A q \in Requests : req'[q] = UrlSeen(req[q], back, website')
    BY DEF SetStatus
  <1>2. ASSUME NEW w \in WebsiteIds
        PROVE  /\ website'[w].url = website[w].url
               /\ website[w].unchecked => website'[w].unchecked
               /\ Visible(w)' => Visible(w) \/ (w \in back /\ website'[w].unchecked)
    <2>1. website[w] \in WebsiteRow
      BY <1>0
    <2> QED
      BY <2>1 DEF SetStatus, Visible, HasRow, WebsiteRow, StateAfter
  <1>3. SharedUrlOnlyUnchecked'
    BY <1>2 DEF UrlInv, SharedUrlOnlyUnchecked
  <1>4. ASSUME NEW q \in Requests, req'[q].pc = "write", ~req'[q].stale,
               NEW v \in WebsiteIds, Visible(v)', website'[v].url = req'[q].url
        PROVE  v = req'[q].website
    <2>1. Alike(req'[q], req[q])
      BY <1>0, <1>1, SeenAlike
    <2>2. CASE Visible(v)
      BY <1>2, <1>4, <2>1, <2>2 DEF UrlInv, UrlLookHolds, Alike
    <2>3. CASE v \in back
      <3> HIDE DEF back
      <3>1. /\ req[q] \in Request /\ req[q].pc = "write" /\ website'[v].state = "visible"
            /\ website'[v].url = req[q].url /\ req'[q].website = req[q].website
            /\ ~UrlSeen(req[q], back, website').stale
        BY <1>0, <1>1, <1>4, <2>1 DEF Visible, Alike
      <3> QED
        BY <2>3, <3>1, UrlSeenMarks
    <2> QED
      BY <1>2, <1>4, <2>2, <2>3
  <1>5. UrlLookHolds'
    BY <1>4 DEF UrlLookHolds
  <1> QED
    BY <1>3, <1>5 DEF UrlInv

\* Removing rows takes nobody's URL.
LEMMA UrlDeleteWebsite ==
    ASSUME UrlInv, TypeOK', NEW u \in Users, NEW w \in WebsiteIds, DeleteWebsite(u, w)
    PROVE  UrlInv'
  <1>1. \A v \in WebsiteIds : Visible(v)' => v # w /\ website'[v] = website[v]
    BY DEF DeleteWebsite, UrlInv, TypeOK, Visible, FreeRow
  <1>2. SharedUrlOnlyUnchecked'
    BY <1>1 DEF UrlInv, SharedUrlOnlyUnchecked, Visible
  <1>3. UrlLookHolds'
    BY <1>1 DEF UrlInv, UrlLookHolds, Visible, DeleteWebsite
  <1> QED
    BY <1>2, <1>3 DEF UrlInv

\* UrlInv is inductive.
LEMMA NextUrl ==
    UrlInv /\ [Next]_vars => UrlInv'
  <1> SUFFICES ASSUME UrlInv, [Next]_vars
               PROVE  UrlInv'
    OBVIOUS
  <1>0. /\ TypeOK' /\ req \in [Requests -> Request]
        /\ \A q \in Requests : req[q] \in Request /\ Alike(req[q], req[q])
    BY NextType DEF UrlInv, TypeOK, Alike
  <1>1. ASSUME NEW r \in Requests, Step(r)
        PROVE  UrlInv'
    <2>1. CASE InsertWebsite(r)
      BY <1>0, <2>1, UrlInsertWebsite
    <2>2. CASE UpdateRow(r)
      BY <1>0, <2>2, UrlUpdateRow
    <2>3. CASE SaveLoadTime(r) \/ SaveResponseCode(r) \/ SaveSearchString(r) \/ SaveAlert(r)
      BY <1>0, <2>3, UrlInsertAlert
      DEF SaveLoadTime, SaveResponseCode, SaveSearchString, SaveAlert
    <2>4. CASE RejectLoadTime(r) \/ RefuseUpdate(r)
      BY <1>0, <2>4, UrlQuiet DEF RejectLoadTime, RefuseUpdate, Idle
    <2>5. CASE CheckUpdate(r)
      <3>1. req'[r].url = req[r].url /\ req'[r].website = req[r].website
        BY <1>0, <2>5 DEF CheckUpdate, Request
      <3>2. \A q \in Requests \ {r} : req'[q] = req[q]
        BY <1>0, <2>5 DEF CheckUpdate
      <3>3. website' = website /\ ~UrlTaken(req'[r].url, req'[r].website)
        BY <2>5, <3>1 DEF CheckUpdate
      <3> QED
        BY <1>0, <3>2, <3>3, UrlQuiet
    <2>6. CASE WipeAlerts(r)
      <3>1. req'[r].pc # "write" /\ \A q \in Requests \ {r} : req'[q] = req[q]
        BY <1>0, <2>6 DEF WipeAlerts, Request
      <3> QED
        BY <1>0, <2>6, <3>1, UrlQuiet DEF WipeAlerts
    <2>7. CASE WriteAlert(r)
      <3>1. \A q \in Requests : \/ req'[q] = Idle
                                \/ req'[q] = req[q]
                                \/ req'[q] = [req[q] EXCEPT !.stale = TRUE]
        BY <2>7 DEF WriteAlert
      <3>2. ASSUME NEW q \in Requests
            PROVE  req'[q].pc # "write" \/ Alike(req'[q], req[q])
        <4>1. CASE req'[q] = Idle
          BY <4>1 DEF Idle
        <4>2. CASE req'[q] = req[q]
          BY <1>0, <4>2
        <4>3. CASE req'[q] = [req[q] EXCEPT !.stale = TRUE]
          BY <1>0, <4>3 DEF Alike, Request
        <4> QED
          BY <3>1, <4>1, <4>2, <4>3
      <3> QED
        BY <1>0, <2>7, <3>2, UrlQuiet DEF WriteAlert
    <2> QED
      BY <1>1, <2>1, <2>2, <2>3, <2>4, <2>5, <2>6, <2>7 DEF Step
  <1>2. ASSUME NEW r \in Requests, Fail(r)
        PROVE  UrlInv'
    BY <1>0, <1>2, UrlQuiet DEF Fail, Idle
  <1>3. ASSUME NEW r \in Requests, NEW u \in Users, NEW url \in Urls, CheckCreate(r, u, url)
        PROVE  UrlInv'
    <2>1. req'[r].url = url /\ req'[r].website = None /\ \A q \in Requests \ {r} : req'[q] = req[q]
      BY <1>0, <1>3 DEF CheckCreate, Idle
    <2> QED
      BY <1>0, <1>3, <2>1, UrlQuiet DEF CheckCreate
  <1>4. ASSUME NEW r \in Requests, website' = website, req'[r].pc # "write",
               \A q \in Requests \ {r} : req'[q] = req[q]
        PROVE  UrlInv'
    BY <1>0, <1>4, UrlQuiet
  <1>5. CASE \/ \E r \in Requests, u \in Users, w \in WebsiteIds, url \in Urls,
                limits \in IF PartialUpdates THEN BOOLEAN ELSE {TRUE} :
                  FindForUpdate(r, u, w, url, limits)
             \/ \E r \in Requests, w \in WebsiteIds, t \in AlertType \cup {None} :
                  CheckCreateAlert(r, w, t)
             \/ \E r \in Requests, a \in alerts, w \in WebsiteIds, t \in AlertType :
                  CheckUpdateAlert(r, a.id, w, t)
    <2>1. ASSUME NEW r \in Requests, NEW u, NEW w, NEW url, NEW limits,
                 FindForUpdate(r, u, w, url, limits)
          PROVE  UrlInv'
      <3>1. /\ website' = website /\ req'[r].pc # "write"
            /\ \A q \in Requests \ {r} : req'[q] = req[q]
        BY <1>0, <2>1 DEF FindForUpdate, Idle
      <3> QED
        BY <1>4, <3>1
    <2>2. ASSUME NEW r \in Requests, NEW w, NEW t, CheckCreateAlert(r, w, t)
          PROVE  UrlInv'
      <3>1. /\ website' = website /\ req'[r].pc # "write"
            /\ \A q \in Requests \ {r} : req'[q] = req[q]
        BY <1>0, <2>2 DEF CheckCreateAlert, Idle
      <3> QED
        BY <1>4, <3>1
    <2>3. ASSUME NEW r \in Requests, NEW a, NEW w, NEW t, CheckUpdateAlert(r, a, w, t)
          PROVE  UrlInv'
      <3>1. /\ website' = website /\ req'[r].pc # "write"
            /\ \A q \in Requests \ {r} : req'[q] = req[q]
        BY <1>0, <2>3 DEF CheckUpdateAlert, Idle
      <3> QED
        BY <1>4, <3>1
    <2> QED
      BY <1>5, <2>1, <2>2, <2>3
  <1>6. CASE \/ \E ws \in SUBSET WebsiteIds, s \in StatusField : WebsiteStatusChange(ws, s)
             \/ \E ws \in SUBSET WebsiteIds : SoftDeleteWebsite(ws)
    BY <1>0, <1>6, UrlSetStatus DEF WebsiteStatusChange, SoftDeleteWebsite, StatusField
  <1>7. CASE \E u \in Users, w \in WebsiteIds : DeleteWebsite(u, w)
    BY <1>0, <1>7, UrlDeleteWebsite
  <1>8. CASE (\E a \in alerts : DeleteAlert(a)) \/ Crash \/ ReadOnly \/ UNCHANGED vars
    BY <1>0, <1>8, UrlQuiet DEF DeleteAlert, Crash, ReadOnly, vars, Idle
  <1> QED
    BY <1>1, <1>2, <1>3, <1>5, <1>6, <1>7, <1>8 DEF Next

\* However requests interleave, fail or crash, two visible websites share a URL
\* only if one was restored, or written after its duplicate check went stale.
THEOREM UrlSafety == Spec => []SharedUrlOnlyUnchecked
  <1>1. Init => UrlInv
    BY InitType DEF Init, UrlInv, UrlLookHolds, SharedUrlOnlyUnchecked, Visible, FreeRow, Idle
  <1>2. UrlInv => SharedUrlOnlyUnchecked
    BY DEF UrlInv
  <1> QED
    BY <1>1, <1>2, NextUrl, PTL DEF Spec
=============================================================================
