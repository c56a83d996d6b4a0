-------------------------- MODULE WebsiteRuleProofs --------------------------
(***************************************************************************)
(* Alert rules.  The argument: ids name one rule each, and a handler on    *)
(* its way to write a rule either is marked stale or would still find none *)
(* of that type (RuleLookHolds), so a rule written unmarked is the only    *)
(* one of its type.                                                        *)
(***************************************************************************)
EXTENDS WebsiteProofs

\* A website id that has been handed out stays handed out.
StaysTaken ==
    \A w \in WebsiteIds : website[w].state # "free" => website'[w].state # "free"

LEMMA NeverFreeAgain ==
    TypeOK /\ [Next]_vars => StaysTaken
  <1> SUFFICES ASSUME TypeOK, [Next]_vars, NEW w \in WebsiteIds, website[w].state # "free"
               PROVE  website'[w].state # "free"
    BY DEF StaysTaken
  <1>0. website \in [WebsiteIds -> WebsiteRow]
    BY DEF TypeOK
  <1>1. ASSUME NEW r \in Requests, InsertWebsite(r)
        PROVE  website'[w].state # "free"
    BY <1>0, <1>1 DEF InsertWebsite
  <1>2. ASSUME NEW r \in Requests, UpdateRow(r)
        PROVE  website'[w].state # "free"
    BY <1>0, <1>2 DEF UpdateRow, WebsiteRow
  <1>3. ASSUME NEW u \in Users, NEW v \in WebsiteIds, DeleteWebsite(u, v)
        PROVE  website'[w].state # "free"
    BY <1>0, <1>3 DEF DeleteWebsite, FreeRow
  <1>4. ASSUME NEW ws \in SUBSET WebsiteIds, NEW s, SetStatus(ws, s)
        PROVE  website'[w].state # "free"
    BY <1>0, <1>4 DEF SetStatus, StateAfter, WebsiteRow
  <1>5. CASE \/ \E ws \in SUBSET WebsiteIds, s \in StatusField : WebsiteStatusChange(ws, s)
             \/ \E ws \in SUBSET WebsiteIds : SoftDeleteWebsite(ws)
    BY <1>4, <1>5 DEF WebsiteStatusChange, SoftDeleteWebsite
  <1>6. CASE \/ website' = website
             \/ \E r \in Requests : InsertWebsite(r) \/ UpdateRow(r)
             \/ \E u \in Users, v \in WebsiteIds : DeleteWebsite(u, v)
    BY <1>1, <1>2, <1>3, <1>6
  <1> QED
    BY <1>5, <1>6
    DEF Next, Step, vars, ReadOnly, Crash, Fail, DeleteAlert, CheckUpdateAlert, CheckCreateAlert,
        FindForUpdate, CheckCreate, WriteAlert, SaveAlert, WipeAlerts, RefuseUpdate, CheckUpdate,
        SaveSearchString, SaveResponseCode, RejectLoadTime, SaveLoadTime, InsertAlert

-----------------------------------------------------------------------------
\* q is p, or p marked stale.
Marked(q, p) == q = p \/ q = [p EXCEPT !.stale = TRUE]

\* What q still intends is part of what p intended, and q is marked if p was.
Continues(q, p) ==
    /\ q.website = p.website /\ q.alert = p.alert
    /\ Intends(q) \subseteq Intends(p)
    /\ p.stale => q.stale

\* A marked request continues, with its pc; Idle and a URL writer intend no rule.
LEMMA MarkedContinues ==
    ASSUME NEW p \in Request
    PROVE  /\ \A q : Marked(q, p) => Continues(q, p)
           /\ \A ws, table : Marked(UrlSeen(p, ws, table), p)
           /\ \A row : Marked(AlertSeen(p, row), p)
           /\ p.pc \in {"idle", "check", "write", "wipe"} => Intends(p) = {}
  <1>1. \A q : Marked(q, p) => Continues(q, p)
    BY DEF Marked, Continues, Intends, Request
  <1>2. p.pc \in {"idle", "check", "write", "wipe"} => Intends(p) = {}
    BY DEF Intends
  <1> QED
    BY <1>1, <1>2, SeenType DEF Marked

\* Initially no rule exists and no request names a website.
LEMMA InitRule ==
    Init => RuleInv
  BY InitType, IdleType
  DEF Init, RuleInv, IdsFromSequence, RuleLookHolds, SharedRuleOnlyUnchecked, Idle

\* q names a website that was handed out, which has no rule that q intends.
Fresh(q) ==
    /\ req'[q].website # None => website'[req'[q].website].state # "free"
    /\ \A a \in alerts' :
          /\ a.website = req'[q].website
          /\ a.type # None /\ a.type \in Intends(req'[q])
          => a.id = req'[q].alert

\* Rules may go, and requests may continue, stop, or start with an empty look.
LEMMA RuleQuiet ==
    ASSUME RuleInv, TypeOK', StaysTaken, alerts' \subseteq alerts, lastAlert' = lastAlert,
           \A q \in Requests : Continues(req'[q], req[q]) \/ Fresh(q)
    PROVE  RuleInv'
  <1>0. /\ \A q \in Requests : req[q].website \in WebsiteIds \cup {None}
        /\ \A a \in alerts : a.website \in WebsiteIds
    BY DEF RuleInv, TypeOK, Request, AlertRow
  <1>1. IdsFromSequence'
    BY <1>0 DEF StaysTaken, RuleInv, IdsFromSequence, Continues, Fresh
  <1>2. RuleLookHolds'
    BY DEF RuleInv, RuleLookHolds, Continues, Fresh
  <1>3. SharedRuleOnlyUnchecked'
    BY DEF RuleInv, SharedRuleOnlyUnchecked
  <1> QED
    BY <1>1, <1>2, <1>3 DEF RuleInv

\* Inserting a rule that its handler intends.
LEMMA RuleInsertAlert ==
    ASSUME RuleInv, TypeOK', StaysTaken, NEW r \in Requests, NEW t \in Intends(req[r]),
           NEW next \in {"idle", "responseCode", "searchString"}, InsertAlert(r, t, next),
           req[r].website # None, req[r].alert = None,
           next # "idle" => \A q : q.pc = next => Intends(q) \subseteq Intends(req[r]) \ {t}
    PROVE  RuleInv'
  <1> DEFINE row == [id |-> lastAlert + 1, website |-> req[r].website, type |-> t,
                     unchecked |-> req[r].stale]
  <1>0. /\ \A q \in Requests : req[q] \in Request /\ req[q].website \in WebsiteIds \cup {None}
        /\ req \in [Requests -> Request]
        /\ \A a \in alerts : a.website \in WebsiteIds /\ a.id \in Nat
        /\ lastAlert \in Nat /\ None \notin Nat /\ None \notin WebsiteIds
    BY WebsiteAssumption DEF RuleInv, TypeOK, Request, AlertRow
  <1>1. /\ alerts' = alerts \cup {row} /\ lastAlert' = lastAlert + 1 /\ website' = website
        /\ \A q \in Requests \ {r} : req'[q] = AlertSeen(req[q], row)
        /\ req'[r] = IF next = "idle" THEN Idle ELSE [req[r] EXCEPT !.pc = next]
    BY DEF InsertAlert
  <1>2. /\ \A q \in Requests \ {r} : Marked(req'[q], req[q]) /\ Continues(req'[q], req[q])
        /\ req'[r] = Idle \/ Continues(req'[r], req[r])
    <2>1. \A q \in Requests \ {r} : Marked(req'[q], req[q]) /\ Continues(req'[q], req[q])
      BY <1>0, <1>1, MarkedContinues
    <2>2. CASE next = "idle"
      BY <1>1, <2>1, <2>2
    <2>3. CASE next # "idle"
      <3> DEFINE q == [req[r] EXCEPT !.pc = next]
      <3>1. q.website = req[r].website /\ q.alert = req[r].alert /\ q.stale = req[r].stale
        BY <1>0 DEF Request
      <3>2. Intends(q) \subseteq Intends(req[r])
        BY <1>0, <2>3 DEF Request
      <3>3. Continues(q, req[r])
        BY <3>1, <3>2 DEF Continues
      <3> QED
        BY <1>1, <2>1, <2>3, <3>3
    <2> QED
      BY <2>1, <2>2, <2>3
  <1>3. IdsFromSequence'
    <2>1. website[req[r].website].state # "free"
      BY <1>0 DEF RuleInv, IdsFromSequence
    <2>2. (\A a \in alerts : a.id <= lastAlert /\ website[a.website].state # "free")'
      BY <1>0, <1>1, <2>1 DEF RuleInv, IdsFromSequence
    <2>3. (\A a, b \in alerts : a.id = b.id => a = b)'
      BY <1>0, <1>1 DEF RuleInv, IdsFromSequence
    <2>4. (\A q \in Requests :
              req[q].website # None => website[req[q].website].state # "free")'
      <3>1. Idle.website = None
        BY DEF Idle
      <3>2. \A q \in Requests :
               req'[q].website # None =>
                  req'[q].website = req[q].website /\ website[req[q].website].state # "free"
        BY <1>2, <3>1 DEF RuleInv, IdsFromSequence, Continues
      <3> QED
        BY <1>1, <3>2
    <2> QED
      BY <2>2, <2>3, <2>4 DEF IdsFromSequence
  <1>4. RuleLookHolds'
    <2> SUFFICES ASSUME NEW q \in Requests, ~req'[q].stale, NEW a \in alerts',
                        a.website = req'[q].website, a.type # None, a.type \in Intends(req'[q])
                 PROVE  a.id = req'[q].alert
      BY DEF RuleLookHolds
    <2>1. Intends(Idle) = {}
      BY DEF Intends, Idle
    <2>2. req'[q] # Idle /\ Continues(req'[q], req[q])
      BY <1>2, <2>1
    <2>3. CASE a \in alerts
      BY <2>2, <2>3 DEF RuleInv, RuleLookHolds, Continues
    <2>4. CASE a = row /\ q = r
      BY <1>0, <1>1, <2>2, <2>4 DEF Request
    <2>5. CASE a = row /\ q # r
      <3>1. req'[q] = AlertSeen(req[q], row)
        BY <1>1, <2>5
      <3>2. row.type \in Intends(req[q]) /\ row.website = req[q].website /\ req'[q].alert = req[q].alert
        BY <2>2, <2>5 DEF Continues
      <3>3. row.id # req[q].alert => req'[q].stale
        BY <1>0, <3>1, <3>2 DEF AlertSeen, Request
      <3> QED
        BY <2>5, <3>2, <3>3
    <2> QED
      BY <1>1, <2>3, <2>4, <2>5
  <1>5. SharedRuleOnlyUnchecked'
    <2>1. ASSUME NEW a \in alerts, a.website = row.website, a.type = t, t # None
          PROVE  row.unchecked
      BY <1>0, <2>1 DEF RuleInv, RuleLookHolds
    <2> QED
      BY <1>1, <2>1 DEF RuleInv, SharedRuleOnlyUnchecked
  <1> QED
    BY <1>3, <1>4, <1>5 DEF RuleInv

\* A fresh website has no rules yet.
LEMMA RuleInsertWebsite ==
    ASSUME RuleInv, TypeOK', StaysTaken, NEW r \in Requests, InsertWebsite(r)
    PROVE  RuleInv'
  <1>0. /\ website \in [WebsiteIds -> WebsiteRow] /\ req \in [Requests -> Request]
        /\ \A q \in Requests : req[q] \in Request
    BY DEF RuleInv, TypeOK
  <1>1. PICK w \in WebsiteIds :
          /\ website[w].state = "free"
          /\ website' = [website EXCEPT ![w] =
                 [state |-> "visible", url |-> req[r].url, owner |-> req[r].user,
                  status |-> "Active", unchecked |-> req[r].stale]]
          /\ req' = [q \in Requests |->
                 IF q = r
                 THEN [req[r] EXCEPT !.pc = "loadTime", !.website = w, !.stale = FALSE]
                 ELSE UrlSeen(req[q], {w}, website')]
    BY DEF InsertWebsite
  <1>2. \A q \in Requests \ {r} : Continues(req'[q], req[q])
    BY <1>0, <1>1, MarkedContinues
  <1>3. req'[r].website = w /\ website'[w].state # "free"
    BY <1>0, <1>1 DEF Request
  <1>4. ~\E a \in alerts : a.website = w
    BY <1>1 DEF RuleInv, IdsFromSequence
  <1>5. alerts' = alerts /\ lastAlert' = lastAlert
    BY DEF InsertWebsite
  <1>6. Fresh(r)
    BY <1>3, <1>4, <1>5 DEF Fresh
  <1> QED
    BY <1>2, <1>5, <1>6, RuleQuiet

\* Changing a rule that no other handler is still to write unmarked.
LEMMA RuleWriteAlert ==
    ASSUME RuleInv, TypeOK', StaysTaken, NEW r \in Requests, WriteAlert(r)
    PROVE  RuleInv'
  <1> DEFINE hit(a) == a.id = req[r].alert /\ a.website = req[r].website
             new(a) == [a EXCEPT !.type = req[r].type, !.unchecked = req[r].stale]
  <1>0. /\ \A q \in Requests : req[q] \in Request /\ req[q].website \in WebsiteIds \cup {None}
        /\ req \in [Requests -> Request] /\ \A a \in alerts : a \in AlertRow
        /\ \A a \in alerts : a.website \in WebsiteIds
    BY DEF RuleInv, TypeOK, Request, AlertRow
  <1>1. /\ req[r].pc = "writeAlert" /\ website' = website /\ lastAlert' = lastAlert
        /\ alerts' = {a \in alerts : ~hit(a)} \cup {new(a) : a \in {b \in alerts : hit(b)}}
        /\ req'[r] = Idle
    BY <1>0 DEF WriteAlert
  <1>2. ASSUME NEW q \in Requests \ {r}
        PROVE  /\ Marked(req'[q], req[q]) /\ Continues(req'[q], req[q])
               /\ (\E a \in alerts : hit(a) /\ AlertSeen(req[q], new(a)) # req[q]) => req'[q].stale
    <2>1. req'[q] = IF \E a \in alerts : hit(a) /\ AlertSeen(req[q], new(a)) # req[q]
                    THEN [req[q] EXCEPT !.stale = TRUE]
                    ELSE req[q]
      BY <1>2 DEF WriteAlert
    <2>2. [req[q] EXCEPT !.stale = TRUE].stale
      BY <1>0 DEF Request
    <2>3. Marked(req'[q], req[q])
      BY <2>1 DEF Marked
    <2> QED
      BY <1>0, <2>1, <2>2, <2>3, MarkedContinues
  <1>3. \A a \in alerts : /\ new(a).id = a.id /\ new(a).website = a.website
                          /\ new(a).type = req[r].type /\ new(a).unchecked = req[r].stale
    BY <1>0 DEF AlertRow
  <1>4. Intends(Idle) = {} /\ Idle.website = None /\ Intends(req[r]) = {req[r].type}
    BY <1>1 DEF Intends, Idle
  <1> HIDE DEF new
  <1>5. IdsFromSequence'
    <2>1. (\A a \in alerts : a.id <= lastAlert /\ website[a.website].state # "free")'
      BY <1>1, <1>3 DEF RuleInv, IdsFromSequence
    <2>2. (\A a, b \in alerts : a.id = b.id => a = b)'
      BY <1>1, <1>3 DEF RuleInv, IdsFromSequence
    <2>3. (\A q \in Requests :
              req[q].website # None => website[req[q].website].state # "free")'
      BY <1>1, <1>2, <1>4 DEF RuleInv, IdsFromSequence, Continues
    <2> QED
      BY <2>1, <2>2, <2>3 DEF IdsFromSequence
  <1>6. RuleLookHolds'
    <2> SUFFICES ASSUME NEW q \in Requests, ~req'[q].stale, NEW a \in alerts',
                        a.website = req'[q].website, a.type # None, a.type \in Intends(req'[q])
                 PROVE  a.id = req'[q].alert
      BY DEF RuleLookHolds
    <2>1. q # r
      BY <1>1, <1>4
    <2>2. Continues(req'[q], req[q]) /\ ~req[q].stale
      BY <1>2, <2>1 DEF Continues
    <2>3. CASE a \in alerts
      BY <2>2, <2>3 DEF RuleInv, RuleLookHolds, Continues
    <2>4. ASSUME NEW b \in alerts, hit(b), a = new(b)
          PROVE  a.id = req'[q].alert
      <3>1. AlertSeen(req[q], new(b)) = req[q]
        BY <1>2, <2>1, <2>4
      <3>2. new(b).type \in Intends(req[q]) /\ new(b).website = req[q].website
        BY <2>2, <2>4 DEF Continues
      <3>3. new(b).id = req[q].alert
        BY <1>0, <2>2, <3>1, <3>2 DEF AlertSeen, Request
      <3> QED
        BY <2>2, <2>4, <3>3 DEF Continues
    <2> QED
      BY <1>1, <2>3, <2>4
  <1>7. SharedRuleOnlyUnchecked'
    <2>1. ASSUME NEW a \in alerts, hit(a), NEW b \in alerts, ~hit(b),
                 b.website = a.website, b.type = req[r].type, b.type # None
          PROVE  new(a).unchecked
      BY <1>3, <1>4, <2>1 DEF RuleInv, RuleLookHolds
    <2>2. \A a, b \in alerts : hit(a) /\ hit(b) => a = b
      BY DEF RuleInv, IdsFromSequence
    <2> QED
      BY <1>1, <1>3, <2>1, <2>2 DEF RuleInv, SharedRuleOnlyUnchecked
  <1> QED
    BY <1>5, <1>6, <1>7 DEF RuleInv

-----------------------------------------------------------------------------
\* RuleInv is inductive.
LEMMA NextRule ==
    RuleInv /\ [Next]_vars => RuleInv'
  <1> SUFFICES ASSUME RuleInv, [Next]_vars
               PROVE  RuleInv'
    OBVIOUS
  <1>a. TypeOK' /\ StaysTaken
    BY NextType, NeverFreeAgain DEF RuleInv
  <1>0. /\ TypeOK' /\ StaysTaken /\ req \in [Requests -> Request]
        /\ \A q \in Requests :
              /\ req[q] \in Request /\ Continues(req[q], req[q])
              /\ req[q].pc \notin {"idle", "write"} => req[q].website # None
              /\ req[q].pc # "writeAlert" => req[q].alert = None
        /\ \A q \in Requests : req'[q] = Idle => Fresh(q)
    BY <1>a DEF RuleInv, TypeOK, Continues, Intends, Idle, Fresh
  \* A step of r alone.
  <1>1. ASSUME NEW r \in Requests, alerts' \subseteq alerts, lastAlert' = lastAlert,
               \A q \in Requests \ {r} : Continues(req'[q], req[q]),
               Continues(req'[r], req[r]) \/ Fresh(r)
        PROVE  RuleInv'
    BY <1>0, <1>1, RuleQuiet
  <1>2. ASSUME NEW r \in Requests, Step(r)
        PROVE  RuleInv'
    <2>1. CASE InsertWebsite(r)
      BY <1>0, <2>1, RuleInsertWebsite
    <2>2. CASE SaveLoadTime(r)
      BY <1>0, <2>2, RuleInsertAlert DEF SaveLoadTime, Intends, AlertType, Request
    <2>3. CASE SaveResponseCode(r)
      BY <1>0, <2>3, RuleInsertAlert DEF SaveResponseCode, Intends, AlertType, Request
    <2>4. CASE SaveSearchString(r)
      BY <1>0, <2>4, RuleInsertAlert DEF SaveSearchString, Intends
    <2>5. CASE SaveAlert(r)
      BY <1>0, <2>5, RuleInsertAlert DEF SaveAlert, Intends
    <2>6. CASE RejectLoadTime(r) \/ RefuseUpdate(r)
      BY <1>0, <1>1, <2>6 DEF RejectLoadTime, RefuseUpdate
    <2>7. CASE CheckUpdate(r)
      <3>1. Intends(req'[r]) = {} /\ req'[r].website = req[r].website
        BY <1>0, <2>7 DEF CheckUpdate, Intends, Request
      <3>2. website' = website /\ alerts' = alerts /\ lastAlert' = lastAlert
            /\ \A q \in Requests \ {r} : req'[q] = req[q]
        BY <1>0, <2>7 DEF CheckUpdate
      <3>3. Fresh(r)
        BY <3>1, <3>2 DEF Fresh, RuleInv, IdsFromSequence
      <3> QED
        BY <1>0, <1>1, <3>2, <3>3
    <2>8. CASE UpdateRow(r)
      <3>1. /\ alerts' = alerts /\ lastAlert' = lastAlert
            /\ \A q \in Requests \ {r} : Continues(req'[q], req[q])
        BY <1>0, <2>8, MarkedContinues DEF UpdateRow
      <3>2. req'[r] = Idle \/ req'[r] = [req[r] EXCEPT !.pc = "wipe"]
        BY <1>0, <2>8 DEF UpdateRow
      <3>3. CASE req'[r] = [req[r] EXCEPT !.pc = "wipe"]
        <4>1. Intends(req'[r]) = {} /\ req'[r].website = req[r].website
          BY <1>0, <3>3 DEF Intends, Request
        <4>2. Continues(req'[r], req[r])
          BY <1>0, <3>3, <4>1 DEF Continues, Request
        <4> QED
          BY <1>1, <3>1, <4>2
      <3> QED
        BY <1>0, <1>1, <3>1, <3>2, <3>3
    <2>9. CASE WipeAlerts(r)
      <3>1. req'[r].website = req[r].website /\ req[r].website # None
        BY <1>0, <2>9 DEF WipeAlerts, Request
      <3>2. /\ alerts' = {a \in alerts : a.website # req[r].website}
            /\ website' = website /\ lastAlert' = lastAlert
            /\ \A q \in Requests \ {r} : req'[q] = req[q]
        BY <1>0, <2>9 DEF WipeAlerts
      <3>3. website[req[r].website].state # "free"
        BY <3>1 DEF RuleInv, IdsFromSequence
      <3>4. Fresh(r)
        BY <3>1, <3>2, <3>3 DEF Fresh
      <3> QED
        BY <1>0, <1>1, <3>2, <3>4
    <2>10. CASE WriteAlert(r)
      BY <1>0, <2>10, RuleWriteAlert
    <2> QED
      BY <1>2, <2>1, <2>2, <2>3, <2>4, <2>5, <2>6, <2>7, <2>8, <2>9, <2>10 DEF Step
  <1>3. ASSUME NEW r \in Requests, Fail(r)
        PROVE  RuleInv'
    BY <1>0, <1>1, <1>3 DEF Fail
  <1>4. ASSUME NEW r \in Requests, NEW u \in Users, NEW url \in Urls, CheckCreate(r, u, url)
        PROVE  RuleInv'
    <2>1. Intends(req'[r]) = {} /\ req'[r].website = None
      BY <1>0, <1>4 DEF CheckCreate, Intends, Idle
    <2>2. Fresh(r)
      BY <2>1 DEF Fresh
    <2>3. /\ alerts' = alerts /\ lastAlert' = lastAlert
          /\ \A q \in Requests \ {r} : req'[q] = req[q]
      BY <1>0, <1>4 DEF CheckCreate
    <2> QED
      BY <1>0, <1>1, <2>2, <2>3
  <1>5. ASSUME NEW r \in Requests, NEW u, NEW w, NEW url, NEW limits,
               FindForUpdate(r, u, w, url, limits)
        PROVE  RuleInv'
    <2>1. Intends(req'[r]) = {} /\ req'[r].website = w
      BY <1>0, <1>5 DEF FindForUpdate, Intends, Idle
    <2>2. /\ website' = website /\ alerts' = alerts /\ lastAlert' = lastAlert
          /\ website[w].state # "free" /\ \A q \in Requests \ {r} : req'[q] = req[q]
      BY <1>0, <1>5 DEF FindForUpdate
    <2>3. Fresh(r)
      BY <2>1, <2>2 DEF Fresh
    <2> QED
      BY <1>0, <1>1, <2>2, <2>3
  <1>6. ASSUME NEW r \in Requests, NEW w, NEW t, CheckCreateAlert(r, w, t)
        PROVE  RuleInv'
    <2>1. /\ Intends(req'[r]) = {t} /\ req'[r].website = w /\ req'[r].alert = None
      BY <1>0, <1>6 DEF CheckCreateAlert, Intends, Idle
    <2>2. /\ website' = website /\ alerts' = alerts /\ lastAlert' = lastAlert
          /\ website[w].state # "free" /\ ~RuleTaken(w, t, None)
          /\ \A q \in Requests \ {r} : req'[q] = req[q]
      BY <1>0, <1>6 DEF CheckCreateAlert
    <2>3. Fresh(r)
      BY <2>1, <2>2 DEF Fresh, RuleTaken
    <2> QED
      BY <1>0, <1>1, <2>2, <2>3
  <1>7. ASSUME NEW r \in Requests, NEW a, NEW w, NEW t, CheckUpdateAlert(r, a, w, t)
        PROVE  RuleInv'
    <2>1. /\ Intends(req'[r]) = {t} /\ req'[r].website = w /\ req'[r].alert = a
      BY <1>0, <1>7 DEF CheckUpdateAlert, Intends, Idle
    <2>2. /\ website' = website /\ alerts' = alerts /\ lastAlert' = lastAlert
          /\ website[w].state # "free" /\ ~RuleTaken(w, t, a)
          /\ \A q \in Requests \ {r} : req'[q] = req[q]
      BY <1>0, <1>7 DEF CheckUpdateAlert
    <2>3. Fresh(r)
      BY <2>1, <2>2 DEF Fresh, RuleTaken
    <2> QED
      BY <1>0, <1>1, <2>2, <2>3
  <1>8. ASSUME NEW ws \in SUBSET WebsiteIds, NEW s, SetStatus(ws, s)
        PROVE  RuleInv'
    <2>1. \A q \in Requests : Continues(req'[q], req[q])
      BY <1>0, <1>8, MarkedContinues DEF SetStatus
    <2> QED
      BY <1>0, <1>8, <2>1, RuleQuiet DEF SetStatus
  <1>9. CASE \/ \E ws \in SUBSET WebsiteIds, s \in StatusField : WebsiteStatusChange(ws, s)
             \/ \E ws \in SUBSET WebsiteIds : SoftDeleteWebsite(ws)
    BY <1>8, <1>9 DEF WebsiteStatusChange, SoftDeleteWebsite
  <1>10. CASE \/ \E u \in Users, w \in WebsiteIds : DeleteWebsite(u, w)
              \/ \E a \in alerts : DeleteAlert(a)
              \/ Crash \/ ReadOnly \/ UNCHANGED vars
    BY <1>0, <1>10, RuleQuiet DEF DeleteWebsite, DeleteAlert, Crash, ReadOnly, vars
  <1> QED
    BY <1>2, <1>3, <1>4, <1>5, <1>6, <1>7, <1>9, <1>10 DEF Next

\* However requests interleave, fail or crash, a website has two rules of one
\* type only if one was written after its look for the other went stale.
THEOREM RuleSafety == Spec => []SharedRuleOnlyUnchecked
  <1>1. RuleInv => SharedRuleOnlyUnchecked
    BY DEF RuleInv
  <1> QED
    BY <1>1, InitRule, NextRule, PTL DEF Spec
-----------------------------------------------------------------------------
(***************************************************************************)
(* Deletion for good, and staying watched.                                 *)
(***************************************************************************)
\* No statement of any handler brings back a row that has been deleted for
\* good: UPDATE by id reaches hidden rows, never missing ones.
THEOREM GoneStaysGone == Spec => GoneForGood
  <1>1. ASSUME TypeOK, [Next]_vars, NEW w \in WebsiteIds, website[w].state = "gone"
        PROVE  website'[w].state = "gone"
    <2>0. website \in [WebsiteIds -> WebsiteRow]
      BY <1>1 DEF TypeOK
    <2>1. ASSUME NEW r \in Requests, InsertWebsite(r)
          PROVE  website'[w].state = "gone"
      BY <1>1, <2>0, <2>1 DEF InsertWebsite
    <2>2. ASSUME NEW r \in Requests, UpdateRow(r)
          PROVE  website'[w].state = "gone"
      BY <1>1, <2>0, <2>2 DEF UpdateRow, WebsiteRow
    <2>3. ASSUME NEW u \in Users, NEW v \in WebsiteIds, DeleteWebsite(u, v)
          PROVE  website'[w].state = "gone"
      BY <1>1, <2>0, <2>3 DEF DeleteWebsite, FreeRow
    <2>4. ASSUME NEW ws \in SUBSET WebsiteIds, NEW s, SetStatus(ws, s)
          PROVE  website'[w].state = "gone"
      BY <1>1, <2>0, <2>4 DEF SetStatus, HasRow
    <2>5. CASE \/ \E ws \in SUBSET WebsiteIds, s \in StatusField : WebsiteStatusChange(ws, s)
               \/ \E ws \in SUBSET WebsiteIds : SoftDeleteWebsite(ws)
      BY <2>4, <2>5 DEF WebsiteStatusChange, SoftDeleteWebsite
    <2>6. CASE \/ website' = website
               \/ \E r \in Requests : InsertWebsite(r) \/ UpdateRow(r)
               \/ \E u \in Users, v \in WebsiteIds : DeleteWebsite(u, v)
      BY <1>1, <2>1, <2>2, <2>3, <2>6
    <2> QED
      BY <1>1, <2>5, <2>6
      DEF Next, Step, vars, ReadOnly, Crash, Fail, DeleteAlert, CheckUpdateAlert,
          CheckCreateAlert, FindForUpdate, CheckCreate, WriteAlert, SaveAlert, WipeAlerts,
          RefuseUpdate, CheckUpdate, SaveSearchString, SaveResponseCode, RejectLoadTime,
          SaveLoadTime, InsertAlert
  <1>2. TypeOK /\ [Next]_vars =>
          [\A w \in WebsiteIds : website[w].state = "gone" => website'[w].state = "gone"]_vars
    BY <1>1
  <1> QED
    BY <1>2, TypeCorrect, PTL DEF Spec, GoneForGood

\* The instances in which a handler always finishes with its rules saved, and
\* nobody takes a rule away on request.
Undisturbed ==
    /\ ~Faults /\ ~PartialUpdates
    /\ "updateAlert" \notin Ops /\ "deleteAlert" \notin Ops

\* What those instances add: bodies are complete and no rule is being changed.
Complete(q) == q.limits /\ q.pc # "writeAlert"

CompleteBodies == \A r \in Requests : Complete(req[r])

WatchInv == TypeOK /\ CompleteBodies /\ WatchedOrPending

\* HasRule after the step, and: each rule that q intends is there after the
\* step, or still intended, or the optional one.
HasRuleNext(w, t) == \E a \in alerts' : a.website = w /\ a.type = t

Keeps(q) ==
    \A t \in Intends(req[q]) :
        \/ t = "searchStringMissing"
        \/ HasRuleNext(req[q].website, t)
        \/ req'[q].website = req[q].website /\ t \in Intends(req'[q])

\* A handler is about to save every rule of w.
Restoring(w) ==
    \E q \in Requests : req'[q].website = w /\ AlertType \subseteq Intends(req'[q])

\* Where no handler drops a rule, and rules go or rows appear only for a website
\* that gets all of its rules next, websites stay watched.
LEMMA WatchQuiet ==
    ASSUME WatchInv,
           \A w \in WebsiteIds :
              \/ Restoring(w)
              \/ /\ HasRow(w)' => HasRow(w)
                 /\ \A a \in alerts : a.website = w => a \in alerts',
           \A q \in Requests : Keeps(q)
    PROVE  WatchedOrPending'
  <1> SUFFICES ASSUME NEW w \in WebsiteIds, HasRow(w)', NEW t \in {"loadTime", "responseCode"}
               PROVE  HasRule(w, t)' \/ Pending(w, t)'
    BY DEF WatchedOrPending
  <1>0. CASE Restoring(w)
    BY <1>0 DEF Restoring, Pending, AlertType
  <1>2. ASSUME ~Restoring(w), HasRule(w, t)
        PROVE  HasRule(w, t)' \/ Pending(w, t)'
    BY <1>2 DEF HasRule
  <1>3. ASSUME NEW q \in Requests, req[q].website = w, t \in Intends(req[q])
        PROVE  HasRule(w, t)' \/ Pending(w, t)'
    <2>1. \/ \E a \in alerts' : a.website = w /\ a.type = t
          \/ req'[q].website = w /\ t \in Intends(req'[q])
      BY <1>3 DEF Keeps, HasRuleNext
    <2> QED
      BY <2>1 DEF Pending, HasRule
  <1>4. CASE ~Restoring(w)
    <2>1. HasRule(w, t) \/ Pending(w, t)
      BY <1>4 DEF WatchInv, WatchedOrPending
    <2> QED
      BY <1>4, <2>1, <1>2, <1>3 DEF Pending
  <1> QED
    BY <1>0, <1>4
\* Saving a rule: each rule intended before is there afterwards, or still
\* intended, or the optional one.
LEMMA WatchInsertAlert ==
    ASSUME WatchInv, NEW r \in Requests, NEW t,
           NEW next \in {"idle", "responseCode", "searchString"}, InsertAlert(r, t, next),
           next = "idle" => Intends(req[r]) \subseteq {t, "searchStringMissing"},
           next # "idle" =>
              \A q : q.pc = next =>
                 Intends(req[r]) \subseteq Intends(q) \cup {t, "searchStringMissing"}
    PROVE  WatchedOrPending'
  <1> DEFINE row == [id |-> lastAlert + 1, website |-> req[r].website, type |-> t,
                     unchecked |-> req[r].stale]
  <1>0. req \in [Requests -> Request] /\ \A q \in Requests : req[q] \in Request
    BY DEF WatchInv, TypeOK
  <1>1. /\ alerts' = alerts \cup {row} /\ website' = website
        /\ \A q \in Requests \ {r} : req'[q] = AlertSeen(req[q], row)
        /\ req'[r] = IF next = "idle" THEN Idle ELSE [req[r] EXCEPT !.pc = next]
    BY <1>0 DEF InsertAlert
  <1>2. HasRuleNext(req[r].website, t)
    <2>1. row \in alerts' /\ row.website = req[r].website /\ row.type = t
      BY <1>1
    <2> HIDE DEF row
    <2> QED
      BY <2>1 DEF HasRuleNext
  <1>3. \A q \in Requests \ {r} : Keeps(q)
    <2> SUFFICES ASSUME NEW q \in Requests \ {r}
                 PROVE  Keeps(q)
      OBVIOUS
    <2>1. req'[q] \in {req[q], [req[q] EXCEPT !.stale = TRUE]}
      BY <1>0, <1>1, SeenType
    <2>2. req'[q].website = req[q].website /\ Intends(req'[q]) = Intends(req[q])
      BY <1>0, <2>1 DEF Intends, Request
    <2> QED
      BY <2>2 DEF Keeps
  <1>4. CASE next = "idle"
    <2>1. Keeps(r)
      BY <1>2, <1>4 DEF Keeps
    <2> QED
      BY <1>1, <1>3, <2>1, WatchQuiet DEF HasRow
  <1>5. CASE next # "idle"
    <2>1. req'[r].pc = next /\ req'[r].website = req[r].website
      BY <1>0, <1>1, <1>5 DEF Request
    <2>2. Keeps(r)
      BY <1>2, <1>5, <2>1 DEF Keeps
    <2> QED
      BY <1>1, <1>3, <2>2, WatchQuiet DEF HasRow
  <1> QED
    BY <1>4, <1>5

\* WatchInv is inductive where nothing fails and nobody takes a rule away.
LEMMA NextWatch ==
    ASSUME Undisturbed
    PROVE  WatchInv /\ [Next]_vars => WatchInv'
  <1> SUFFICES ASSUME WatchInv, [Next]_vars
               PROVE  WatchInv'
    OBVIOUS
  <1>0. /\ TypeOK' /\ req \in [Requests -> Request] /\ website \in [WebsiteIds -> WebsiteRow]
        /\ \A q \in Requests : req[q] \in Request /\ req[q].limits /\ req[q].pc # "writeAlert"
        /\ \A q \in Requests : req'[q] = req[q] => Keeps(q)
        /\ \A q \in Requests : Intends(req[q]) = {} => Keeps(q)
        /\ \A q \in Requests : req[q].pc \in {"idle", "check", "write", "wipe"} => Keeps(q)
    BY NextType, MarkedContinues DEF WatchInv, CompleteBodies, Complete, TypeOK, Keeps
  <1>b. \A q \in Requests : Marked(req'[q], req[q]) => Keeps(q)
    BY <1>0 DEF Marked, Keeps, Intends, Request
  <1>1. CompleteBodies'
    <2>1. /\ Complete(Idle)
          /\ \A q \in Requests : \A p : Marked(p, req[q]) => Complete(p)
      BY <1>0 DEF Idle, Complete, Marked, Request
    <2>2. ASSUME NEW r \in Requests, Step(r)
          PROVE  CompleteBodies'
      <3>2. ASSUME NEW t, NEW next \in {"idle", "responseCode", "searchString"},
                   InsertAlert(r, t, next)
            PROVE  CompleteBodies'
        <4>1. \A q \in Requests \ {r} : Marked(req'[q], req[q])
          BY <1>0, <3>2, MarkedContinues DEF InsertAlert
        <4>2. req'[r] = Idle \/ req'[r] = [req[r] EXCEPT !.pc = next]
          BY <1>0, <3>2 DEF InsertAlert
        <4>3. Complete([req[r] EXCEPT !.pc = next])
          BY <1>0 DEF Complete, Request
        <4> QED
          BY <2>1, <4>1, <4>2, <4>3 DEF CompleteBodies
      <3>3. CASE InsertWebsite(r)
        <4>1. \A q \in Requests \ {r} : Marked(req'[q], req[q])
          BY <1>0, <3>3, MarkedContinues DEF InsertWebsite
        <4>2. \E w \in WebsiteIds :
                 req'[r] = [req[r] EXCEPT !.pc = "loadTime", !.website = w, !.stale = FALSE]
          BY <1>0, <3>3 DEF InsertWebsite
        <4>3. Complete(req'[r])
          BY <1>0, <4>2 DEF Complete, Request
        <4> QED
          BY <2>1, <4>1, <4>3 DEF CompleteBodies
      <3>6. CASE UpdateRow(r)
        <4>1. \A q \in Requests \ {r} : Marked(req'[q], req[q])
          <5>1. \A q : Marked(q, q)
            BY DEF Marked
          <5> QED
            BY <1>0, <3>6, <5>1, MarkedContinues DEF UpdateRow
        <4>2. req'[r] = Idle \/ req'[r] = [req[r] EXCEPT !.pc = "wipe"]
          BY <1>0, <3>6 DEF UpdateRow
        <4>3. Complete([req[r] EXCEPT !.pc = "wipe"])
          BY <1>0 DEF Complete, Request
        <4> QED
          BY <2>1, <4>1, <4>2, <4>3 DEF CompleteBodies
      <3>4. CASE CheckUpdate(r) \/ WipeAlerts(r) \/ RejectLoadTime(r) \/ RefuseUpdate(r)
        BY <1>0, <2>1, <3>4
        DEF CheckUpdate, WipeAlerts, RejectLoadTime, RefuseUpdate, CompleteBodies, Complete, Request
      <3>5. ~WriteAlert(r)
        BY <1>0 DEF WriteAlert
      <3> QED
        BY <2>2, <3>2, <3>3, <3>4, <3>5, <3>6
        DEF Step, SaveLoadTime, SaveResponseCode, SaveSearchString, SaveAlert
    <2>3. ASSUME NEW r \in Requests, NEW u, NEW url, CheckCreate(r, u, url)
          PROVE  CompleteBodies'
      BY <1>0, <2>3 DEF CheckCreate, CompleteBodies, Complete, Idle
    <2>4. ASSUME NEW r \in Requests, NEW u, NEW w, NEW url, FindForUpdate(r, u, w, url, TRUE)
          PROVE  CompleteBodies'
      BY <1>0, <2>4 DEF FindForUpdate, CompleteBodies, Complete, Idle
    <2>5. ASSUME NEW r \in Requests, NEW w, NEW t, CheckCreateAlert(r, w, t)
          PROVE  CompleteBodies'
      BY <1>0, <2>5 DEF CheckCreateAlert, CompleteBodies, Complete, Idle
    <2>6. ASSUME NEW ws \in SUBSET WebsiteIds, NEW s, SetStatus(ws, s)
          PROVE  CompleteBodies'
      <3>1. \A q \in Requests : Marked(req'[q], req[q])
        BY <1>0, <2>6, MarkedContinues DEF SetStatus
      <3> QED
        BY <2>1, <3>1 DEF CompleteBodies
    <2>7. CASE req' = req
      BY <1>0, <2>7 DEF CompleteBodies, Complete
    <2> QED
      BY <2>2, <2>3, <2>4, <2>5, <2>6, <2>7
      DEF Next, Undisturbed, WebsiteStatusChange, SoftDeleteWebsite, DeleteWebsite, DeleteAlert,
          CheckUpdateAlert, Fail, Crash, ReadOnly, vars
  <1>2. WatchedOrPending'
    <2>1. ASSUME alerts \subseteq alerts', \A w \in WebsiteIds : HasRow(w)' => HasRow(w),
                 \A q \in Requests : Keeps(q)
          PROVE  WatchedOrPending'
      BY <2>1, WatchQuiet
    <2>2. ASSUME NEW r \in Requests, Step(r)
          PROVE  WatchedOrPending'
      <3>1. CASE InsertWebsite(r)
        <4>1. PICK w \in WebsiteIds :
                /\ website' = [website EXCEPT ![w] =
                       [state |-> "visible", url |-> req[r].url, owner |-> req[r].user,
                        status |-> "Active", unchecked |-> req[r].stale]]
                /\ req'[r] = [req[r] EXCEPT !.pc = "loadTime", !.website = w, !.stale = FALSE]
          BY <1>0, <3>1 DEF InsertWebsite
        <4>2. \A q \in Requests \ {r} : Marked(req'[q], req[q])
          BY <1>0, <3>1, MarkedContinues DEF InsertWebsite
        <4>3. Restoring(w)
          <5>1. req'[r].website = w /\ req'[r].pc = "loadTime"
            BY <1>0, <4>1 DEF Request
          <5> QED
            BY <5>1 DEF Restoring, Intends
        <4>4. \A v \in WebsiteIds \ {w} : HasRow(v)' => HasRow(v)
          BY <1>0, <4>1 DEF HasRow
        <4>5. alerts' = alerts /\ req[r].pc = "write"
          BY <3>1 DEF InsertWebsite
        <4> QED
          BY <1>0, <1>b, <4>2, <4>3, <4>4, <4>5, WatchQuiet
      <3>2. CASE UpdateRow(r)
        <4>1. \A q \in Requests \ {r} : Marked(req'[q], req[q])
          <5>1. \A q : Marked(q, q)
            BY DEF Marked
          <5> QED
            BY <1>0, <3>2, <5>1, MarkedContinues DEF UpdateRow
        <4>2. \A w \in WebsiteIds : HasRow(w)' => HasRow(w)
          BY <1>0, <3>2 DEF UpdateRow, HasRow, WebsiteRow
        <4>3. alerts' = alerts /\ req[r].pc = "write"
          BY <3>2 DEF UpdateRow
        <4> QED
          BY <1>0, <1>b, <2>1, <4>1, <4>2, <4>3
      <3>3. CASE WipeAlerts(r)
        <4>1. /\ website' = website /\ alerts' = {a \in alerts : a.website # req[r].website}
              /\ \A q \in Requests \ {r} : req'[q] = req[q]
              /\ req[r].pc = "wipe" /\ req'[r].pc = "loadTime"
              /\ req'[r].website = req[r].website
          BY <1>0, <3>3 DEF WipeAlerts, Request
        <4>2. Restoring(req[r].website)
          BY <4>1 DEF Restoring, Intends
        <4> QED
          BY <1>0, <4>1, <4>2, WatchQuiet DEF HasRow
      <3>4. CASE SaveLoadTime(r)
        BY <3>4, WatchInsertAlert DEF SaveLoadTime, Intends, AlertType
      <3>5. CASE SaveResponseCode(r)
        BY <3>5, WatchInsertAlert DEF SaveResponseCode, Intends, AlertType
      <3>6. CASE SaveSearchString(r)
        BY <3>6, WatchInsertAlert DEF SaveSearchString, Intends
      <3>7. CASE SaveAlert(r)
        BY <3>7, WatchInsertAlert DEF SaveAlert, Intends
      <3>8. CASE CheckUpdate(r) \/ RefuseUpdate(r)
        BY <1>0, <2>1, <3>8 DEF CheckUpdate, RefuseUpdate, HasRow
      <3>9. ~RejectLoadTime(r) /\ ~WriteAlert(r)
        BY <1>0 DEF RejectLoadTime, WriteAlert
      <3> QED
        BY <2>2, <3>1, <3>2, <3>3, <3>4, <3>5, <3>6, <3>7, <3>8, <3>9 DEF Step
    <2>3. ASSUME NEW r \in Requests, website' = website, alerts' = alerts, req[r].pc = "idle",
                 \A q \in Requests \ {r} : req'[q] = req[q]
          PROVE  WatchedOrPending'
      BY <1>0, <2>1, <2>3 DEF HasRow
    <2>4. ASSUME NEW ws \in SUBSET WebsiteIds, NEW s, SetStatus(ws, s)
          PROVE  WatchedOrPending'
      <3>1. \A q \in Requests : Marked(req'[q], req[q])
        BY <1>0, <2>4, MarkedContinues DEF SetStatus
      <3>2. \A w \in WebsiteIds : HasRow(w)' => HasRow(w)
        BY <1>0, <2>4 DEF SetStatus, HasRow, WebsiteRow
      <3>3. alerts' = alerts
        BY <2>4 DEF SetStatus
      <3> QED
        BY <1>0, <1>b, <2>1, <3>1, <3>2, <3>3
    <2>5. ASSUME NEW u \in Users, NEW w \in WebsiteIds, DeleteWebsite(u, w)
          PROVE  WatchedOrPending'
      BY <1>0, <2>1, <2>5 DEF DeleteWebsite, HasRow, FreeRow
    <2>6. CASE UNCHANGED vars
      BY <1>0, <2>1, <2>6 DEF vars, HasRow
    <2> QED
      BY <1>0, <2>2, <2>3, <2>4, <2>5, <2>6
      DEF Next, Undisturbed, WebsiteStatusChange, SoftDeleteWebsite, DeleteAlert,
          CheckUpdateAlert, Fail, Crash, ReadOnly, CheckCreate, FindForUpdate, CheckCreateAlert
  <1> QED
    BY <1>0, <1>1, <1>2 DEF WatchInv

\* Where nothing fails and nobody takes a rule away on request, every website
\* has the rules it is watched by, or a handler is on its way to save them:
\* whatever updates, status changes, deletions and new rules overlap.
THEOREM StaysWatched ==
    ASSUME Undisturbed
    PROVE  Spec => []WatchedOrPending
  <1>1. Init => WatchInv
    BY InitType DEF Init, WatchInv, CompleteBodies, Complete, WatchedOrPending, HasRow, FreeRow, Idle
  <1>2. WatchInv => WatchedOrPending
    BY DEF WatchInv
  <1>3. WatchInv /\ [Next]_vars => WatchInv'
    BY NextWatch
  <1> QED
    BY <1>1, <1>2, <1>3, PTL DEF Spec

\* In the same instances: once no handler runs, every website is watched.
THEOREM WatchedWhenQuiet ==
    ASSUME Undisturbed
    PROVE  Spec => []WatchedAtRest
  <1>1. WatchedOrPending => WatchedAtRest
    BY DEF WatchedOrPending, WatchedAtRest, Pending, InFlight, Intends
  <1> QED
    BY <1>1, StaysWatched, PTL
=============================================================================
