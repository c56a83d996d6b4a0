---------------------------- MODULE MonitorsProofs ---------------------------
(***************************************************************************)
(* Proofs about Monitors, for every kind of table, every set of users,     *)
(* ids, URLs, days and bodies, and every number of updates in flight.      *)
(***************************************************************************)
EXTENDS Monitors, TLAPS

(***************************************************************************)
(* The inductive invariant.                                                *)
(***************************************************************************)
Kept(q) == q.state \in {"visible", "hidden"}

\* The row's alert status is the verdict on its own date and threshold,
\* unless these have changed since.
Truthful(q) ==
    (q.judged # None /\ ~q.touched) =>
       q.alert = VerdictOn(q.judged, q.expireAt, q.before)

\* A request without a URL holds the URL of its row, unless it was told.
Current(q) ==
    (q.pc = "write" /\ q.url = None) =>
       /\ rows[q.id].state # "free"
       /\ (Stored(q.id) /\ ~q.moved) => rows[q.id].url = q.read

ReadsCurrent == kind = "domain" => \A r \in Updates : Current(update[r])

Inv == MonitorsTypeOK /\ VerdictsHold /\ ReadsCurrent

\* What every step but updateDomain's write may do to a row.
RowStep(a, b) ==
    /\ b \in MonitorRow
    /\ Kept(b) => b.url # None /\ Truthful(b)
    /\ a.state # "free" => b.state # "free"
    /\ a.state = "gone" => b.state = "gone"
    /\ b.about # a.about => b.about \in {None, b.url}
    /\ b.datedBy # a.datedBy => b.datedBy \in {None, b.url}

KeepsUrl(a, b) == (kind = "domain" /\ Kept(a) /\ Kept(b)) => b.url = a.url

\* The step formulas of LookupsFollowUrls and MovesAsAsked.
LookupsFollow ==
    \A i \in MonitorIds :
       /\ rows'[i].about # rows[i].about => rows'[i].about \in {None, rows'[i].url}
       /\ rows'[i].datedBy # rows[i].datedBy => rows'[i].datedBy \in {None, rows'[i].url}

AskedFor ==
    \A i \in MonitorIds :
       (kind = "domain" /\ Stored(i) /\ Stored(i)' /\ rows'[i].url # rows[i].url) =>
          \E r \in Updates :
             /\ update[r].pc = "write" /\ update'[r].pc = "idle"
             /\ update[r].id = i /\ update[r].user = rows[i].owner
             /\ update[r].url = rows'[i].url \/ update[r].moved

Good == Inv' /\ LookupsFollow /\ AskedFor

(***************************************************************************)
(* The rows the statements write.                                          *)
(***************************************************************************)
Restated(q, s, t) == [q EXCEPT !.status = s, !.state = t]

LEMMA StatusShape ==
    ASSUME NEW q \in MonitorRow, NEW s \in Statuses, NEW t \in {"visible", "hidden"},
           NEW a, a = Restated(q, s, t)
    PROVE  /\ a \in MonitorRow /\ a.state = t /\ a.url = q.url /\ a.owner = q.owner
           /\ a.about = q.about /\ a.expireAt = q.expireAt /\ a.before = q.before
           /\ a.alert = q.alert /\ a.datedBy = q.datedBy /\ a.judged = q.judged
           /\ a.touched = q.touched
  BY DEF Restated, MonitorRow

Renamed(q, u) == [q EXCEPT !.url = u]

LEMMA UrlShape ==
    ASSUME NEW q \in MonitorRow, NEW u \in Urls,
           NEW a, a = Renamed(q, u)
    PROVE  /\ a \in MonitorRow /\ a.state = q.state /\ a.url = u /\ a.owner = q.owner
           /\ a.about = q.about /\ a.expireAt = q.expireAt /\ a.before = q.before
           /\ a.alert = q.alert /\ a.datedBy = q.datedBy /\ a.judged = q.judged
           /\ a.touched = q.touched
  BY DEF Renamed, MonitorRow

Rewritten(q, u, b, t) == [q EXCEPT !.url = u, !.before = b, !.touched = t]

LEMMA WriteShape ==
    ASSUME NEW q \in MonitorRow, NEW u \in Urls, NEW b \in Nat \cup {None}, NEW t \in BOOLEAN,
           NEW a, a = Rewritten(q, u, b, t)
    PROVE  /\ a \in MonitorRow /\ a.state = q.state /\ a.url = u /\ a.owner = q.owner
           /\ a.about = q.about /\ a.expireAt = q.expireAt /\ a.before = b
           /\ a.alert = q.alert /\ a.datedBy = q.datedBy /\ a.judged = q.judged
           /\ a.touched = t
  BY DEF Rewritten, MonitorRow

Refreshed(q, u, e, d, t) == [q EXCEPT !.about = u, !.expireAt = e, !.datedBy = d, !.touched = t]

LEMMA LookupShape ==
    ASSUME NEW q \in MonitorRow, NEW u \in Urls, NEW e \in Nat \cup {None},
           NEW d \in Urls \cup {None}, NEW t \in BOOLEAN,
           NEW a, a = Refreshed(q, u, e, d, t)
    PROVE  /\ a \in MonitorRow /\ a.state = q.state /\ a.url = q.url /\ a.owner = q.owner
           /\ a.about = u /\ a.expireAt = e /\ a.before = q.before
           /\ a.alert = q.alert /\ a.datedBy = d /\ a.judged = q.judged
           /\ a.touched = t
  BY DEF Refreshed, MonitorRow

Rejudged(q, v, d, t) == [q EXCEPT !.alert = v, !.judged = d, !.touched = t]

LEMMA VerdictShape ==
    ASSUME NEW q \in MonitorRow, NEW v \in AlertStatus, NEW d \in Nat, NEW t \in BOOLEAN,
           NEW a, a = Rejudged(q, v, d, t)
    PROVE  /\ a \in MonitorRow /\ a.state = q.state /\ a.url = q.url /\ a.owner = q.owner
           /\ a.about = q.about /\ a.expireAt = q.expireAt /\ a.before = q.before
           /\ a.alert = v /\ a.datedBy = q.datedBy /\ a.judged = d
           /\ a.touched = t
  BY DEF Rejudged, MonitorRow

Placed(u, o, l, e, b, d) ==
    [FreeMonitor EXCEPT
        !.state = "visible", !.url = u, !.owner = o, !.about = l,
        !.expireAt = e, !.before = b, !.datedBy = d]

LEMMA NewShape ==
    ASSUME NEW u \in Urls, NEW o \in Users, NEW l \in Urls \cup {None},
           NEW e \in Nat \cup {None}, NEW b \in Nat \cup {None}, NEW d \in Urls \cup {None},
           NEW a, a = Placed(u, o, l, e, b, d)
    PROVE  /\ a \in MonitorRow /\ a.state = "visible" /\ a.url = u /\ a.owner = o
           /\ a.about = l /\ a.expireAt = e /\ a.before = b
           /\ a.datedBy = d /\ a.judged = None
  BY DEF Placed, MonitorRow, FreeMonitor, Statuses

LEMMA FreeRow ==
    /\ FreeMonitor \in MonitorRow
    /\ FreeMonitor.about = None /\ FreeMonitor.datedBy = None
  BY DEF MonitorRow, FreeMonitor, Statuses

LEMMA GoneShape ==
    ASSUME NEW a, a = [FreeMonitor EXCEPT !.state = "gone"]
    PROVE  /\ a \in MonitorRow /\ a.state = "gone" /\ a.about = None /\ a.datedBy = None
  <1> DEFINE q == FreeMonitor
  <1>1. q \in MonitorRow /\ q.about = None /\ q.datedBy = None /\ a = [q EXCEPT !.state = "gone"]
    BY FreeRow
  <1> HIDE DEF q
  <1> QED
    BY <1>1 DEF MonitorRow

\* Every row of a reachable table may be left as it is.
LEMMA RowStays ==
    ASSUME Inv, NEW i \in MonitorIds
    PROVE  /\ rows[i] \in MonitorRow /\ RowStep(rows[i], rows[i])
           /\ Stored(i) <=> Kept(rows[i])
  BY DEF Inv, MonitorsTypeOK, VerdictsHold, RowStep, Kept, Truthful, Stored

LEMMA NoUpdateType == NoUpdate \in UpdateRequest /\ NoUpdate.pc = "idle"
  BY DEF NoUpdate, UpdateRequest

\* The part of the invariant that a step owes to RowStep.
LEMMA RowsKeep ==
    ASSUME Inv, kind' = kind, rows' \in [MonitorIds -> MonitorRow],
           \A i \in MonitorIds : RowStep(rows[i], rows'[i]),
           update' \in [Updates -> UpdateRequest],
           \A r \in Updates : update'[r].pc = "write" =>
              update'[r].id # None /\ (update'[r].url # None \/ update'[r].read # None),
           round' \in Round, day' \in Day, calls' \in 0 .. MaxCalls
    PROVE  MonitorsTypeOK' /\ VerdictsHold' /\ LookupsFollow
  <1>1. MonitorsTypeOK'
    <2>1. kind' \in Kind
      BY DEF Inv, MonitorsTypeOK
    <2>2. \A i \in MonitorIds : rows'[i].state \in {"visible", "hidden"} => rows'[i].url # None
      BY DEF RowStep, Kept
    <2> QED
      BY <2>1, <2>2 DEF MonitorsTypeOK
  <1>2. VerdictsHold'
    <2>1. ASSUME NEW i \in MonitorIds, Kept(rows'[i]) PROVE Truthful(rows'[i])
      BY <2>1 DEF RowStep
    <2>2. \A i \in MonitorIds : Stored(i)' <=> Kept(rows'[i])
      BY DEF Stored, Kept
    <2> QED
      BY <2>1, <2>2 DEF VerdictsHold, Truthful
  <1>3. LookupsFollow
    BY DEF LookupsFollow, RowStep
  <1> QED
    BY <1>1, <1>2, <1>3

\* A step that moves the rows by RowStep and ends updates at most.
LEMMA StepKeeps ==
    ASSUME Inv, kind' = kind, rows' \in [MonitorIds -> MonitorRow],
           \A i \in MonitorIds : RowStep(rows[i], rows'[i]) /\ KeepsUrl(rows[i], rows'[i]),
           update' \in [Updates -> UpdateRequest],
           \A r \in Updates : update'[r] = update[r] \/ update'[r] = NoUpdate,
           round' \in Round, day' \in Day, calls' \in 0 .. MaxCalls
    PROVE  Good
  <1>1. \A i \in MonitorIds : Stored(i) <=> Kept(rows[i])
    BY RowStays
  <1>2. \A i \in MonitorIds : Stored(i)' <=> Kept(rows'[i])
    BY DEF Stored, Kept
  <1>3. MonitorsTypeOK' /\ VerdictsHold' /\ LookupsFollow
    <2>1. ASSUME NEW r \in Updates, update'[r].pc = "write"
          PROVE  /\ update'[r].id # None
                 /\ update'[r].url # None \/ update'[r].read # None
      <3>1. update'[r] = update[r]
        BY <2>1, NoUpdateType
      <3>2. update[r].pc = "write"
        BY <2>1, <3>1
      <3> QED
        BY <3>1, <3>2 DEF Inv, MonitorsTypeOK
    <2> QED
      BY <2>1, RowsKeep
  <1>4. ReadsCurrent'
    <2> SUFFICES ASSUME kind = "domain", NEW r \in Updates,
                        update'[r].pc = "write", update'[r].url = None
                 PROVE  /\ rows'[update'[r].id].state # "free"
                        /\ (Kept(rows'[update'[r].id]) /\ ~update'[r].moved) =>
                               rows'[update'[r].id].url = update'[r].read
      BY DEF ReadsCurrent, Current, Stored, Kept
    <2>1. update'[r] = update[r]
      BY NoUpdateType
    <2> DEFINE q == update[r]
    <2>2. /\ q.pc = "write" /\ q.url = None /\ q \in UpdateRequest
          /\ q.id # None /\ Current(q)
      BY <2>1 DEF Inv, MonitorsTypeOK, ReadsCurrent
    <2>3. q.id \in MonitorIds
      BY <2>2 DEF UpdateRequest
    <2>4. /\ rows[q.id].state # "free"
          /\ (Stored(q.id) /\ ~q.moved) => rows[q.id].url = q.read
      BY <2>2 DEF Current
    <2>5. RowStep(rows[q.id], rows'[q.id]) /\ KeepsUrl(rows[q.id], rows'[q.id])
      BY <2>3
    <2>6. rows'[q.id].state # "free"
      BY <2>4, <2>5 DEF RowStep
    <2>7. Kept(rows'[q.id]) => Kept(rows[q.id])
      <3>1. rows[q.id].state \in {"free", "visible", "hidden", "gone"}
        BY <2>3, RowStays DEF MonitorRow
      <3> QED
        BY <2>4, <2>5, <3>1 DEF RowStep, Kept
    <2>8. Kept(rows'[q.id]) => rows'[q.id].url = rows[q.id].url
      BY <2>5, <2>7 DEF KeepsUrl
    <2> QED
      BY <1>1, <2>1, <2>3, <2>4, <2>6, <2>7, <2>8
  <1>5. AskedFor
    BY <1>1, <1>2 DEF AskedFor, KeepsUrl
  <1> QED
    BY <1>3, <1>4, <1>5 DEF Good, Inv

\* A step that writes some rows only, each by RowStep.
LEMMA StatementKeeps ==
    ASSUME Inv, kind' = kind, NEW reached \in SUBSET MonitorIds,
           rows' \in [MonitorIds -> MonitorRow],
           \A i \in MonitorIds \ reached : rows'[i] = rows[i],
           \A i \in reached : RowStep(rows[i], rows'[i]) /\ KeepsUrl(rows[i], rows'[i]),
           update' = update, round' \in Round, day' = day, calls' \in 0 .. MaxCalls
    PROVE  Good
  <1>1. \A i \in MonitorIds : RowStep(rows[i], rows'[i]) /\ KeepsUrl(rows[i], rows'[i])
    BY RowStays DEF KeepsUrl
  <1> QED
    BY <1>1, StepKeeps DEF Inv, MonitorsTypeOK

\* A row whose dates and verdict stay as they are.
LEMMA SameVerdict ==
    ASSUME NEW q \in MonitorRow, NEW a \in MonitorRow, RowStep(q, q), Kept(q), Kept(a),
           a.url # None, a.about = q.about, a.datedBy = q.datedBy,
           a.expireAt = q.expireAt, a.before = q.before, a.alert = q.alert,
           a.judged = q.judged, a.touched = q.touched
    PROVE  RowStep(q, a)
  BY DEF RowStep, Kept, Truthful

LEMMA Calls ==
    ASSUME Inv, NEW k, Call(k)
    PROVE  kind = k /\ calls' \in 0 .. MaxCalls
  BY MonitorsAssumption DEF Call, Inv, MonitorsTypeOK

LEMMA Unchanged ==
    ASSUME Inv
    PROVE  /\ round \in Round /\ day \in Day /\ update \in [Updates -> UpdateRequest]
           /\ rows \in [MonitorIds -> MonitorRow] /\ calls \in 0 .. MaxCalls /\ kind \in Kind
  BY DEF Inv, MonitorsTypeOK

(***************************************************************************)
(* The statements.                                                         *)
(***************************************************************************)
LEMMA InsertKeeps ==
    ASSUME Inv, calls' \in 0 .. MaxCalls, NEW u, NEW url \in Urls, NEW about \in {None, url},
           NEW e \in Nat \cup {None}, NEW b \in Nat \cup {None}, Insert(u, url, about, e, b)
    PROVE  Good
  <1> DEFINE dated == IF e = None THEN None ELSE url
             n == [FreeMonitor EXCEPT
                      !.state = "visible", !.url = url, !.owner = u, !.about = about,
                      !.expireAt = e, !.before = b, !.datedBy = dated]
  <1>1. PICK i \in MonitorIds : rows[i].state = "free" /\ rows' = [rows EXCEPT ![i] = n]
    BY DEF Insert
  <1>2. u \in Users /\ kind' = kind /\ update' = update /\ round' = round /\ day' = day
    BY MonitorsAssumption DEF Insert
  <1>3. about \in Urls \cup {None} /\ dated \in {None, url} /\ dated \in Urls \cup {None}
        /\ url # None
    BY MonitorsAssumption
  <1>4. n = Placed(url, u, about, e, b, dated)
    BY DEF Placed
  <1> HIDE DEF dated, n
  <1>5. /\ n \in MonitorRow /\ n.state = "visible" /\ n.url = url /\ n.about = about
        /\ n.datedBy = dated /\ n.judged = None
    BY <1>2, <1>3, <1>4, NewShape
  <1>6. RowStep(rows[i], n) /\ KeepsUrl(rows[i], n)
    BY <1>1, <1>3, <1>5 DEF RowStep, KeepsUrl, Kept, Truthful
  <1>7. rows' \in [MonitorIds -> MonitorRow] /\ rows'[i] = n
        /\ \A j \in MonitorIds \ {i} : rows'[j] = rows[j]
    BY <1>1, <1>5, Unchanged
  <1>8. \A j \in {i} : RowStep(rows[j], rows'[j]) /\ KeepsUrl(rows[j], rows'[j])
    BY <1>6, <1>7
  <1>9. {i} \in SUBSET MonitorIds
    OBVIOUS
  <1> QED
    BY <1>2, <1>7, <1>8, <1>9, Unchanged, StatementKeeps

LEMMA SetUrlKeeps ==
    ASSUME Inv, calls' \in 0 .. MaxCalls, kind # "domain", NEW url \in Urls \cup {None},
           NEW reached \in SUBSET MonitorIds, \A i \in reached : Stored(i), SetUrl(reached, url)
    PROVE  Good
  <1>1. /\ rows' = [i \in MonitorIds |->
               IF i \in reached /\ url # None THEN [rows[i] EXCEPT !.url = url] ELSE rows[i]]
        /\ kind' = kind /\ update' = update /\ round' = round /\ day' = day
    BY DEF SetUrl
  <1>2. CASE url = None
    <2>1. rows' \in [MonitorIds -> MonitorRow] /\ \A i \in MonitorIds : rows'[i] = rows[i]
      BY <1>1, <1>2, Unchanged
    <2>2. \A i \in reached : RowStep(rows[i], rows'[i]) /\ KeepsUrl(rows[i], rows'[i])
      BY <2>1, RowStays DEF KeepsUrl
    <2> QED
      BY <1>1, <2>1, <2>2, Unchanged, StatementKeeps
  <1>3. CASE url # None
    <2>1. ASSUME NEW i \in reached
          PROVE  rows'[i] \in MonitorRow /\ RowStep(rows[i], rows'[i]) /\ KeepsUrl(rows[i], rows'[i])
      <3>1. rows'[i] = Renamed(rows[i], url)
        BY <1>1, <1>3 DEF Renamed
      <3>2. rows[i] \in MonitorRow /\ RowStep(rows[i], rows[i]) /\ Kept(rows[i])
        BY RowStays
      <3> DEFINE q == rows[i]
                 a == rows'[i]
      <3>3. a = Renamed(q, url) /\ q \in MonitorRow /\ RowStep(q, q) /\ Kept(q)
        BY <3>1, <3>2
      <3> HIDE DEF q, a
      <3>4. /\ a \in MonitorRow /\ a.state = q.state /\ a.url = url /\ a.owner = q.owner
            /\ a.about = q.about /\ a.expireAt = q.expireAt /\ a.before = q.before
            /\ a.alert = q.alert /\ a.datedBy = q.datedBy /\ a.judged = q.judged
            /\ a.touched = q.touched
        BY <1>3, <3>3, UrlShape
      <3>5. RowStep(q, a)
        BY <1>3, <3>3, <3>4, SameVerdict DEF Kept
      <3>6. KeepsUrl(q, a)
        BY DEF KeepsUrl
      <3> QED
        BY <3>4, <3>5, <3>6 DEF q, a
    <2>2. \A i \in MonitorIds \ reached : rows'[i] = rows[i]
      BY <1>1
    <2>3. rows' \in [MonitorIds -> MonitorRow]
      <3>1. \A i \in MonitorIds : rows'[i] \in MonitorRow
        BY <2>1, <2>2, Unchanged
      <3>2. rows' = [i \in MonitorIds |-> rows'[i]]
        BY <1>1
      <3> QED
        BY <3>1, <3>2
    <2> QED
      BY <1>1, <2>1, <2>2, <2>3, Unchanged, StatementKeeps
  <1> QED
    BY <1>2, <1>3

LEMMA SetStatusKeeps ==
    ASSUME Inv, calls' \in 0 .. MaxCalls, NEW ids \in SUBSET MonitorIds, NEW s \in Statuses,
           SetStatus(ids, s)
    PROVE  Good
  <1> DEFINE reached == {i \in ids : Stored(i)}
             t == IF s = "Deleted" THEN "hidden" ELSE "visible"
  <1>1. /\ rows' = [i \in MonitorIds |->
               IF i \in reached THEN [rows[i] EXCEPT !.status = s, !.state = t] ELSE rows[i]]
        /\ kind' = kind /\ update' = update /\ round' = round /\ day' = day
    BY DEF SetStatus
  <1>2. t \in {"visible", "hidden"}
    OBVIOUS
  <1>3. ASSUME NEW i \in reached
        PROVE  rows'[i] \in MonitorRow /\ RowStep(rows[i], rows'[i]) /\ KeepsUrl(rows[i], rows'[i])
    <2> DEFINE q == rows[i]
               a == rows'[i]
    <2>1. q \in MonitorRow /\ RowStep(q, q) /\ Kept(q)
      BY RowStays
    <2>2. a = Restated(q, s, t)
      BY <1>1 DEF Restated
    <2>3. q.url # None
      BY <2>1 DEF RowStep
    <2> HIDE DEF q, a, t
    <2>4. /\ a \in MonitorRow /\ a.state = t /\ a.url = q.url /\ a.owner = q.owner
          /\ a.about = q.about /\ a.expireAt = q.expireAt /\ a.before = q.before
          /\ a.alert = q.alert /\ a.datedBy = q.datedBy /\ a.judged = q.judged
          /\ a.touched = q.touched
      BY <1>2, <2>1, <2>2, StatusShape
    <2>5. Kept(a)
      BY <1>2, <2>4 DEF Kept
    <2>6. RowStep(q, a)
      BY <2>1, <2>3, <2>4, <2>5, SameVerdict
    <2>7. KeepsUrl(q, a)
      BY <2>4 DEF KeepsUrl
    <2> QED
      BY <2>4, <2>6, <2>7 DEF q, a
  <1>4. \A i \in MonitorIds \ reached : rows'[i] = rows[i]
    BY <1>1
  <1>5. rows' \in [MonitorIds -> MonitorRow]
    <2>1. \A i \in MonitorIds : rows'[i] \in MonitorRow
      BY <1>3, <1>4, Unchanged
    <2>2. rows' = [i \in MonitorIds |-> rows'[i]]
      BY <1>1
    <2> QED
      BY <2>1, <2>2
  <1>6. reached \in SUBSET MonitorIds
    OBVIOUS
  <1> HIDE DEF reached, t
  <1> QED
    BY <1>1, <1>3, <1>4, <1>5, <1>6, Unchanged, StatementKeeps

LEMMA RemoveKeeps ==
    ASSUME Inv, calls' \in 0 .. MaxCalls, NEW reached \in SUBSET MonitorIds,
           \A i \in reached : Stored(i), Remove(reached)
    PROVE  Good
  <1> DEFINE n == [FreeMonitor EXCEPT !.state = "gone"]
  <1>1. /\ rows' = [i \in MonitorIds |-> IF i \in reached THEN n ELSE rows[i]]
        /\ kind' = kind /\ update' = update /\ round' = round /\ day' = day
    BY DEF Remove
  <1>2. n \in MonitorRow /\ n.state = "gone" /\ n.about = None /\ n.datedBy = None
    BY GoneShape
  <1> HIDE DEF n
  <1>3. rows' \in [MonitorIds -> MonitorRow]
    BY <1>1, <1>2, Unchanged
  <1>4. \A i \in MonitorIds \ reached : rows'[i] = rows[i]
    BY <1>1
  <1>5. \A i \in reached : RowStep(rows[i], rows'[i]) /\ KeepsUrl(rows[i], rows'[i])
    BY <1>1, <1>2 DEF RowStep, KeepsUrl, Kept, Truthful
  <1> QED
    BY <1>1, <1>3, <1>4, <1>5, Unchanged, StatementKeeps

(***************************************************************************)
(* The updates of domains.                                                 *)
(***************************************************************************)
LEMMA RequestFields ==
    ASSUME Inv, NEW r \in Updates
    PROVE  /\ update[r] \in UpdateRequest
           /\ update[r].pc = "write" =>
                 /\ update[r].id \in MonitorIds /\ UrlToWrite(update[r]) \in Urls
                 /\ update[r].before \in Nat \cup {None}
                 /\ kind = "domain" => Current(update[r])
  BY DEF Inv, MonitorsTypeOK, UpdateRequest, UrlToWrite, ReadsCurrent

LEMMA AskKeeps ==
    ASSUME Inv, NEW r \in Updates, NEW u \in Users, NEW i \in MonitorIds, NEW body \in Bodies,
           updateDomain(r, u, i, body)
    PROVE  Good
  <1> DEFINE n == [pc |-> "write", user |-> u, id |-> i, url |-> body.url,
                   before |-> body.before, read |-> Found(i), moved |-> FALSE]
  <1>1. /\ update' = [update EXCEPT ![r] = n] /\ (body.url # None \/ Found(i) # None)
        /\ kind' = kind /\ rows' = rows /\ round' = round /\ day' = day
    BY DEF updateDomain
  <1>2. kind = "domain" /\ calls' \in 0 .. MaxCalls
    BY Calls DEF updateDomain
  <1>3. body.url \in Urls \cup {None} /\ body.before \in Nat \cup {None} /\ i # None
    BY MonitorsAssumption
  <1>4. Found(i) # None => rows[i].state = "visible" /\ rows[i].url = Found(i)
    BY DEF Found, Listed
  <1>5. Found(i) \in Urls \cup {None}
    BY RowStays DEF Found, MonitorRow
  <1>6. /\ n \in UpdateRequest /\ n.id = i /\ n.url = body.url /\ n.read = Found(i)
        /\ n.pc = "write"
    BY <1>3, <1>5 DEF UpdateRequest
  <1> HIDE DEF n
  <1>7. /\ update' \in [Updates -> UpdateRequest] /\ update'[r] = n
        /\ \A x \in Updates \ {r} : update'[x] = update[x]
    BY <1>1, <1>6, Unchanged
  <1>8. MonitorsTypeOK' /\ VerdictsHold' /\ LookupsFollow
    <2>1. ASSUME NEW x \in Updates, update'[x].pc = "write"
          PROVE  /\ update'[x].id # None
                 /\ update'[x].url # None \/ update'[x].read # None
      <3>1. CASE x = r
        BY <1>1, <1>3, <1>6, <1>7, <3>1
      <3>2. CASE x # r
        BY <1>7, <2>1, <3>2 DEF Inv, MonitorsTypeOK
      <3> QED
        BY <3>1, <3>2
    <2>2. \A j \in MonitorIds : RowStep(rows[j], rows'[j])
      BY <1>1, RowStays
    <2> QED
      BY <1>1, <1>2, <1>7, <2>1, <2>2, Unchanged, RowsKeep
  <1>9. ReadsCurrent'
    <2>1. ASSUME NEW x \in Updates, update'[x].pc = "write", update'[x].url = None
          PROVE  /\ rows[update'[x].id].state # "free"
                 /\ (Kept(rows[update'[x].id]) /\ ~update'[x].moved) =>
                        rows[update'[x].id].url = update'[x].read
      <3>1. CASE x = r
        BY <1>1, <1>4, <1>6, <1>7, <2>1, <3>1
      <3>2. CASE x # r
        <4>1. update'[x] = update[x] /\ Current(update[x])
          BY <1>2, <1>7, <3>2 DEF Inv, ReadsCurrent
        <4> QED
          BY <2>1, <4>1 DEF Current, Stored, Kept
      <3> QED
        BY <3>1, <3>2
    <2> QED
      BY <1>1, <2>1 DEF ReadsCurrent, Current, Stored, Kept
  <1>10. AskedFor
    BY <1>1 DEF AskedFor
  <1> QED
    BY <1>8, <1>9, <1>10 DEF Good, Inv

Told(q) == [q EXCEPT !.moved = TRUE]

LEMMA ToldShape ==
    ASSUME NEW q \in UpdateRequest, NEW a, a = Told(q)
    PROVE  /\ a \in UpdateRequest /\ a.pc = q.pc /\ a.id = q.id /\ a.url = q.url
           /\ a.read = q.read /\ a.moved
  BY DEF Told, UpdateRequest

LEMMA WriteKeeps ==
    ASSUME Inv, NEW r \in Updates, WriteDomain(r)
    PROVE  Good
  <1> DEFINE q == update[r]
             reached == OwnedBy(q.user, {q.id})
             before(i) == IF q.before = None THEN rows[i].before ELSE q.before
             touched(i) == rows[i].touched \/ q.before \notin {None, rows[i].before}
  <1>1. /\ q.pc = "write" /\ q.id \in MonitorIds /\ UrlToWrite(q) \in Urls
        /\ q.before \in Nat \cup {None} /\ (kind = "domain" => Current(q))
        /\ UrlToWrite(q) # None
    BY RequestFields, MonitorsAssumption DEF WriteDomain
  <1>2. /\ rows' = [i \in MonitorIds |->
               IF i \in reached THEN [rows[i] EXCEPT !.url = UrlToWrite(q), !.before = before(i),
                                                    !.touched = touched(i)]
               ELSE rows[i]]
        /\ update' = [x \in Updates |->
               IF x = r THEN NoUpdate
               ELSE IF update[x].id \in reached THEN Told(update[x]) ELSE update[x]]
        /\ kind' = kind /\ round' = round /\ day' = day /\ calls' = calls
    BY DEF WriteDomain, Told
  <1>3. \A i \in reached : i = q.id /\ i \in MonitorIds /\ Stored(i) /\ rows[i].owner = q.user
    BY <1>1 DEF OwnedBy
  <1>4. ASSUME NEW i \in reached
        PROVE  /\ rows'[i] \in MonitorRow /\ RowStep(rows[i], rows'[i])
               /\ rows'[i].url = UrlToWrite(q)
    <2> DEFINE p == rows[i]
               a == rows'[i]
               b == before(i)
               t == touched(i)
               w == UrlToWrite(q)
    <2>1. p \in MonitorRow /\ RowStep(p, p) /\ Kept(p)
      BY <1>3, RowStays
    <2>2. a = Rewritten(p, w, b, t)
      BY <1>2, <1>3 DEF Rewritten
    <2>3. /\ b \in Nat \cup {None} /\ t \in BOOLEAN
          /\ ~t => ~p.touched /\ b = p.before
      BY <1>1, <2>1 DEF MonitorRow
    <2>4. w \in Urls /\ w # None
      BY <1>1
    <2> HIDE DEF p, a, b, t, w
    <2>5. /\ a \in MonitorRow /\ a.state = p.state /\ a.url = w /\ a.owner = p.owner
          /\ a.about = p.about /\ a.expireAt = p.expireAt /\ a.before = b
          /\ a.alert = p.alert /\ a.datedBy = p.datedBy /\ a.judged = p.judged
          /\ a.touched = t
      BY <2>1, <2>2, <2>3, <2>4, WriteShape
    <2>6. Truthful(a)
      BY <2>1, <2>3, <2>5 DEF Truthful, RowStep
    <2>7. RowStep(p, a)
      BY <2>4, <2>5, <2>6 DEF RowStep
    <2> QED
      BY <2>5, <2>7 DEF p, a, w
  <1>5. \A i \in MonitorIds \ reached : rows'[i] = rows[i]
    BY <1>2
  <1>6. rows' \in [MonitorIds -> MonitorRow]
    <2>1. \A i \in MonitorIds : rows'[i] \in MonitorRow
      BY <1>4, <1>5, Unchanged
    <2>2. rows' = [i \in MonitorIds |-> rows'[i]]
      BY <1>2
    <2> QED
      BY <2>1, <2>2
  <1>7. \A i \in MonitorIds : RowStep(rows[i], rows'[i])
    BY <1>4, <1>5, RowStays
  <1>8. ASSUME NEW x \in Updates
        PROVE  /\ update'[x] \in UpdateRequest
               /\ update'[x].pc = "write" =>
                     /\ update[x].pc = "write" /\ update'[x].id = update[x].id
                     /\ update'[x].url = update[x].url /\ update'[x].read = update[x].read
                     /\ update'[x].moved \/ (update'[x] = update[x] /\ update[x].id \notin reached)
    <2>1. CASE x = r
      BY <1>2, <2>1, NoUpdateType
    <2>2. CASE x # r /\ update[x].id \in reached
      <3>1. update'[x] = Told(update[x]) /\ update[x] \in UpdateRequest
        BY <1>2, <2>2, Unchanged
      <3> QED
        BY <3>1, ToldShape
    <2>3. CASE x # r /\ update[x].id \notin reached
      BY <1>2, <2>3, Unchanged
    <2> QED
      BY <2>1, <2>2, <2>3
  <1> HIDE DEF reached, before, touched
  <1>9. MonitorsTypeOK' /\ VerdictsHold' /\ LookupsFollow
    <2>1. update' \in [Updates -> UpdateRequest]
      <3>1. update' = [x \in Updates |-> update'[x]]
        BY <1>2
      <3> QED
        BY <1>8, <3>1
    <2>2. \A x \in Updates : update'[x].pc = "write" =>
             update'[x].id # None /\ (update'[x].url # None \/ update'[x].read # None)
      BY <1>8 DEF Inv, MonitorsTypeOK
    <2> QED
      BY <1>2, <1>6, <1>7, <2>1, <2>2, Unchanged, RowsKeep
  <1>10. ReadsCurrent'
    <2>1. ASSUME kind = "domain", NEW x \in Updates,
                 update'[x].pc = "write", update'[x].url = None
          PROVE  /\ rows'[update'[x].id].state # "free"
                 /\ (Kept(rows'[update'[x].id]) /\ ~update'[x].moved) =>
                        rows'[update'[x].id].url = update'[x].read
      <3> DEFINE j == update[x].id
      <3>1. /\ update[x].pc = "write" /\ update[x].url = None /\ update'[x].id = j
            /\ update'[x].read = update[x].read
            /\ update'[x].moved \/ (update'[x] = update[x] /\ j \notin reached)
        BY <1>8, <2>1
      <3>2. j \in MonitorIds /\ Current(update[x])
        BY <2>1, <3>1, RequestFields
      <3>3. rows[j].state # "free" /\ RowStep(rows[j], rows'[j])
        BY <1>7, <3>1, <3>2 DEF Current
      <3>4. rows'[j].state # "free"
        BY <3>3 DEF RowStep
      <3>5. ASSUME Kept(rows'[j]), ~update'[x].moved
            PROVE  rows'[j].url = update'[x].read
        <4>1. rows'[j] = rows[j] /\ ~update[x].moved
          BY <1>5, <3>1, <3>2, <3>5
        <4> QED
          BY <3>1, <3>2, <3>5, <4>1 DEF Current, Stored, Kept
      <3> QED
        BY <3>1, <3>4, <3>5
    <2> QED
      BY <1>2, <2>1 DEF ReadsCurrent, Current, Stored, Kept
  <1>11. AskedFor
    <2> SUFFICES ASSUME NEW i \in MonitorIds, kind = "domain", Stored(i),
                        rows'[i].url # rows[i].url
                 PROVE  /\ update[r].pc = "write" /\ update'[r].pc = "idle"
                        /\ update[r].id = i /\ update[r].user = rows[i].owner
                        /\ update[r].url = rows'[i].url \/ update[r].moved
      BY DEF AskedFor
    <2>1. i \in reached
      BY <1>5
    <2>2. i = q.id /\ rows[i].owner = q.user /\ rows'[i].url = UrlToWrite(q)
      BY <1>3, <1>4, <2>1
    <2>3. update'[r].pc = "idle"
      BY <1>2, NoUpdateType
    <2>4. q.url = rows'[i].url \/ q.moved
      <3>1. CASE q.url # None
        BY <2>2, <3>1 DEF UrlToWrite
      <3>2. CASE q.url = None
        BY <1>1, <2>2, <3>2 DEF UrlToWrite, Current
      <3> QED
        BY <3>1, <3>2
    <2> QED
      BY <1>1, <2>2, <2>3, <2>4
  <1> QED
    BY <1>9, <1>10, <1>11 DEF Good, Inv

(***************************************************************************)
(* The nightly jobs.                                                       *)
(***************************************************************************)
\* A step of a round that writes no row, and a crash.
LEMMA QuietKeeps ==
    ASSUME Inv, kind' = kind, rows' = rows,
           update' = update \/ update' = [r \in Updates |-> NoUpdate],
           round' \in Round, day' \in Day, calls' = calls
    PROVE  Good
  <1>1. \A i \in MonitorIds : RowStep(rows[i], rows'[i]) /\ KeepsUrl(rows[i], rows'[i])
    BY RowStays DEF KeepsUrl
  <1>2. /\ update' \in [Updates -> UpdateRequest]
        /\ \A r \in Updates : update'[r] = update[r] \/ update'[r] = NoUpdate
    BY Unchanged, NoUpdateType
  <1> QED
    BY <1>1, <1>2, Unchanged, StepKeeps

LEMMA UrlsOfRows == Inv => DistinctUrls \in SUBSET Urls
  <1> SUFFICES ASSUME Inv, NEW i \in MonitorIds, Listed(i) PROVE rows[i].url \in Urls
    BY DEF DistinctUrls, Watched
  <1> QED
    BY RowStays DEF RowStep, Kept, Listed, MonitorRow

LEMMA RoundTypes ==
    ASSUME Inv
    PROVE  /\ NoRound \in Round /\ [NoRound EXCEPT !.ran = TRUE] \in Round
           /\ [NoRound EXCEPT !.ran = round.ran] \in Round
           /\ round.todo \in SUBSET Urls /\ round.left \in SUBSET Reading
           /\ \A url : [round EXCEPT !.todo = Remaining(url)] \in Round
           /\ \A item : [round EXCEPT !.left = round.left \ {item}] \in Round
           /\ [pc |-> "lookup", ran |-> TRUE, todo |-> DistinctUrls, left |-> {}] \in Round
           /\ \A l \in SUBSET Reading : [round EXCEPT !.pc = "judge", !.left = l] \in Round
  BY Unchanged, UrlsOfRows DEF Round, NoRound, Remaining

LEMMA ReadingsType ==
    Inv => {[id |-> i, expireAt |-> rows[i].expireAt, before |-> rows[i].before] : i \in Watched}
              \in SUBSET Reading
  <1> SUFFICES ASSUME Inv, NEW i \in MonitorIds
               PROVE  [id |-> i, expireAt |-> rows[i].expireAt, before |-> rows[i].before] \in Reading
    BY DEF Watched
  <1> QED
    BY RowStays DEF MonitorRow, Reading

LEMMA LookupKeeps ==
    ASSUME Inv, NEW url, NEW e \in Nat \cup {None}, StoreLookup(url, e)
    PROVE  Good
  <1> DEFINE reached == SameUrl(url)
             expireAt(i) == IF e = None THEN rows[i].expireAt ELSE e
             datedBy(i) == IF e = None THEN rows[i].datedBy ELSE url
             touched(i) == rows[i].touched \/ e \notin {None, rows[i].expireAt}
  <1>1. /\ url \in Urls /\ kind' = kind /\ update' = update /\ day' = day /\ calls' = calls
        /\ round' \in Round
    BY RoundTypes DEF StoreLookup
  <1>2. rows' = [i \in MonitorIds |->
               IF i \in reached THEN [rows[i] EXCEPT !.about = url, !.expireAt = expireAt(i),
                                        !.datedBy = datedBy(i), !.touched = touched(i)]
               ELSE rows[i]]
    BY DEF StoreLookup
  <1>3. reached \in SUBSET MonitorIds /\ \A i \in reached : Stored(i) /\ rows[i].url = url
    BY DEF SameUrl
  <1>4. ASSUME NEW i \in reached
        PROVE  rows'[i] \in MonitorRow /\ RowStep(rows[i], rows'[i]) /\ KeepsUrl(rows[i], rows'[i])
    <2> DEFINE p == rows[i]
               a == rows'[i]
               x == expireAt(i)
               d == datedBy(i)
               t == touched(i)
    <2>1. p \in MonitorRow /\ RowStep(p, p) /\ Kept(p) /\ p.url = url
      BY <1>3, RowStays
    <2>2. a = Refreshed(p, url, x, d, t)
      BY <1>2, <1>3 DEF Refreshed
    <2>3. /\ x \in Nat \cup {None} /\ t \in BOOLEAN /\ d \in Urls \cup {None}
          /\ ~t => ~p.touched /\ x = p.expireAt
          /\ d \in {p.datedBy, url}
      BY <1>1, <2>1 DEF MonitorRow
    <2> HIDE DEF p, a, x, d, t
    <2>4. /\ a \in MonitorRow /\ a.state = p.state /\ a.url = p.url /\ a.owner = p.owner
          /\ a.about = url /\ a.expireAt = x /\ a.before = p.before
          /\ a.alert = p.alert /\ a.datedBy = d /\ a.judged = p.judged
          /\ a.touched = t
      BY <1>1, <2>1, <2>2, <2>3, LookupShape
    <2>5. Truthful(a)
      BY <2>1, <2>3, <2>4 DEF Truthful, RowStep
    <2>6. RowStep(p, a)
      BY <2>1, <2>3, <2>4, <2>5 DEF RowStep
    <2>7. KeepsUrl(p, a)
      BY <2>4 DEF KeepsUrl
    <2> QED
      BY <2>4, <2>6, <2>7 DEF p, a
  <1>5. \A i \in MonitorIds \ reached : rows'[i] = rows[i]
    BY <1>2
  <1>6. rows' \in [MonitorIds -> MonitorRow]
    <2>1. \A i \in MonitorIds : rows'[i] \in MonitorRow
      BY <1>4, <1>5, Unchanged
    <2>2. rows' = [i \in MonitorIds |-> rows'[i]]
      BY <1>2
    <2> QED
      BY <2>1, <2>2
  <1> HIDE DEF reached
  <1> QED
    BY <1>1, <1>3, <1>4, <1>5, <1>6, Unchanged, StatementKeeps

\* Whole days from 3 AM of one day to midnight of another.
LEMMA Quotient == \A k \in Int : (24 * k - 3) \div 24 = k - 1
  OBVIOUS

\* The arithmetic of updateDomainAlert says what VerdictOn says.
LEMMA VerdictIsRight ==
    ASSUME Inv, NEW item \in Reading
    PROVE  /\ Verdict(item) = VerdictOn(day, item.expireAt, item.before)
           /\ Verdict(item) \in AlertStatus
  <1> DEFINE e == OrZero(item.expireAt)
             b == OrZero(item.before)
  <1>1. e \in Nat /\ b \in Nat /\ day \in Nat
    BY MonitorsAssumption, Unchanged DEF Reading, OrZero, Day
  <1>2. DaysLeft(item.expireAt) = (24 * e - (24 * day + 3)) \div 24
    BY DEF DaysLeft
  <1>3. 24 * e - (24 * day + 3) = 24 * (e - day) - 3
    BY <1>1
  <1>4. DaysLeft(item.expireAt) = e - day - 1
    <2>1. e - day \in Int
      BY <1>1
    <2> QED
      BY <1>2, <1>3, <2>1, Quotient
  <1> HIDE DEF e, b
  <1>5. Verdict(item) = CASE e - day - 1 > b -> "up"
                          [] e - day - 1 < b /\ e - day - 1 > 0 -> "alert"
                          [] OTHER -> "down"
    BY <1>4 DEF Verdict, e, b
  <1>6. VerdictOn(day, item.expireAt, item.before) =
           IF e > day + b + 1 THEN "up"
           ELSE IF e \in day + 2 .. day + b THEN "alert" ELSE "down"
    BY DEF VerdictOn, e, b
  <1>7. CASE e > day + b + 1
    BY <1>1, <1>5, <1>6, <1>7 DEF AlertStatus
  <1>8. CASE e <= day + b + 1 /\ e >= day + 2 /\ e <= day + b
    BY <1>1, <1>5, <1>6, <1>8 DEF AlertStatus
  <1>9. CASE e <= day + b + 1 /\ ~(e >= day + 2 /\ e <= day + b)
    BY <1>1, <1>5, <1>6, <1>9 DEF AlertStatus
  <1> QED
    BY <1>1, <1>7, <1>8, <1>9

LEMMA AlertKeeps ==
    ASSUME Inv, NEW item, updateDomainAlert(item)
    PROVE  Good
  <1> DEFINE reached == Judged(item)
             v == Verdict(item)
             t == \/ rows[item.id].expireAt # item.expireAt
                  \/ rows[item.id].before # item.before
  <1>1. /\ item \in Reading /\ kind' = kind /\ update' = update /\ day' = day /\ calls' = calls
        /\ round' \in Round
    BY RoundTypes DEF updateDomainAlert
  <1>2. rows' = [i \in MonitorIds |->
               IF i \in reached THEN [rows[i] EXCEPT !.alert = v, !.judged = day, !.touched = t]
               ELSE rows[i]]
    BY DEF updateDomainAlert
  <1>3. item.id \in MonitorIds
    BY <1>1 DEF Reading
  <1>4. reached \in SUBSET MonitorIds /\ \A i \in reached : Stored(i) /\ i = item.id
    BY <1>3 DEF Judged
  <1>5. v = VerdictOn(day, item.expireAt, item.before) /\ v \in AlertStatus
    BY <1>1, VerdictIsRight
  <1> HIDE DEF v
  <1>6. ASSUME NEW i \in reached
        PROVE  rows'[i] \in MonitorRow /\ RowStep(rows[i], rows'[i]) /\ KeepsUrl(rows[i], rows'[i])
    <2> DEFINE p == rows[i]
               a == rows'[i]
    <2>1. p \in MonitorRow /\ RowStep(p, p) /\ Kept(p)
      BY <1>4, RowStays
    <2>2. a = Rejudged(p, v, day, t)
      BY <1>2, <1>4 DEF Rejudged
    <2>3. t \in BOOLEAN /\ (~t => p.expireAt = item.expireAt /\ p.before = item.before)
      BY <1>4
    <2>4. day \in Nat
      BY MonitorsAssumption, Unchanged DEF Day
    <2> HIDE DEF p, a, t
    <2>5. /\ a \in MonitorRow /\ a.state = p.state /\ a.url = p.url /\ a.owner = p.owner
          /\ a.about = p.about /\ a.expireAt = p.expireAt /\ a.before = p.before
          /\ a.alert = v /\ a.datedBy = p.datedBy /\ a.judged = day
          /\ a.touched = t
      BY <1>5, <2>1, <2>2, <2>3, <2>4, VerdictShape
    <2>6. Truthful(a)
      BY <1>5, <2>3, <2>5 DEF Truthful
    <2>7. RowStep(p, a)
      BY <2>1, <2>5, <2>6 DEF RowStep
    <2>8. KeepsUrl(p, a)
      BY <2>5 DEF KeepsUrl
    <2> QED
      BY <2>5, <2>7, <2>8 DEF p, a
  <1>7. \A i \in MonitorIds \ reached : rows'[i] = rows[i]
    BY <1>2
  <1>8. rows' \in [MonitorIds -> MonitorRow]
    <2>1. \A i \in MonitorIds : rows'[i] \in MonitorRow
      BY <1>6, <1>7, Unchanged
    <2>2. rows' = [i \in MonitorIds |-> rows'[i]]
      BY <1>2
    <2> QED
      BY <2>1, <2>2
  <1> HIDE DEF reached, t
  <1> QED
    BY <1>1, <1>4, <1>6, <1>7, <1>8, Unchanged, StatementKeeps

(***************************************************************************)
(* The services.                                                           *)
(***************************************************************************)
LEMMA Owned ==
    ASSUME NEW u, NEW i \in MonitorIds
    PROVE  /\ OwnedBy(u, {i}) \in SUBSET MonitorIds /\ \A j \in OwnedBy(u, {i}) : Stored(j)
           /\ {j \in {i} : Stored(j)} \in SUBSET MonitorIds
           /\ \A j \in {j \in {i} : Stored(j)} : Stored(j)
  BY DEF OwnedBy

LEMMA NoDate == None \in Nat \cup {None} /\ "Deleted" \in Statuses
  BY DEF Statuses

\* The tables that store no lookup, and the requests about blacklist watches.
LEMMA PlainKeeps ==
    ASSUME Inv, SSLNext \/ WorkspaceOrPlanNext \/ BlacklistNext
    PROVE  Good
  <1>1. ASSUME NEW u \in Users, NEW url \in Urls,
               createSSL(u, url) \/ createWorkspace(u, url) \/ createPlan(u, url)
                  \/ createBlacklist(u, url)
        PROVE  Good
    <2>1. calls' \in 0 .. MaxCalls
      BY <1>1, Calls DEF createSSL, createWorkspace, createPlan, createBlacklist
    <2>2. PICK about \in {None, url} : Insert(u, url, about, None, None)
      BY <1>1 DEF createSSL, createWorkspace, createPlan, createBlacklist
    <2> QED
      BY <2>1, <2>2, NoDate, InsertKeeps
  <1>2. ASSUME NEW u \in Users, NEW i \in MonitorIds, NEW url \in Urls \cup {None},
               updateSSL(u, i, url) \/ updateBlacklist(u, i, url)
        PROVE  Good
    <2>1. calls' \in 0 .. MaxCalls /\ kind # "domain"
      BY <1>2, Calls DEF updateSSL, updateBlacklist
    <2>2. SetUrl(OwnedBy(u, {i}), url)
      BY <1>2 DEF updateSSL, updateBlacklist
    <2> QED
      BY <2>1, <2>2, Owned, SetUrlKeeps
  <1>3. ASSUME NEW i \in MonitorIds, NEW url \in Urls, updateWorkspace(i, url) \/ updatePlan(i, url)
        PROVE  Good
    <2>1. calls' \in 0 .. MaxCalls /\ kind # "domain"
      BY <1>3, Calls DEF updateWorkspace, updatePlan
    <2>2. SetUrl({j \in {i} : Stored(j)}, url)
      BY <1>3 DEF updateWorkspace, updatePlan
    <2> QED
      BY <2>1, <2>2, Owned, SetUrlKeeps
  <1>4. ASSUME NEW u \in Users, NEW i \in MonitorIds,
               deleteSSL(u, i) \/ deleteBlacklist(u, i) \/ deleteWorkspace(u, i) \/ deletePlan(u, i)
        PROVE  Good
    <2>1. calls' \in 0 .. MaxCalls
      BY <1>4, Calls DEF deleteSSL, deleteBlacklist, deleteWorkspace, deletePlan
    <2>2. Remove(OwnedBy(u, {i}))
      BY <1>4 DEF deleteSSL, deleteBlacklist, deleteWorkspace, deletePlan
    <2> QED
      BY <2>1, <2>2, Owned, RemoveKeeps
  <1>5. ASSUME NEW ids \in IdList, NEW s \in Statuses,
               \/ sslStatusChange(ids, s) \/ blacklistStatusChange(ids, s)
               \/ softDeleteSSL(ids) \/ softDeleteBlacklist(ids)
               \/ softDeleteWorkspace(ids) \/ softDeletePlan(ids)
        PROVE  Good
    <2>1. calls' \in 0 .. MaxCalls
      BY <1>5, Calls DEF sslStatusChange, blacklistStatusChange, softDeleteSSL,
         softDeleteBlacklist, softDeleteWorkspace, softDeletePlan
    <2>2. SetStatus(ids, s) \/ SetStatus(ids, "Deleted")
      BY <1>5 DEF sslStatusChange, blacklistStatusChange, softDeleteSSL,
         softDeleteBlacklist, softDeleteWorkspace, softDeletePlan
    <2>3. ids \in SUBSET MonitorIds
      BY DEF IdList
    <2> QED
      BY <2>1, <2>2, <2>3, NoDate, SetStatusKeeps
  <1>6. CASE SSLNext
    BY <1>1, <1>2, <1>4, <1>5, <1>6, NoDate DEF SSLNext
  <1>7. CASE WorkspaceOrPlanNext
    BY <1>1, <1>3, <1>4, <1>5, <1>7, NoDate DEF WorkspaceOrPlanNext
  <1>8. CASE BlacklistNext
    BY <1>1, <1>2, <1>4, <1>5, <1>8, NoDate DEF BlacklistNext
  <1> QED
    BY <1>6, <1>7, <1>8

LEMMA Expiries == \A e \in domainInfo : e \in Nat \cup {None}
  BY MonitorsAssumption DEF domainInfo

LEMMA DomainKeeps ==
    ASSUME Inv, DomainNext
    PROVE  Good
  <1>1. ASSUME NEW u \in Users, NEW body \in Bodies, NEW e \in domainInfo, createDomain(u, body, e)
        PROVE  Good
    <2>1. /\ calls' \in 0 .. MaxCalls /\ body.url \in Urls /\ body.before \in Nat \cup {None}
          /\ e \in Nat \cup {None} /\ body.url \in {None, body.url}
          /\ Insert(u, body.url, body.url, e, body.before)
      BY <1>1, Calls, Expiries, MonitorsAssumption DEF createDomain
    <2> QED
      BY <2>1, InsertKeeps
  <1>2. ASSUME NEW u \in Users, NEW i \in MonitorIds, deleteDomain(u, i)
        PROVE  Good
    <2>1. calls' \in 0 .. MaxCalls /\ Remove(OwnedBy(u, {i}))
      BY <1>2, Calls DEF deleteDomain
    <2> QED
      BY <2>1, Owned, RemoveKeeps
  <1>3. ASSUME NEW ids \in IdList, NEW s \in Statuses,
               softDeleteDomain(ids) \/ domainStatusChange(ids, s)
        PROVE  Good
    <2>1. calls' \in 0 .. MaxCalls /\ (SetStatus(ids, s) \/ SetStatus(ids, "Deleted"))
      BY <1>3, Calls DEF softDeleteDomain, domainStatusChange
    <2>2. ids \in SUBSET MonitorIds
      BY DEF IdList
    <2> QED
      BY <2>1, <2>2, NoDate, SetStatusKeeps
  <1> QED
    BY <1>1, <1>2, <1>3, NoDate, AskKeeps, WriteKeeps DEF DomainNext

LEMMA RoundKeeps ==
    ASSUME Inv,
           \/ automatedDomainDetailsFetch \/ BlacklistRound \/ RoundStep
           \/ AbortRound \/ MonitorsCrash \/ NextDay
    PROVE  Good
  <1>1. CASE StartRound
    BY <1>1, RoundTypes, Unchanged, QuietKeeps DEF StartRound
  <1>2. ASSUME NEW url, NEW e \in Nat \cup {None}, StoreLookup(url, e) PROVE Good
    BY <1>2, LookupKeeps
  <1>3. CASE automatedDomainDetailsFetch
    BY <1>1, <1>3 DEF automatedDomainDetailsFetch
  <1>4. CASE BlacklistRound
    BY <1>1, <1>2, <1>4, NoDate DEF BlacklistRound
  <1>5. CASE ReadExpiries
    BY <1>5, RoundTypes, ReadingsType, Unchanged, QuietKeeps DEF ReadExpiries
  <1>6. CASE EndRound
    BY <1>6, RoundTypes, Unchanged, QuietKeeps DEF EndRound
  <1>7. CASE RoundStep
    BY <1>2, <1>4, <1>5, <1>6, <1>7, Expiries, AlertKeeps DEF RoundStep, updateDomainDetails
  <1>8. CASE AbortRound
    BY <1>8, RoundTypes, Unchanged, QuietKeeps DEF AbortRound
  <1>9. CASE MonitorsCrash
    BY <1>9, RoundTypes, Unchanged, QuietKeeps DEF MonitorsCrash
  <1>10. CASE NextDay
    <2>1. day' \in Day
      BY <1>10, MonitorsAssumption, Unchanged DEF NextDay, Day
    <2> QED
      BY <1>10, <2>1, RoundTypes, Unchanged, QuietKeeps DEF NextDay
  <1> QED
    BY <1>3, <1>4, <1>7, <1>8, <1>9, <1>10

(***************************************************************************)
(* Inv is inductive.                                                       *)
(***************************************************************************)
LEMMA InitInv == MonitorsInit => Inv
  <1> SUFFICES ASSUME MonitorsInit PROVE Inv
    OBVIOUS
  <1>1. \A i \in MonitorIds : rows[i] = FreeMonitor /\ FreeMonitor.state = "free"
    BY DEF MonitorsInit, FreeMonitor
  <1>2. \A r \in Updates : update[r] = NoUpdate /\ update[r].pc = "idle"
    BY NoUpdateType DEF MonitorsInit
  <1>3. NoRound \in Round
    BY DEF NoRound, Round
  <1>4. 0 \in Day /\ 0 \in 0 .. MaxCalls
    BY MonitorsAssumption DEF Day
  <1>5. MonitorsTypeOK
    BY <1>1, <1>2, <1>3, <1>4, FreeRow, NoUpdateType DEF MonitorsInit, MonitorsTypeOK
  <1>6. VerdictsHold
    BY <1>1 DEF VerdictsHold, Stored
  <1>7. ReadsCurrent
    BY <1>2 DEF ReadsCurrent, Current
  <1> QED
    BY <1>5, <1>6, <1>7 DEF Inv

LEMMA NextKeeps == Inv /\ [MonitorsNext]_monitorVars => Good
  <1> SUFFICES ASSUME Inv, [MonitorsNext]_monitorVars PROVE Good
    OBVIOUS
  <1>1. CASE UNCHANGED monitorVars
    BY <1>1, Unchanged, QuietKeeps DEF monitorVars
  <1>2. CASE MonitorsNext
    BY <1>2, PlainKeeps, DomainKeeps, RoundKeeps DEF MonitorsNext
  <1> QED
    BY <1>1, <1>2

LEMMA Inductive == MonitorsSpec => []Inv
  <1>1. Inv /\ [MonitorsNext]_monitorVars => Inv'
    BY NextKeeps DEF Good
  <1> QED
    BY <1>1, InitInv, PTL DEF MonitorsSpec

\* Rows, requests and rounds stay well formed in every table.
THEOREM TypeCorrect == MonitorsSpec => []MonitorsTypeOK
  <1>1. Inv => MonitorsTypeOK
    BY DEF Inv
  <1> QED
    BY <1>1, Inductive, PTL

\* VerdictsHold: an alert status is the verdict on the row's own values.
THEOREM VerdictsAreRight == MonitorsSpec => []VerdictsHold
  <1>1. Inv => VerdictsHold
    BY DEF Inv
  <1> QED
    BY <1>1, Inductive, PTL

\* LookupsFollowUrls: no lookup is stored with a row of another URL.
THEOREM LookupsAreOfUrls == MonitorsSpec => LookupsFollowUrls
  <1>1. Inv /\ [MonitorsNext]_monitorVars => [LookupsFollow]_monitorVars
    BY NextKeeps DEF Good
  <1>2. MonitorsSpec => [][LookupsFollow]_monitorVars
    BY <1>1, Inductive, PTL DEF MonitorsSpec
  <1> QED
    BY <1>2 DEF LookupsFollowUrls, LookupsFollow

\* MovesAsAsked: a domain moves as its owner asked, or by a stale read.
THEOREM MovesAreAsked == MonitorsSpec => MovesAsAsked
  <1>1. Inv /\ [MonitorsNext]_monitorVars => [AskedFor]_monitorVars
    BY NextKeeps DEF Good
  <1>2. MonitorsSpec => [][AskedFor]_monitorVars
    BY <1>1, Inductive, PTL DEF MonitorsSpec
  <1> QED
    BY <1>2 DEF MovesAsAsked, AskedFor
=============================================================================
