------------------------------ MODULE Listings ------------------------------
(***************************************************************************)
(* The paginated listings.  A client walks one of them page by page, each  *)
(* page a request of its own, while rows come and go, until a page is not  *)
(* full.  A page is a window of the rows in the order of the listing: skip *)
(* and take, or a slice.                                                   *)
(*                                                                         *)
(* Some listings look every row of the page up once more, after the query  *)
(* that found it: Promise.all refuses the whole page when one such look    *)
(* fails.                                                                  *)
(*                                                                         *)
(* Owner, status and filters choose which rows belong to the table walked; *)
(* the columns shown, the total (a statement of its own) and the counts    *)
(* listed with subscribers, which are never refused, do not matter here.   *)
(***************************************************************************)
EXTENDS Platform, Naturals, FiniteSets

CONSTANTS
    Items,           \* ids a row of the listing may have
    Listing,         \* the listings walked in this instance
    PageSizes,       \* the page sizes asked for
    MaxPages,        \* bound: pages asked for in one walk
    MaxEvents        \* bound: rows coming or going during one walk

ASSUME ListingsAssumption ==
    /\ Items \subseteq Nat /\ IsFiniteSet(Items)
    /\ PageSizes \subseteq Nat \ {0}
    /\ MaxPages \in Nat /\ MaxEvents \in Nat

VARIABLES
    listing,         \* which one, its order and its page size; never changes
    table,           \* the rows that belong to it
    walk,            \* the client's walk through it
    seen,            \* history: how often the walk showed each row
    shown,           \* history: how many rows its pages held
    steady,          \* history: the rows there since the walk began
    events           \* history: rows added, removed and renamed during the walk

listingVars == <<listing, table, walk, seen, shown, steady, events>>

\* order: by id, or by a column that all rows have in common, so that the
\* database may return them in any order, and in another one the next time.
Order == {"ascending", "descending", "tied"}

Setting == [name: Listing, order: Order, limit: PageSizes]

\* page: the pageNumber of the next request; rows: found by its first query;
\* renamed: rows whose URL changed since.
Walk ==
    [pc: {"page", "look", "done", "refused"}, page: 1 .. MaxPages + 1,
     rows: SUBSET Items, renamed: SUBSET Items]

Event == [added: 0 .. MaxEvents, removed: 0 .. MaxEvents]

ListingsTypeOK ==
    /\ listing \in Setting
    /\ table \subseteq Items
    /\ walk \in Walk
    /\ seen \in [Items -> 0 .. MaxPages]
    /\ shown \in Nat
    /\ steady \subseteq table
    /\ events \in Event

\* Listings that put the newest first, whatever the client asks for.
NewestFirst ==
    {"getAllWebsiteAlert", "getIncidentData", "getResolveData",
     "websiteMeasurements", "sslMeasurements"}

ListingsInit ==
    /\ listing \in {s \in Setting : s.name \in NewestFirst => s.order = "descending"}
    /\ table \in SUBSET Items
    /\ walk = [pc |-> "page", page |-> 1, rows |-> {}, renamed |-> {}]
    /\ seen = [i \in Items |-> 0]
    /\ shown = 0
    /\ steady = table
    /\ events = [added |-> 0, removed |-> 0]

(***************************************************************************)
(* The window of a page.  Every listing computes it the same way.          *)
(***************************************************************************)
\* pageNumber == 1 ? 0 : pageNumber
Page(n) == IF n = 1 THEN 0 ELSE n

\* Mutant: pages counted from 0, except for the first.
SkipWhole(n, limit) == Page(n) * limit

\* page > 0 ? page * limit - limit : page
Skip(n, limit) ==
    IF Page(n) > 0 THEN Page(n) * limit - limit ELSE Page(n)

Precedes(j, i) == IF listing.order = "ascending" THEN j < i ELSE j > i

Position(i) == Cardinality({j \in table : Precedes(j, i)})

\* How many rows are left for the page.
Due(skip, limit) ==
    IF Cardinality(table) <= skip THEN 0
    ELSE IF Cardinality(table) <= skip + limit THEN Cardinality(table) - skip
    ELSE limit

\* The pages the database may return; for tied rows any rows, as many as due.
Windows(skip, limit) ==
    IF listing.order = "tied"
    THEN {rows \in SUBSET table : Cardinality(rows) = Due(skip, limit)}
    ELSE {{i \in table : skip <= Position(i) /\ Position(i) < skip + limit}}

Show(rows) ==
    /\ seen' = [i \in Items |-> IF i \in rows THEN seen[i] + 1 ELSE seen[i]]
    /\ shown' = shown + Cardinality(rows)
    /\ walk' = [pc |-> IF Cardinality(rows) < listing.limit THEN "done" ELSE "page",
                page |-> walk.page + 1, rows |-> {}, renamed |-> {}]
    /\ UNCHANGED <<listing, table, steady, events>>

Ask(name) == walk.pc = "page" /\ walk.page <= MaxPages /\ listing.name = name

ShowPage(name) ==
    /\ Ask(name)
    /\ \E rows \in Windows(Skip(walk.page, listing.limit), listing.limit) : Show(rows)

(***************************************************************************)
(* Listings of one statement.  Those of the measurements slice what the    *)
(* time series database answers, newest first.                             *)
(***************************************************************************)
paginateDomain == ShowPage("paginateDomain")

paginateBlacklist == ShowPage("paginateBlacklist")

paginateWorkspace == ShowPage("paginateWorkspace")

paginatedPlan == ShowPage("paginatedPlan")

getActivityLog == ShowPage("getActivityLog")

findAllSubscriberTeam == ShowPage("findAllSubscriberTeam")

findAllSubscriberUser == ShowPage("findAllSubscriberUser")

getAllWebsiteAlert == ShowPage("getAllWebsiteAlert")

getIncidentData == ShowPage("getIncidentData")

getResolveData == ShowPage("getResolveData")

websiteMeasurements == ShowPage("websiteMeasurements")

sslMeasurements == ShowPage("sslMeasurements")

(***************************************************************************)
(* Listings that look each row up again: a website by URL (checkWebsite    *)
(* in getQuery), an SSL watch by its id and then its URL (findOne and      *)
(* checkSsl in getQueryWithPaginate).                                      *)
(***************************************************************************)
Find(name) ==
    /\ Ask(name)
    /\ \E rows \in Windows(Skip(walk.page, listing.limit), listing.limit) :
          walk' = [walk EXCEPT !.pc = "look", !.rows = rows]
    /\ UNCHANGED <<listing, table, seen, shown, steady, events>>

LookAgain(name, lost) ==
    /\ walk.pc = "look" /\ listing.name = name
    /\ IF lost = {} THEN Show(walk.rows)
       ELSE /\ walk' = [walk EXCEPT !.pc = "refused"]
            /\ UNCHANGED <<listing, table, seen, shown, steady, events>>

paginateWebsite ==
    \/ Find("paginateWebsite")
    \/ LookAgain("paginateWebsite", (walk.rows \ table) \cup walk.renamed)

getAllSSL ==
    \/ Find("getAllSSL")
    \/ LookAgain("getAllSSL", walk.rows \ table)

(***************************************************************************)
(* Other requests.                                                         *)
(***************************************************************************)
Walking == walk.pc \in {"page", "look"} /\ events.added + events.removed < MaxEvents

AddRow(i) ==
    /\ Walking
    /\ i \notin table
    /\ table' = table \cup {i}
    /\ events' = [events EXCEPT !.added = events.added + 1]
    /\ UNCHANGED <<listing, walk, seen, shown, steady>>

RemoveRow(i) ==
    /\ Walking
    /\ i \in table
    /\ table' = table \ {i}
    /\ steady' = steady \ {i}
    /\ events' = [events EXCEPT !.removed = events.removed + 1]
    /\ UNCHANGED <<listing, walk, seen, shown>>

RenameRow(i) ==
    /\ walk.pc = "look" /\ i \in walk.rows \ walk.renamed
    /\ walk' = [walk EXCEPT !.renamed = walk.renamed \cup {i}]
    /\ UNCHANGED <<listing, table, seen, shown, steady, events>>

ListingsNext ==
    \/ paginateDomain \/ paginateBlacklist \/ paginateWorkspace \/ paginatedPlan
    \/ getActivityLog \/ findAllSubscriberTeam \/ findAllSubscriberUser
    \/ getAllWebsiteAlert \/ getIncidentData \/ getResolveData
    \/ websiteMeasurements \/ sslMeasurements
    \/ paginateWebsite \/ getAllSSL
    \/ \E i \in Items : AddRow(i) \/ RemoveRow(i) \/ RenameRow(i)

ListingsSpec == ListingsInit /\ [][ListingsNext]_listingVars

(***************************************************************************)
(* Properties.                                                             *)
(***************************************************************************)
\* A walk to the end, in an order that tells rows apart, misses no more of the
\* rows that were there all the time than rows were removed meanwhile, and
\* shows no more rows twice than were added: one row crosses a page boundary
\* each time.
WalkShowsAll ==
    (walk.pc = "done" /\ listing.order # "tied") =>
       /\ Cardinality({i \in steady : seen[i] = 0}) <= events.removed
       /\ Cardinality({i \in Items : seen[i] > 1}) <= events.added

\* Even in an order that leaves rows tied, pages shown to a walk that nothing
\* disturbed hold as many rows as there are: for each row that is shown twice
\* another one is missing.
TiedWalkShowsAsMany ==
    (walk.pc = "done" /\ events.added + events.removed = 0) =>
       shown = Cardinality(table)
=============================================================================
