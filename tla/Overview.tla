------------------------------ MODULE Overview ------------------------------
(***************************************************************************)
(* The status overviews: getStatusCount of a registry counts the rows of   *)
(* a user in five or six statements, one after the other, while the rows   *)
(* go on changing.                                                         *)
(***************************************************************************)
EXTENDS Platform, Naturals, FiniteSets, Sequences

CONSTANTS
    Entries,         \* ids of rows of the user
    Lights,          \* the lights a row may show here, of green, yellow and red
    MaxChanges       \* bound: statements of others during one overview

ASSUME OverviewAssumption ==
    /\ Lights \subseteq {"green", "yellow", "red"}
    /\ IsFiniteSet(Entries)
    /\ MaxChanges \in Nat

VARIABLES
    registry,        \* whose overview it is; never changes
    entry,           \* the rows of the user
    answers,         \* the numbers counted so far
    changes          \* history: changes of rows since the overview began

overviewVars == <<registry, entry, answers, changes>>

\* status: changeStatus writes any member of StatusField; Draft stands here for
\* those the overview asks nothing about, Enabled, Disabled and Banned as well.
\* light: the alert status, or for a certificate how validUntil compares with
\* the time of the statement; None for NULL.  Of a row that SELECT does not
\* see (Deleted, or not there yet) nothing else matters.
Entry ==
    [status: {"Active", "Inactive", "Draft"}, light: Lights \cup {None}]
        \cup [status: {"Deleted"}, light: {None}]

\* getCount() skips the rows with deletedAt.
InSelect(e) == e.status # "Deleted"

\* Mutant: whatever is not Active counts as disabled.
MatchesNotActive(e, what) ==
    /\ InSelect(e)
    /\ CASE what = "count"   -> TRUE
         [] what = "enable"  -> e.status = "Active"
         [] what = "disable" -> e.status # "Active"
         [] OTHER            -> e.light = what

Matches(e, what) ==
    /\ InSelect(e)
    /\ CASE what = "count"   -> TRUE
         [] what = "enable"  -> e.status = "Active"
         [] what = "disable" -> e.status = "Inactive"
         [] OTHER            -> e.light = what

\* The statements, in the order they are awaited.
websiteOverview == <<"count", "enable", "disable", "green", "yellow", "red">>

domainOverview == <<"count", "enable", "disable", "green", "yellow", "red">>

blacklistOverview == <<"count", "enable", "disable", "green", "yellow", "red">>

\* certificates, valid, inactive, expired; expiringSoon, counted last from
\* another column, is left out.
sslOverview == <<"count", "green", "disable", "red">>

Statements ==
    [website |-> websiteOverview, domain |-> domainOverview,
     blacklist |-> blacklistOverview, ssl |-> sslOverview]

OverviewTypeOK ==
    /\ registry \in DOMAIN Statements
    /\ entry \in [Entries -> Entry]
    /\ answers \in Seq(0 .. Cardinality(Entries))
    /\ Len(answers) <= Len(Statements[registry])
    /\ changes \in 0 .. MaxChanges

OverviewInit ==
    /\ registry \in DOMAIN Statements
    /\ entry \in [Entries -> Entry]
    /\ answers = <<>>
    /\ changes = 0

Over == Len(answers) = Len(Statements[registry])

getStatusCount ==
    /\ ~Over
    /\ answers' = Append(answers,
          Cardinality({i \in Entries : Matches(entry[i], Statements[registry][Len(answers) + 1])}))
    /\ UNCHANGED <<registry, entry, changes>>

\* A row is added, hidden or rewritten, the job writes an alert status, or
\* the validity of a certificate ends.
EntryChanges(i) ==
    /\ ~Over /\ changes < MaxChanges
    /\ changes' = changes + 1
    /\ \E e \in Entry \ {entry[i]} : entry' = [entry EXCEPT ![i] = e]
    /\ UNCHANGED <<registry, answers>>

OverviewNext == getStatusCount \/ \E i \in Entries : EntryChanges(i)

OverviewSpec == OverviewInit /\ [][OverviewNext]_overviewVars

(***************************************************************************)
(* Properties.                                                             *)
(***************************************************************************)
\* The number an overview answered for a statement; none counts as zero.
Counted(what) == {k \in DOMAIN answers : Statements[registry][k] = what}

Said(what) == IF Counted(what) = {} THEN 0 ELSE answers[CHOOSE k \in Counted(what) : TRUE]

\* The rows that no part of an overview counts: neither Active nor Inactive.
Neither(e) == InSelect(e) /\ e.status \notin {"Active", "Inactive"}

\* The parts of an overview add up to its count, except for one row per change
\* that came between the statements - once the rows of some other status are
\* added, which the count has and neither part.  An overview that nothing
\* disturbed never shows more rows in all lights than there are, and its enabled
\* and disabled rows fall short of the count by those others exactly.
OverviewAddsUp ==
    LET parts == Said("enable") + Said("disable")
                     + Cardinality({i \in Entries : Neither(entry[i])})
    IN Over => /\ parts <= answers[1] + changes
               /\ registry # "ssl" => answers[1] <= parts + changes
               /\ Said("green") + Said("yellow") + Said("red") <= answers[1] + changes
=============================================================================
