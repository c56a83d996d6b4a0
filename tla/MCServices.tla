----------------------------- MODULE MCServices -----------------------------
(***************************************************************************)
(* One instance of each of the smaller components.  They share no table,   *)
(* so an interleaving of two of them is no more than the behaviours of     *)
(* each: part tells which one runs, and the others stay where they start.  *)
(***************************************************************************)
EXTENDS Monitors, Listings, Overview, MCChart, MailQueue, Incidents, Admins, TLC

CONSTANTS here, there   \* two URLs

VARIABLE part

serviceVars ==
    <<part, monitorVars, listingVars, overviewVars, chart, mailVars, incidentVars,
      adminVars>>

Parts == {"monitors", "listings", "overview", "chart", "mail", "incidents", "admins"}

\* A request that gives the URL here, one that gives there, one that moves nothing.
MCBodies ==
    {[url |-> here, before |-> None], [url |-> there, before |-> 2],
     [url |-> None, before |-> 2]}

MCInit ==
    /\ part \in Parts
    /\ MonitorsInit /\ (part # "monitors" => kind = "plan")
    /\ ListingsInit
    /\ listing.limit # 1 => listing.name \in {"paginateDomain", "paginateWebsite", "getIncidentData"}
    /\ part # "listings" =>
          table = {} /\ listing = [name |-> "paginateDomain", order |-> "tied", limit |-> 1]
    /\ OverviewInit
    /\ part # "overview" =>
          registry = "ssl" /\ \A i \in Entries : entry[i].status = "Deleted"
    /\ ChartInit
    /\ part # "chart" =>
          chart = [filter |-> "1", now |-> 4820, readings |-> {}]
    /\ MailQueueInit
    /\ IncidentsInit
    /\ AdminsInit

MonitorsRuns ==
    /\ part = "monitors" /\ MonitorsNext
    /\ UNCHANGED <<part, listingVars, overviewVars, chart, mailVars, incidentVars, adminVars>>

ListingsRuns ==
    /\ part = "listings" /\ ListingsNext
    /\ UNCHANGED <<part, monitorVars, overviewVars, chart, mailVars, incidentVars, adminVars>>

OverviewRuns ==
    /\ part = "overview" /\ OverviewNext
    /\ UNCHANGED <<part, monitorVars, listingVars, chart, mailVars, incidentVars, adminVars>>

MailQueueRuns ==
    /\ part = "mail" /\ MailQueueNext
    /\ UNCHANGED <<part, monitorVars, listingVars, overviewVars, chart, incidentVars, adminVars>>

IncidentsRuns ==
    /\ part = "incidents" /\ IncidentsNext
    /\ UNCHANGED <<part, monitorVars, listingVars, overviewVars, chart, mailVars, adminVars>>

AdminsRun ==
    /\ part = "admins" /\ AdminsNext
    /\ UNCHANGED <<part, monitorVars, listingVars, overviewVars, chart, mailVars, incidentVars>>

MCNext == MonitorsRuns \/ ListingsRuns \/ OverviewRuns \/ MailQueueRuns \/ IncidentsRuns
          \/ AdminsRun

MCSpec ==
    /\ MCInit /\ [][MCNext]_serviceVars
    /\ WF_monitorVars(part = "monitors" /\ RoundStep)
    /\ WF_mailVars(part = "mail" /\ MailStep)

\* Every variable of the services has its type.
ServicesTypeOK ==
    /\ MonitorsTypeOK /\ ListingsTypeOK /\ OverviewTypeOK
    /\ MailQueueTypeOK /\ IncidentsTypeOK /\ AdminsTypeOK
=============================================================================
