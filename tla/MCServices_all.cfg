SPECIFICATION MCSpec
CONSTANTS
    Users = {u1, u2}
    None = None
    Faults = TRUE
    here = here
    there = there
    Owners = {u1}
    MonitorIds = {1, 2}
    Urls = {here, there}
    ExpiryDays = {2}
    Bodies <- MCBodies
    Updates = {r1, r2}
    MaxDay = 1
    MaxCalls = 3
    Items = {1, 2, 3}
    Listing = {"paginateWebsite", "paginateDomain", "paginateBlacklist", "getAllSSL", "paginateWorkspace", "paginatedPlan", "getActivityLog", "findAllSubscriberTeam", "findAllSubscriberUser", "getAllWebsiteAlert", "getIncidentData", "getResolveData", "websiteMeasurements", "sslMeasurements"}
    PageSizes = {1, 2}
    MaxPages = 4
    MaxEvents = 2
    Entries = {e1, e2}
    Lights = {"green", "red"}
    MaxChanges = 2
    Instants <- MCInstants
    Nows <- MCNows
    Mails = {m1, m2}
    MaxDeaths = 2
    Sites = {s1, s2}
    Alarms = {i1, i2}
    Resolvers = {r1, r2}
    Addresses = {a1}
    Secrets = {p1, p2}
    Desks = {r1, r2}
INVARIANT ServicesTypeOK
INVARIANT VerdictsHold
INVARIANT WalkShowsAll
INVARIANT TiedWalkShowsAsMany
INVARIANT OverviewAddsUp
INVARIANT BarsShowFirstReadings
INVARIANT HourLabelsTell
INVARIANT LastMonthCharted
INVARIANT OneCopy
INVARIANT LossExplained
INVARIANT FlagsAnswered
PROPERTY LookupsFollowUrls
PROPERTY MovesAsAsked
PROPERTY LoweredByRemover
PROPERTY AdminsByRight
PROPERTY RoundEnds
PROPERTY MailSettles
CHECK_DEADLOCK FALSE
