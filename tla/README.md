# Verification of the Monitrix back end

This directory holds TLA+ models of the NestJS server under `src/`, the TLC
configurations that check them on small instances, and TLAPS proofs about them.
Paths below are relative to `src/src/`; `subscriber/subscriber-user/` is written
`SU/`.

The server keeps all its state in Postgres (TypeORM 0.3) and hands mails to a Bull
queue in Redis. There is **no database transaction anywhere** in the code, hardly a
unique column, and no lock. A request handler is an `async` function that runs until
an `await`; at each `await` any other handler may run, the statement may be rejected,
and the process may die. Every component therefore has the same difficulty: what a
handler has read may no longer hold when it writes, and what it has half written
stays. The models take one database or queue statement as one atomic step, keep the
handlers in flight as a variable, and let them interleave freely.

## Inventory

| component | state | operations | interacts with | what is hard | what makes it correct |
|---|---|---|---|---|---|
| `WebsiteService` (`SU/website`) | tables `website`, `websiteAlert` | create, update, status change, soft and hard delete of websites; create, update, delete of alert rules; listings, counts, chart; deleting incidents and resolve records | reads permissions and writes the activity log through `SubscriberUserService`; asks the URL over HTTP; the monitor worker reads both tables | duplicate checks apart from the writes they guard; rules wiped and saved again one by one; two columns that both say "deleted" | one visible website per URL, one rule per type, rules never lost, status and `deletedAt` agree, only the owner moves a URL |
| `IntegrationService` (`SU/integrations`) | JSON column `integrationIds`, table `integrationConfigure` | install or uninstall, configure, list | column read and written through `SubscriberUserService` | read-modify-write of a column around a write of another table | the two stores agree; a call is a toggle |
| Account lifecycle (`SU/subscriber-user.service.ts`) | table `subscriberUser` (status, code, parent) | signupLocal, verifyOtp, resendOtp, createTeam, deleteTeam, bannedUserByAdmin | mail queue, `WorkspaceService`, `IntegrationService` | code mailed before the row exists; find by code and write by id; provisioning that can break off | a code activates a Draft only; a ban stands; an account is provisioned; the code that counts is mailed |
| Passwords (same file) | columns `password`, `passResetToken`, `passResetTokenExpireAt` | forgotPass, changePasswordByForgotPass, passwordChanged | mail queue | token looked up in one statement and cleared by id in another; an expiry column that is never loaded | a token resets once and in time; the last link mailed works |
| Sessions (same file; `monitrix-auth/auth`) | column `hashedRt` of users and admins | sign in, refresh, log out, impersonate | JWT and bcrypt libraries | sign-in, refresh and logout write the same column | after logout nothing refreshes; a refresh keeps the session alive |
| `WorkspaceService` | table `workspace` | create, rename, delete, soft delete, list | called by sign-up and team creation | the owner may be gone by the time of the insert | an account has a workspace |
| `DomainService` and its 3 AM job | table `domain` | create, update, status, deletes, listing; nightly details and alert status | whois, DNS | long loop of lookups and writes while users edit the rows; one exception ends it | alert status follows from expiry date and threshold |
| `BlacklistService` and its 1 AM job | table `blacklist` | as domains; nightly DNSBL lookups | DNS | the same loop; lookups catch their errors | info belongs to the URL it is stored with |
| `SSLService` | table `ssl` | as websites, without rules | HTTPS | as websites | as websites |
| Incidents (`WebsiteService`) | tables `incident`, `websiteResolve` | deleteIncident, deleteResolve | the monitor worker inserts into both | look, delete and flag update are three statements | a raised flag can be resolved; only the request that removed the record lowers it |
| Listings, overviews, chart (all services) | none; they read the tables | page by page listings, counts in a row, bars of readings | all tables, Influx | rows come and go between pages and between counts; offset, hour and month arithmetic | a walk misses and repeats rows only for a reason; counts add up; a bar per label |
| Admin accounts (`monitrix-auth/auth`, `modules/admin/user`) | table `user` | sign up, sign in, refresh, log out, change password | mail queue | as the sessions and passwords of subscribers | passwords and sessions change by right |
| Plans (`modules/admin/plan`) | table `plan` | create, update, delete, soft delete, list | none | as workspaces | as workspaces |
| Other admin services | servers, integration catalogue, blacklist servers | one insert, single-row reads | catalogue read by `IntegrationService` | | |
| Mail queue (`modules/queue-mail`) | Bull queue in Redis | add with a delay of 2 s; consume | SMTP | the consumer does not wait for the mail | every job leads to an attempt; what a failed attempt leads to |
| Guards, strategies, controllers, DTOs | none | decode tokens, route, validate | all services | none of its own | inputs the handlers may assume |
| Monitor worker | incidents, resolve records, Influx | writes them | not in this repository | | |
| Bootstrap, configuration, loggers, filters, templates | none | | | | |

## Modules

| module | what it is |
|---|---|
| `Website` | `WebsiteService`'s writing operations on websites and alert rules |
| `WebsiteProofs` | type correctness, agreement of the deletion columns, owners, URL safety |
| `WebsiteRuleProofs` | rule safety, deletion for good, rules never lost |
| `Installation` | abstract: one call toggles one integration of one user |
| `Integration` | `updateIntegration` and `updateIntegrationConfig`, shown to implement `Installation` when calls do not overlap |
| `IntegrationProofs` | the same, and what holds when they do |
| `Registration` | sign-up, verification, resend, team accounts, status, provisioning |
| `RegistrationProofs` | codes, bans, provisioning, mails |
| `Credentials` | passwords, reset links and stored sessions of subscribers |
| `CredentialsProofs` | links, resets, changes of password, sessions |
| `Platform` | the process, its users and faults, as the modules below share them |
| `Monitors` | the tables of domains, blacklist watches, certificates, workspaces and plans, and the two nightly jobs |
| `MonitorsProofs` | lookups, verdicts, and moves of domains |
| `MailQueue` | a queued mail from `queue.add` to the transport's answer, under deaths of the process |
| `Incidents` | `deleteIncident` and `deleteResolve` against the worker that raises incidents |
| `Listings` | a client's walk through the pages of each of fourteen listings while rows come and go |
| `Overview` | the counts of `getStatusCount` and its kin, one statement after the other |
| `Chart` | `getSingleChartData` as a function of its readings |
| `ReadsProofs` | walks, sums of overviews, bars and labels of the chart |
| `Admins` | accounts, passwords and sessions of admins |
| `MCChart` | the readings and times of the chart that are checked |
| `MCServices` | one instance of each component from `Monitors` to `Admins` |
| `ServicesProofs` | copies and losses of mails, flags of incidents, admins, and all of `MCServices` side by side |
| `MCAccounts` | one instance of `Registration` and one of `Integration` |
| `MCWebsite`, `MCIntegration`, `MCCredentials` | symmetry and the sets of operations that the configurations use |

### How state and actions correspond to the code

A table is a function from ids (handed out by a sequence, never reused) or a set of
rows with ids. A row id is `free` until the sequence hands it out, and `gone` after a
hard delete. `hidden` means `deletedAt` is set: TypeORM's `find*`, `select` and
`getCount` skip such rows, its `update` and `delete` do not, and the models follow
that distinction statement by statement (`Visible` against `HasRow`).

`req[r]` (in `Integration` `call[r]`) is a handler in flight: `pc` names its next statement and the other fields
are the local variables that statement uses. A handler that only reads before it
refuses enters the model at the first statement whose answer it later relies on;
refusals before it change nothing. A handler that answers returns to `Idle`. `Fail`
(`CallFails`) is a rejected statement (a lost connection, a NOT NULL or
unique violation not otherwise modelled) or the end of the process as this handler
sees it; `Crash` ends all handlers at once. `ReadOnly` stands for the operations
that write nothing, and is allowed only when no handler is in flight, so that a
handler left without a next step is reported as a deadlock.

**Website.** `createWebsite` is `CheckCreate`, `InsertWebsite`, `SaveLoadTime`,
`SaveResponseCode`, and `SaveSearchString` for a body with a search string.
`updateWebsite` is `FindForUpdate`, `CheckUpdate` or `RefuseUpdate`, `UpdateRow`,
`WipeAlerts`, and then the same three saves. The duplicate check counts visible rows
of any owner. The UPDATE names id and owner, and matching no row is not an error
until the log entry is built at the end; so somebody else's update still wipes and
renews the rules. Rules are saved from the body: without `loadTime` or `occurrences`
the NOT NULL columns reject the first (`RejectLoadTime`). Status change and soft
delete are single UPDATEs by ids; hard delete leaves the rules behind.

**Integration.** `updateIntegration` is `ReadIds`, then `DeleteConfiguration` or
`InsertConfiguration` according to the list it has read, then `SaveIds`, which writes
that list, changed in one place, over whatever is there.

**Registration.** `signupLocal` is `CheckSignup`, `MailSignup`, `SaveSignup`,
`UpdateRtHash`, `FindOwner`, `SaveWorkspace`, `InstallFirst`; `createTeam` joins it at `SaveTeam` and
ends with the workspace. `resendOtp` is `FindDraft`, `WriteCode`, `MailCode`;
`verifyOtp` is `FindCode`, `Verify`. Codes are distinct values of a set, since a code
is drawn at random. The hour at which a code expires is left out: a late verification
is refused and writes nothing, so it adds no behaviour. Also left out: changes of
address, and the statements inside the first `updateIntegration`, which `Integration`
has. `UpdateRtHash` is here a statement at which a sign-up may break off; what it
writes is in `Credentials`.

**Credentials.** `forgotPass` is `ForgotPass`, `UpdatePassResetToken`, `MailLink`;
`changePasswordByForgotPass` is `ValidatePassResetToken`, `UpdateUserPasswordData`;
`passwordChanged` is `CompareUserPassword`, `PasswordChanged`. The UPDATE of
`forgotPass` goes by address, which is unique and which nobody changes here. `Expire`
lets the hour of a token pass; no guard reads it, because the column the code compares
is declared `select: false` and comes back undefined. `signinLocal` and
`loginToUserFromAdmin` end with `UpdateRtHash`, and so does, before it goes on to the
workspace, `signupLocal`: initially any handler may be a sign-up that has just saved its
account, which is Draft and has no hash (`SignupLocal`; `Banned` stands for every status
but Active). `refreshTokens` calls the same function
with an id where it reads the property `id` of its argument; TypeORM binds `undefined`
as NULL, no row has that id, and the step is `UpdateNoRtHash`. A stored hash is a
Boolean: bcrypt compares 72 bytes, and the first 72 bytes of a user's refresh token
depend on the id and the address alone, so every token of the user matches any hash of
it. Left out: mails that carry no link, deletion, changes of address (and so the look
that `updateTeam` takes for the address). `Users` are team members; for a subscriber
there is no `updateTeam`, so what holds for members holds for subscribers.

**Monitors.** The five services keep one table each with the same life cycle, so one
module has the statements (`Insert`, `SetUrl`, `SetStatus`, `Remove`) and each service
its operations with their own WHERE clauses; `kind` picks the service of an instance.
Only the update of a domain spans two statements that depend on each other:
`updateDomain` reads the row, of any owner, and `WriteDomain` writes by id and owner,
with the URL it read if the body has none. A round of the 3 AM job is
`automatedDomainDetailsFetch` (`SELECT DISTINCT`), one `updateDomainDetails` for each
URL, which is the lookup and the UPDATE by URL, `ReadExpiries`, one
`updateDomainAlert` for each reading, `EndRound`. The 1 AM job of the blacklist is the
first half of that. `AbortRound` is an exception anywhere in a round (whois lookups
throw; DNS lookups are caught), `MonitorsCrash` takes requests and round along. Days
are numbers, 3 AM of day *d* is hour 24*d* + 3. A round is assumed to end within its
day. The history fields `datedBy`, `judged`, `touched` and `moved` remember whose
expiry a row holds, when its verdict was computed, whether the values behind it have
changed since, and whether a request has been overtaken.

**MailQueue.** `sendMail` adds a job, `DelayOver` makes it wait, `TakeJob` starts it,
`readOperationJob` hands the mail to the transport, and `CompleteJob` is Bull's note
that the handler has returned - which it does without waiting for `MailSent` or
`MailRefused`. `MailProcessDies` empties worker and transport and leaves Redis;
`JobStalls` is Bull finding an active job without a worker, which runs it once more and
then gives up. Bull is modelled with the defaults the code leaves it: no `attempts`,
one job at a time, `maxStalledCount` 1. The other modules only say that a mail has been
handed over.

**Incidents.** `deleteResolve` is a look (`deleteResolve`), `DeleteRecord` and, if a row
was deleted, `ClearFlags`. `RaiseAlarm` is the worker, as the code here relies on it.

**Listings, Overview, Chart.** A walk asks page after page with the offset of the code
(page 1 is carried as 0); `paginateWebsite` and `getAllSSL` look each row of a page up
again in a step of their own (`LookAgain`), which may refuse the page. Which rows are
listed is left to the table; what is modelled is the order, the offset and the pages.
An order by a column that rows share (`tied`) leaves the database every choice, anew
for every page. `shown`, `seen`, `steady` and `events` are history. `Overview` counts
the rows of one user, statement by statement. The status change stores whatever member of
`StatusField` it is asked to, so a row may be neither Active nor Inactive (`Neither`;
`Draft` stands for all such): it is in the count and in no part of it.
`Chart` has no steps: every set of readings, filter and time is an initial state, a
reading being its place in the sequence `Instants`.
Instants are half hours in a calendar of twelve months of thirty days, the same for
every time zone; leap years and months of other lengths change nothing the
properties speak of.

**Admins.** `signupLocal` is a look, `SaveAdmin` and `updateRtHash`; `signinLocal`
compares and then stores; `passwordChanged` compares, `ChangePassword` writes by id,
`MailAdmin` tells the admin. As with subscribers a stored hash is a Boolean.

**History.** Fields whose comment says *history* (`stale`, `unchecked`, `loose`,
`halfMade`, `unsent`, `late`, and the sets `spent`, `replaced`, `wiped`, `broken`) are
not in the code. No guard reads them; they remember what the properties need to say
*when* something may go wrong: `stale` marks a handler
whose row or check somebody else has since overtaken, `unchecked` and `loose` the rows
such a handler wrote.

## Runs

| run | question | instance | result |
|---|---|---|---|
| `website_urls` | Which interleavings let two visible websites share a URL? Who moves one? Do the deletion columns agree? | 2 users, 2 URLs, 2 website ids, 2 handlers, faults | holds, 568,978 states |
| `website_rules` | Which interleavings leave two rules of a type? | 1 website, 2 handlers, 6 rules, all rule operations, faults, incomplete updates | holds, 1,209,068 states |
| `website_watch` | Does a website keep the rules it is watched by, and get them in the first place? | 1 website, 2 handlers, 9 rules, fair | holds, 65,141 states |
| `website_race` | Is a URL unique? | 2 ids, 1 URL, creations only | **violated** |
| `website_partial` | Does a partial update leave a watched website? | 1 handler | **violated** |
| `integration_serial` | Do the stores agree, is a call a toggle, if calls do not overlap? | 2 users, 2 integrations, 2 handlers, 4 rows, faults | holds, 45,277 states |
| `integration_lost` | Do the stores agree when calls overlap? | as above, 3 rows, no faults | **violated** |
| `accounts` | Codes, bans, provisioning, mails; and what does an installation guarantee when calls overlap? | 2 accounts, 2 addresses, 3 codes, 2 integrations, 4 rows, 2 handlers, faults | holds, 234,137 states |
| `credentials` | What takes a link away? Who changes a password? What brings a session back? | 2 users, 2 passwords, 2 tokens, 2 handlers, faults | holds, 1,318,682 states |
| `credentials_late` | Is a reset refused once its token has expired? | 1 user, 1 token, 1 handler | **violated** |
| `chart_january` | Does the chart of the last month show the last month? | the chart of `services` alone | **violated** |
| `services` | Seven questions at once, one for each of the smaller components: see below | 2 rows and 1 owner; 3 listed rows; 2 counted rows; 10 readings; 2 mails and 2 deaths; 2 incidents of 2 sites; 1 admin address; faults | holds, 269,821 states |

In `accounts` and `services` the variable `part` says which component runs; it never
changes. `accounts` has `Registration` (89,740 states) and `Integration` with overlapping
calls and faults (144,397 states) side by side: neither reads a column that the other
writes. The components of `services` share no table, so running two of them at once
would only multiply their states. What each part of `services` shows:

* monitors: no lookup ends up with another URL (`LookupsFollowUrls`); a domain moves as
  its owner asked, or back by an overtaken request (`MovesAsAsked`); an alert status is
  the verdict on the row's own values (`VerdictsHold`); every round ends (`RoundEnds`).
* listings: of the rows that stay a walk misses no more than rows were removed, and it
  repeats no more than were added (`WalkShowsAll`): each such event moves one row across
  the start of the next page. With ties it may do both at once, but an undisturbed walk
  shows as many rows as there are (`TiedWalkShowsAsMany`).
* overview: the parts exceed the count by at most one for each change in between, and
  enabled and disabled rows, with the rows of some other status added, fall short of it
  by no more (`OverviewAddsUp`). An overview of rows that nothing disturbs is thus short
  of its own count by the rows of other statuses, exactly.
* chart: one bar for each label, the earliest reading (`BarsShowFirstReadings`); hours
  are told apart (`HourLabelsTell`); from February on the month before is charted, and
  no other of the last twelve (`LastMonthCharted`). The same month of earlier years is
  charted with it, because only the number of the month is compared; January is the
  subject of `chart_january`.
* mail: at most one copy more for each death (`OneCopy`); a loss has a cause, which a
  completed job does not show (`LossExplained`); every mail is settled (`MailSettles`).
* incidents: `FlagsAnswered` and `LoweredByRemover`, with the exception the code has: a
  handler that breaks off after it removed the last record leaves flags that nothing
  lowers. What is true of an incident raised between the two writes is that its flag
  may be lowered by them while its own record still waits.
* admins: `AdminsByRight`.

The five violated properties are what a message, a DTO or a route description of the
code says; `PROJECT.json` quotes the lines under `findings`.

* `website_race`: A and B both count no row with the URL, A inserts, B inserts.
* `website_partial`: `UpdateWebsiteDto` makes every field optional and the row keeps
  what the body leaves out, but the rules are deleted and then saved from the body.
* `integration_lost`: both calls read `[]`, one writes `[i]`, the other writes `[j]`;
  the row of `i` remains, and `i` is not in the list.
* `credentials_late`: a token is stored and mailed, its hour passes, the link is used;
  the comparison under "check for pass reset token expiry" does not refuse it.
* `chart_january`: in January `getMonth() - 1` is -1, which no reading's month equals, so
  the chart of the "last 1 month" is empty. `LastMonthServed` asks for so little that it
  does not matter whether the last month is December or the last thirty days: a reading
  of both must have a bar for its day.

### Bounds

`Requests` bounds the handlers in flight: the races here are between a handler's look
and its write, so two handlers and the single-statement operations, which need no
handler, cover them; a third adds no new kind of overlap. `MaxAlerts`, `MaxRows` and
`Codes` bound the rows ever inserted and the codes ever drawn. A handler starts only
while the rows it may insert still fit (`RoomForAlerts`, `RoomForWebsite`, `RoomForRow`,
`RoomForAccount`), so the bounds never stop a handler half way and no wait is an
artefact of a bound.
`MaxAlerts = 6` lets two handlers with three rules each overlap, 9 lets a third
follow. Two URLs and two websites suffice for a row to move onto the other's URL and
back; two owners for an update by somebody else. Three codes let a sign-up, a resend
and a second sign-up overlap. Two tokens let a newer link replace an older one of the
same user, or one each stay pending for two users. `Ops` selects operations so that each run spends its
states on its own question; between them the runs take every action.

In `services`, `MaxCalls = 3` lets a row be created, taken by a request and changed by
another while a round is under way; one owner (`Owners`) and two users let somebody
else's update fail to reach the row. Two days (`MaxDay = 1`) let a second round judge a
row the first one judged. `ExpiryDays = {2}` with `before` 2 and no threshold reaches
all three verdicts. `MaxPages = 4` is more than three rows with pages of one can fill,
so a walk ends by itself; page sizes other than 1 are walked for three listings only,
one of each shape of the code (offset, second look, slice). Two changes (`MaxEvents`,
`MaxChanges`) let a row go and another come between the pages or counts. `MaxDeaths =
2` is the number after which Bull gives a job up. `Lights` leaves yellow out: it is
counted as green and red are. The readings of `Chart` lie on both sides of each of its
limits (a day, a week, thirty days, a month, a year, noon and midnight). Deadlock is not
checked in `services`: a chart, a finished walk and a settled mail stop.

Symmetry is used where model values are only compared, and never in
`website_watch`, whose properties include a liveness property.

### Fairness

`FairSpec` adds weak fairness of `Step(r)`, the next statement of a handler in flight:
Node runs every promise continuation it can, and the database answers or rejects.
No client operation is fair, and `website_watch` has no faults, since a handler that
dies has no next statement.

`MonitorsSpec` adds weak fairness of `RoundStep`, the next step of a round that has
started: lookups answer or time out, the database answers, and the loop awaits nothing
else. `MailQueueSpec` adds weak fairness of `MailStep`: Bull's timers, the consumer, and
the transport, whose connection times out. A death is not fair, and neither is any
client.

## Proofs

All theorems hold for every value of the constants that satisfies the modules'
assumptions (`WebsiteAssumption`, `IntegrationAssumption`, `RegistrationAssumption`,
`CredentialsAssumption` and those of the smaller modules: `None` and `Nobody` are none
of the other values, bounds are naturals, switches are Booleans).

* **Website, URLs** (`UrlSafety`). `SharedUrlOnlyUnchecked` is not inductive: a state
  may satisfy it with a handler about to write a URL that has been taken since. `UrlInv`
  adds `UrlLookHolds`: a handler not marked stale would still find its URL free. Each
  action either writes no visible row or marks the handlers that looked for that URL.
* **Website, rules** (`RuleSafety`). The same shape with `RuleLookHolds`, which needs
  `IdsFromSequence`: a new rule is for a website that exists, and an id names one rule.
* **Website, watching** (`StaysWatched`, `WatchedWhenQuiet`). Assuming `Undisturbed`
  (no faults, no incomplete updates, nobody edits or deletes single rules), a missing
  rule is one that a handler still intends to save; with no handler in flight none is
  missing.
* **Website, deletion and owners** (`DeletionAgrees`, `GoneStaysGone`, `OwnersMove`)
  from `TypeOK` alone.
* **Integration** (`AnswersHold`). `AnswerInv` says that a handler past its second
  statement and not overtaken finds in the table what it did there. `ImplementsToggle`
  and `StoresAgree` assume `~Overlap`: `SerialInv` says that a user has one handler,
  whose read list is the stored one; every step maps to a toggle of `Installation` or a
  stutter. `Agree` relates rows and list of one integration, also while a handler has
  changed the row and has yet to write the list. `broken` names the integrations on
  which a handler got no further; the theorem leaves them out for good, since the next
  call inserts a second row, or deletes where there is nothing.
* **Registration, bans** (`CodesAreDrafts`, `BansStand`). `BanInv` adds that a
  `verifyOtp` that has looked, and has not been overtaken, stands before a Draft row,
  or one whose code was loose.
* **Registration, provisioning** (`AccountsComplete`). `ProvInv` adds that a handler in
  its provisioning knows the parent of its account and has left behind the steps
  before it.
* **Registration, mails** (`CodesMailed`). `MailInv` adds that a sign-up about to save
  its code has handed it over.
* **Credentials** (`LinksWork`, `TokensOnce`, `PasswordsByRight`, `SessionsByRight`).
  One invariant, `CredInv`, carries all four. `LinkWorks` alone is not inductive: a
  token is stored before it is mailed, so a handler between the two statements must
  already have its token *accounted for* (in a row, spent, replaced or wiped). A
  spent token is in no row, a token about to be stored is in nobody else's hands
  (`OwnTokens`), and a handler not marked stale still finds in the row what it has
  compared. `Moved` says which steps of one handler keep this, `Written` which writes
  of a row do; every action but `UpdatePassResetToken` is an instance of one of them.

* **Monitors** (`VerdictsAreRight`, `LookupsAreOfUrls`, `MovesAreAsked`). `VerdictsHold`
  is inductive with the types: every write either keeps date and threshold or marks the
  row `touched`, and a judgement of values that still stand is right because
  (24*k* - 3) div 24 = *k* - 1. `MovesAsAsked` needs `ReadsCurrent`: a request without a
  URL, not overtaken, still holds the URL of its row, and its row was never free.
  `RowStep` says what a statement may do to a row; each statement is an instance of it
  but `WriteDomain`, which also needs `ReadsCurrent`.
* **Mail queue** (`CopiesBounded`, `LossesExplained`). `Accounted` ties copies, stalls
  and deaths of a mail together: while a mail is unsent or with the transport it has
  arrived no more often than deaths have hit its job, and a job without a worker has
  stalled less often than that. `OneCopy` alone does not see the copy still in flight.
* **Incidents** (`FlagsCanBeResolved`, `RemoverLowers`). `HandlersKnow` adds that a
  handler about to lower flags is the one whose DELETE removed its record, and knows
  the record's website.
* **Admins** (`AdminsActByRight`). `DesksKnow` says of a request between its comparison
  and its write that it still holds the password in the row, unless another request
  wrote that row in between (`stale`). Every write of a row marks the requests at work
  on it, so the comparison stands for whoever is not marked.
* **Listings** (`WalksShowAll`, `TiedWalksShowAsMany`). `WalkShowsAll` speaks of a
  finished walk; the invariant says how far a walk under way can be off. Of the rows
  before the next page, as many at most were not shown as rows were removed
  (`FewMissed`); the rows shown twice and the rows shown that have since moved beyond
  the start of the next page, to be shown once more, are together no more than were
  added (`FewTwice`); and the same of a page found but not shown yet (`PageFits`). It is
  kept because rows have distinct positions: a removal moves only the row at the start
  of the page before it (`OneMovesUp`), an addition only the last row before it, or
  itself, beyond (`OneMovesOn`). `WindowsFull` says that a page holds as many rows as are due,
  because the positions of *n* rows are the numbers below *n* (an injection between
  finite sets of one size is onto). No step is by induction over the table.
* **Overviews** (`OverviewsAddUp`). What has been answered for a group of statements,
  and the rows that the statements of the group still to come would count now, add up
  to no more than the first count and the changes since (`NothingTwice`), and for the
  rows by status to no less (`NothingMissed`): an answer moves rows from the second
  number to the first, and a change of one row changes the second by one at most. The
  rows of other statuses belong to the group as if counted by a statement that never
  comes, so at the end they are what is left of the second number.
* **Chart** (`BarsAreFirst`, `HoursAreTold`, `LastMonthIsCharted`). `indexOf` keeps the
  earliest reading of a label, which exists because places are well-founded; distinct
  hours have distinct labels, and of twelve months in a row no two have one number, so
  that outside January the number before the current one names the month before.
* **Side by side** (`ServicesTypeCorrect`, `ServicesKeepPromises`). The specification of
  the run `services` keeps the invariants of all its components at once: each component
  leaves the variables of the others alone.

`Listings` and `Overview` are proved for finite sets of rows (`ListingsAssumption`,
`OverviewAssumption`), which every table is, `Chart` for readings in the order of time
(`ChartAssumption`), which is how the time series database answers.

Of the forty properties the passing runs check, thirty-seven are theorems. Only
model-checked are the liveness properties `CreatedGetsWatched`, `RoundEnds` and
`MailSettles`, since fairness is out of the prover's reach; and the five violations.

## Plan

The components whose state and interleavings decide whether the system is correct are
modelled. What would come next:

1. `MailQueue` composed with `Registration` and `Credentials` through their `outbox`, to
   say what a lost code or link mail leaves behind.
2. Changes of address (`updateUserProfile`, `updateTeam`) in `Registration` and
   `Credentials`, where an address names its account so far.

## Not modelled

* Single-row reads and lookups, which are one statement and write nothing; totals and
  columns of listings.
* Servers, the integration catalogue and blacklist servers: one INSERT, and reads.
* The activity log, whose failure `activityLog` swallows; formatting, logging, templates.
* Guards, strategies, controllers and DTOs: they keep no state. What they admit is what
  the modules enumerate as input.
* Token signing, bcrypt, whois, DNS, SMTP, HTTP and Influx, which are outside: their
  answers are inputs. The monitor worker is not in the repository; only what it adds to
  the tables of `Incidents` is an action.
* Answers, except where a property needs them. So it does not show in `Monitors` that
  `deletePlan` reports a failure after each deletion, because it expects more than one
  row. Nor do widths of columns: a threshold beyond the small integer column is a
  rejected statement.
* A nightly round that is still running when the next one is due: a round ends within
  its day.

Liveness, `ENABLED` and recursion are left to TLC.
