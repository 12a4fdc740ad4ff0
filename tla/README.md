# A verification of Taqi

Taqi is the back office of a SaaS: platform users administer client
organizations, plans, licenses, usage metering and the company's own finances,
and everything they do goes into an audit trail. `apps/api` is a NestJS
monolith over PostgreSQL (Prisma), `apps/web-superadmin` its React client,
`apps/worker` a stub. This directory holds TLA+ models of the parts whose
correctness depends on the order of steps, the TLC runs that check them on small
instances, and TLAPS proofs for every instance.

What makes the code hard is the same in every service. A handler is a sequence of
`await`s: it reads rows, checks what it read, writes in a statement or transaction
of its own, and then calls `AuditService.record`, a further transaction. PostgreSQL
runs at its default READ COMMITTED, Node interleaves the handlers at every
`await`, several API processes may run, and a handler can end after any step on an
error or with its process. The web client has the same shape: a continuation runs when
a reply arrives, and by then the tab, its filters or its session may be others. The
models keep exactly those steps apart and no others.

## Inventory

| Part | State | Operations | Interacts with | Hard because | Correct when | Modelled |
|---|---|---|---|---|---|---|
| Audit trail (`audit/`) | `audit_logs`, the one row of `audit_chain_lock` | `record`, `list` | called by every service | all writers share one lock; `seq` has gaps; COMMIT replies get lost; a holder of the lock can die | rows form one hash chain in order of `seq`, the tip is its end, an answer tells the truth, nobody waits forever | yes |
| Movements (`finance/`) | `financial_transactions` with `version`, categories, cost centers | create, update, void, categories | audit; the finance page quotes versions it fetched | status and category kind are checked in an earlier statement than the write | a voided movement is final, no edit is lost, concurrent requests look like atomic edits | but for the tables nothing changes |
| Dashboard (`finance/`, `month-key.ts`) | none | dashboard | movements, licenses | several readings of the clock | each month shown is whole | cash flow |
| Licenses (`licenses/`) | `licenses`, `license_events` | issue, renew, suspend, reactivate, revoke | plan versions, audit, quotas | the write names the license by id alone | revoked is final, the history is one path that ends at the status, terms only grow | yes |
| Billing periods (`billing-period.ts`) | none | addBillingPeriod, addDays | licenses | month ends, leap years | a period has a calendar month's or year's length, and an end date does not drift | yes |
| Plans (`plans/`) | `plans`, `plan_versions` | create, addVersion | licenses | the version number is computed from a read | versions of a plan are 1..n, active iff it has one | yes |
| Usage (`usage/`) | events, hourly and daily aggregates | recordEvent, summary, timeseries, quotas | organizations, licenses | concurrent upserts, row locks, 32-bit sums | aggregates and reports are the sums of the events, no deadlock | yes |
| Sessions (`auth/`) | `sessions` | login, MFA verify, refresh, logout, revocations | users, roles, web client | rotation, suspension and resets race the refreshes and logins in flight | a token serves only refreshes that overlap and each once, no path into a session skips MFA, a suspension lets in only what was past its check before it | yes |
| Credentials (`auth/`, `users/`) | password, lockout counter, invitation and reset tokens | login, forgotPassword, resetPassword, acceptInvitation, resetCredentials | sessions | the counter and the password are written from a row read before a slow hash | the lockout counts failures that do not overlap, no session outlives its password but those a revocation missed, a link used or replaced is dead to what begins later | yes |
| Users (`users/`) | `platform_users`, `user_roles`, `mfa_methods` | invite, accept, update, suspend, revoke sessions, reset credentials | sessions, MFA, audit | acceptance is several statements; role changes overlap | nobody is left without a role, who needs MFA has it | but for names |
| Roles (`rbac/`) | `roles`, `permissions`; capabilities inside the access token | load, guard | every controller, every page | the token outlives a change of role; two lists in two languages | what a page offers, the API allows | yes |
| Web session (`lib/auth-context.tsx`, `api-client.ts`) | tokens in `localStorage` and in each tab | request with one retry after 401, refresh, login, logout, reload | sessions | parallel 401s share a refresh token; tabs share storage; replies are late or lost | what the client stores is open at the API; it leaves no session behind while its calls do not overlap or fail; a logout holds in every tab but for a refresh in flight | yes |
| Web pages (`pages/`, `use-api.ts`) | loads, filters, dialogs, operations under way | every page's | the API, roles | answers out of order, pages left, tokens renewed | what has settled is current and shows what the page did; spinners end | but for layout and the four pages outside a session |
| Organizations (`organizations/`) | `organizations` | create, update, overview | usage, licenses | single statements, last write wins | not much to go wrong | who may call it, and its pages |
| Worker, helpers, health, packages, infrastructure | none | | | | | no |

`PROJECT.json` lists the hazards of this code with their lines, the properties that
cover them, and why the remaining ones have none.

## What is modelled

| Module | Code | Kind |
|---|---|---|
| `AuditLog` | the promise of `audit.service.ts` | abstract specification |
| `AuditChain` | `AuditService.record` against PostgreSQL | detailed, implements `AuditLog` |
| `FinanceLedger` | the promise of `finance.service.ts` (`schema.prisma:348-354`) | abstract specification |
| `Finance` | create, update, void; the page that edits | detailed, implements `FinanceLedger` |
| `Licenses` | `licenses.service.ts`, `license-state-machine.ts` | handlers as steps |
| `PlanCatalog` | `plans.service.ts` | handlers as steps |
| `Licensing` | both services together | composition of `Licenses` and `PlanCatalog` |
| `BillingPeriod` | `billing-period.ts` and the terms made with it | calendar operators and chains of terms |
| `Dashboard` | `month-key.ts`, the cash flow of `FinanceService.dashboard` | operators, over the days of `BillingPeriod` |
| `UsageBuckets` | `date-bucket.ts`, the keys and sums of the aggregates | operators |
| `UsageTotals` | the comment of `recordEvent` (`usage.service.ts:30-34`) | abstract specification |
| `Usage` | `recordEvent` against PostgreSQL | detailed, implements `UsageTotals` |
| `UsageReports` | summary, timeseries, organizationUsage, `quota-status.ts` | operators on the state of `Usage` |
| `Accounts` | sessions, MFA, roles and users | handlers as steps |
| `Credentials` | passwords, lockout, links | handlers as steps |
| `WebSession` | `auth-context.tsx`, `api-client.ts`, `jwt.ts` and the sessions behind them | continuations as steps |
| `Capabilities` | the seeded roles, the guard, the decorators of the controllers, the pages' checks | operators |
| `Pages` | each page's loads, controls and links; `App.tsx`, `nav-items.ts` | constants of the console |
| `Console` | `use-api.ts`, `Modal.tsx`, `AppShell.tsx` and what the pages do with them | one tab as a state machine |
| `AuditChainProofs`, `FinanceProofs` (with `BillingPeriod` and `Dashboard`), `LicensingProofs` (with `Licenses` and `PlanCatalog`), `AccountsProofs`, `UsageProofs`, `CredentialsProofs`, `WebSessionProofs`, `ConsoleProofs` | | theorems |
| `MC...` | | instances for TLC |

Inside a module, an operator introduced as "Mutant of X" is X with a plausible bug. It
is used nowhere: it replaces X when one asks whether a property would notice.

### AuditChain

`record` is one interactive transaction. Its steps are `Begin`, `LockTip` (`SELECT
... FOR UPDATE` and the read of the tip), `InsertRow`, `UpdateTip`, `Commit` and
`Return`. `phase` is the database's view of the call and `outcome` the caller's;
they come apart in `Crash` (the process dies, its transactions stay open until
`RollbackOrphan`) and in `LoseReply` (COMMIT took effect, the caller gets an
error). `Fail` is any error before COMMIT, Prisma's transaction timeout included.
`nextSeq` is the sequence behind `seq`, which no rollback gives back. A hash is
identified with the list of events it commits to, that is, SHA-256 is taken as free
of collisions; the UNIQUE index on `hash` is a guard of `InsertRow`, which the chain
never meets. A `record` is only called for a fresh call id: each is one invocation.

### Finance

`Fetch` is what an operator's page shows; `StartUpdate` and `StartVoid` are the
handler up to its write, quoting the version of the fetched row; `Write` and
`Conflict` are the two outcomes of `updateMany({id, version})`; `Audit` records the
event; `Fail` ends the request after any step. The handler checks the status and the
category against the row it reads (the current one at that moment), and the write
checks only the version. The body keeps the whole fetched row in `seen` so that
`NoLostUpdate` can speak of it; the code uses its version only. Assumed: the version
in a request is one the client fetched, as the DTO says and the page does. Amounts,
dates and texts take part in no decision. The optional cost center and organization
are looked up for existence only.

### Licenses, PlanCatalog, Licensing

In `Licenses`, `Check` is `findOrThrow` with `assertLicenseTransition`; `Price` is the part
of `renew` that reads the clock and computes the term; `Write` is the transaction with
the update by id and the event; `Audit` and `Fail` as above. `Issue` inserts the row
and its first event under a fresh id. Dates are numbers and a period adds a positive
constant of the plan version: `PeriodsEndLater` proves that the calendar's do so. No code
moves a license to past_due, grace_period or expired yet (`licenses.service.ts:60-65`),
so those statuses are in the table and are not reached.

In `PlanCatalog` an `addVersion` is `ReadPlan`, `ReadLast` and `Insert`: the number is that
of the last version it read plus one, the UNIQUE index (`Taken`) refuses a number used
since, and the plan is made active if it was *read* as a draft. Versions are immutable.
No code archives a plan, so the check for it is not there. `Licensing` lets the two
interleave: a license is issued or renewed on a version only if the version is in the
table at that moment.

### Accounts and Credentials

The two services share the tables `platform_users`, `user_roles`, `mfa_methods` and
`sessions`; `Accounts` is about who gets into a session, `Credentials` about what
password and what link. In both, `job[q]` is the handler of a request: how far it has
got and what it read. The steps of `Accounts`, by operation:

| Operation | Steps |
|---|---|
| `invite` | `Invite` |
| `acceptInvitation` | `FindInvitation`, `Activate`, `ChooseEnrolment`, then `Enrol` or `IssueTokens` |
| `login` | `ReadUser` (the status is judged on this row, after the slow password check), `LogIn`, then `IssueTokens` or a challenge |
| `verifyMfaChallenge` | `VerifyMfaChallenge`, `IssueTokens` |
| `refresh` | `FindSession`, `CheckUser`, then `RevokeInactive`, or `Rotate` and `IssueTokens` |
| `logout` | `FindToLeave`, `Logout` |
| `update` (role) | `StartReassign`, `Reassign` |
| `suspend`, `revokeSessions`, `resetPassword`, `resetCredentials` | `StartRevoke`, `CommitRevoke` |

The last two pairs are one transaction each, split between the snapshot of its
`deleteMany` or `updateMany` and its commit: under READ COMMITTED another request may
commit rows in between that the transaction neither sees nor changes. `UserLocked` is
the row lock on the user that `suspend` and the resets hold for that time. A role
change takes the rows it deleted out of the snapshots of the others, so that a row inserted
since counts as another one, and a role that is there already is refused by the key. A session
row has, besides its state, two fields of history: the session whose refresh made it
and whether its first login passed a TOTP check. `reassigned` is history too.
Invitations, challenges and sessions may expire at any moment (`Timeout`).

`Credentials` has one user. `Attempt` reads the row and, a hash later, either
`RegisterFailedLogin` writes the count it read plus one, or `ClearFailures` and `OpenSession`
follow. A refresh is `FindSession`, `Rotate` and `OpenSession`: it revokes the session it found
and opens one that goes back to the same password. Open sessions are told apart by that password
and by `missed`: whether a revocation came when the request that opened the session, or one it
was refreshed from, was past its check and had not inserted it yet. `FindInvitation` and
`Activate`, `FindLink` and `ResetPassword` are the two links; both name the user by id once they
have found it, so two uses that overlap both succeed. An acceptance revokes nothing, a reset
does. `wrong`, `overlap`, `dead`, `replaced` and `missed` are history. What one module leaves
out of the other's state happens in it at any moment: a reset revokes sessions in `Accounts`
whenever it likes, and a challenge is part of the wait before `OpenSession` in `Credentials`.

Left out: the backup codes (`acceptInvitation` stores their hashes and drops the codes at
`users.service.ts:182`, so nobody has one to use).

### Usage and UsageReports

`Insert` finds the organization and inserts the event; `Upsert` runs once for the hour and
once for the day: INSERT ... ON CONFLICT DO UPDATE waits for the lock of its key
(`Free`), sees the committed row then, and keeps the lock to the end; `Overflow` is "integer
out of range"; `Commit` and `Answer` end it, and `Fail` rolls back or loses the
answer. `UsageTotals` changes the event and both aggregates at once, and
`Usage` implements it. The reports are single queries and therefore functions of the committed
state; percentages are in tenths, rounded as the code rounds them.

### BillingPeriod and Dashboard

A date is a count of days. `MakeDay` is the ECMAScript operation behind `setMonth`,
`setFullYear` and `setDate`; the API sets no time zone and UTC is assumed, where a
day has 24 hours. The state is one license's end date and how many months and years
were granted since its anchor. `Dashboard` uses the same days as "today": the range of the
query comes from one reading of the clock and each month of the table from another, and
midnight comes before any of them.

### WebSession

A pair of tokens is named by its `sessions` row. A call of `api.request` is `Request`, then
`Answer`, or after a 401 `Refresh`, the statements of the API `FindSession`, `Rotate` (the old
session is revoked) and `IssueTokens` (the new one is inserted), `Renewed` and the one retry, or
`Refused`, which clears the session. `Break` is the API failing between those statements, which
share no transaction; `Lose` and `LoseRefresh` are the network. `Logout` reads the stored token
when it starts and sends that one to the end. Tabs share `stored` and have `held` of their own;
`Reload` and `ReloadExpired` are a tab that starts again. Any tab may `SignIn`, whether a session
is stored or not: the page of an invitation does not ask, and the login page asks its own tab
only. The steps before a login's tokens are in `Accounts`.

Two histories say what the properties leave out. `severed`: a session was revoked elsewhere, or
a tab was closed or reloaded while a refresh, login or logout of its own was in flight; this the
browser cannot know, and it is all that `StoredSessionIsOpen` excludes. `disturbed`, for
`NoSessionIsLeftBehind`, has every case in which the code does leave a session open at the API
and forgets it:

- two calls that change the session overlap, among them a logout whose own request needs a refresh;
- the request or the reply of a refresh, login or logout is lost;
- the API fails in the middle of a refresh;
- the tab of such a call is closed or reloaded;
- a session is revoked elsewhere, or its row expires;
- somebody signs in while another session is stored, which is overwritten and not ended.

### Capabilities, Pages and Console

`Capabilities` and `Pages` are tables: the roles of the seed, the capability each handler
asks for, and for each page its `useApi` loads, its forms and buttons with the condition
that shows them, what a success fetches again or where it goes, and its links. `Console` is one
tab at work on them: a fetch is sent, read at the API and delivered, or
superseded by the next; a dialog mounts loads of its own; an operation may end after its form
was closed or its page left; a refresh may bring a token for another role at any 401.
Data is what a reader can tell of it: for which filters, and how many of the page's operations
it has seen.

## What is checked

Each property was seen to fail when a definition of its module is replaced by the mutant
`PROJECT.json` names.

| Run | Instance | Shows |
|---|---|---|
| `audit_chain` | 3 calls, two of the same event; 6,164 states | `ChainIntact`, `AnswerMatchesLog`, `ImplementsLog`; and `EveryCallEnds` under fairness |
| `finance` | 2 operators, 2 requests, 1 movement, 2 categories, versions to 4; 507,517 states | `VoidedIsTerminal`, `NoLostUpdate`, `AuditNeverOverstates`, `ImplementsLedger`; no deadlock |
| `licenses` | 2 requests, 1 license, 2 plan versions, 4 events; 298,009 states | what holds under concurrency: `StatusIsLastEvent`, `EventsAreLegal` |
| `licenses_serial` | 1 license request at a time, 2 editors of a plan at once, 2 versions; 785,757 states | `VersionsAreNumbered`; `RevokedIsTerminal`, `HistoryIsContiguous`, `TermOnlyExtends` |
| `accounts` | 1 user, 2 roles, 2 requests, 3 sessions; 746,673 states | `SuspendedStaysOut`, `SuccessorsAreBounded`, `MfaBeforePrivilege`, `NobodyIsRoleless`; no deadlock |
| `credentials` | 2 requests, 2 passwords, the invitation and 2 links, locked at 2 failures; 154,686 states | `LockoutCounts`, `SessionsMatchPassword`, `LinksAreSpent` |
| `billing_period` | every start in 2027, renewals to 2029, up to 3 months of dashboard; 20,997 states | `PeriodHasItsLength`, `EndsAreAnchored`, `MonthsAreWhole` |
| `usage` | 2 ingestions, 4 events of 2 clients, integers to 3; 13,088 states | `ImplementsTotals`, `NoWaitCycle`, `AggregatesMatchEvents`, `ReportsMatchEvents`, `QuotaIsHonest`; and `EveryIngestionEnds` under fairness |
| `web_session` | 2 tabs, 2 calls, 3 sessions; 447,535 states | `StoredSessionIsOpen`, `NoSessionIsLeftBehind`, `LogoutHoldsInAllTabs`; and `EveryCallSettles` under fairness |
| `console` | 5 roles, all pages, 2 selections, 2 operations of a page; 197,730 states | `OfferedIsAllowed`, `SettledIsCurrent`, `ReadYourWrites`; `SpinnersEnd` under fairness; no deadlock |

Two more runs each show a disagreement between the code and what the repository
says of it:

- `licenses_revoked_race`: `RevokedIsTerminal` fails with two requests. A suspension (or a
  renewal) that checked the license before a revocation commits writes its own status over
  `revoked`, although `plans-and-licenses.e2e-spec.ts:269` calls a revoked license terminal. That
  test makes one request after the other.
- `accounts_mfa_lost`: `login` calls a role that requires MFA without a method
  something that should not happen (`auth.service.ts:114-115`). It does when an
  acceptance ends after it activated the user, when the enrolment challenge is not
  answered in 5 minutes, and after a change to such a role; no operation repairs it.

Type correctness is proved of every detailed state machine, and the runs do not
repeat it, but for `usage`, whose `TypeOK` also says that no committed sum exceeds its column,
and `console`, whose `TypeOK` also says that exactly what is mounted has loads.

Other things met while modelling, read off the code or off the models, that a maintainer
should know; the properties above are stated so as to allow them:

- Two renewals at once read the same end: one period is lost and both are recorded.
  `PLANTEAMIENTO_SUPERADMIN.md:444` asks for optimistic locking there; only movements have it.
- An acceptance that found its invitation before a suspension commits makes the user active after
  it, by id (`users.service.ts:153-161`): the suspension is undone. `SuspendedStaysOut` allows
  this of an acceptance in flight at the suspension, and a session or challenge to each other
  request that was then past its check.
- A refresh that found its session before a reset or another revocation rotates it after, and
  opens a session that nothing revoked (`auth.service.ts:183-208`); so does a login past its
  password check. They are the `missed` of `SessionsMatchPassword`.
- Wrong passwords that are verified at the same time count once (`overlap` in `LockoutCounts`), so
  the limit can be reached and the account not locked. Two acceptances of one invitation that
  overlap both succeed, and the session of the first survives (`replaced`).
- A refresh that another tab has in flight stores a session again after a logout cleared it
  (`auth-context.tsx:89`). `LogoutHoldsInAllTabs` says that it takes just that.
- The consumption of the month in course (`usage.service.ts:207`) has no upper bound, so events
  dated in a later month count (`later` in `QuotaIsHonest`).
- The audit event is a transaction after the commit, so a failure in between loses it
  (`PLANTEAMIENTO_SUPERADMIN.md:760` wants every one). The converse, that none is made up, is
  `AuditNeverOverstates`.
- Nothing activates a draft license, although `licenses.service.ts:91` speaks of it: it can
  only be revoked. No code archives a plan.
- The comment of `billing-period.ts:4-8` promises a day in February for 31 January plus a
  month; the result is in March, and a license renewed from there keeps the 3rd. Hence
  `EndsAreAnchored` speaks of days up to the 28th.
- Refreshes of one token that overlap all succeed, each with a session of its own; one that finds
  the token rotated already is refused, and the client clears the pair the other one got: two
  requests of one browser that get 401 at once are enough.
- A logout whose access token has expired refreshes first and then sends the token that was
  rotated away: the new session stays open (`auth-context.tsx:175`). These and the other cases in
  which a session is left behind are listed under `WebSession` above.
- A dashboard asked for around the midnight that ends a month can miss the first month of its
  range (`finance.service.ts:288`).
- A client that repeats a `recordEvent` after a lost answer has it counted twice.
- `FinancePage` does not fetch its dashboard again after an operation (its rows it does), the
  usage page keeps the last client's figures when the next client's fail to load, and the
  organization form writes back every field as it was when the form opened.

### Bounds

Three calls of `record` give a holder of the lock, a waiter, and one that comes after
both; two record the same event so that equal payloads meet the UNIQUE index.
Two requests are enough for a race on one row, two operators for a stale view, and a
third writer adds nothing that two in a row do not; versions to 4 leave room for
create, edit, stale edit and void. Four events are issue, suspend, reactivate and
revoke. `MaxTime` is 1 with two requests and 2 with one, against periods of 1 and 2
ticks: renewals before, at and after the end of a term. One movement, one license and
one user suffice because no operation touches two; one plan, because numbers of two never
meet, and two versions of it are enough for a number computed twice. Three sessions are one,
its successor and a second successor; the claim about more of them counts the requests
that still hold the old token, so that three rows are enough to see it fail.

Credentials: with two requests, one is between what it read and what it writes while the other
does anything, any number of times; a third adds only that two wait on one who acts, and every
property is about one request and the row. `MaxFailed` 2 and `MaxWrong` 3 reach the limit and
pass it; two links are one and the one that replaces it. Usage: the four events share an hour,
only a day, or neither, and fall in two months; `Copies` lets the same event come twice, which
takes a daily sum past `MaxInt` 3 and so meets the overflow. Web session: two tabs that share
storage, two calls that overlap, and a session with two successors or a second login. Console:
`MaxWrites` 2 lets the success of one operation race the fetch after another. Dashboard: 3
months cross a year's end.

Operators, requests, editors, passwords, links and session ids are interchangeable and are
symmetry sets in runs of safety properties; the runs with liveness have none.

### Deadlock

`finance`, `accounts` and `console` check it: there always is something to do. The
others stop by design or by a bound: all calls are done (`audit_chain`), a revoked license
at the end of the clock (`licenses`, `licenses_serial`), the last year (`billing_period`), all
copies stored (`usage`), all links spent and the counter at its bound (`credentials`), all
sessions used up (`web_session`). That ingestions do not wait in a circle is `NoWaitCycle`.

### Fairness

`EveryCallEnds`: weak fairness of each call's own `Step`, because Node runs every continuation
of a live process, PostgreSQL hands a released row lock to some waiter and rolls back dead
connections, and each of these steps stays possible until taken unless another call takes
the lock, which a call does only once. No fairness is assumed of `Begin`, `Fail`,
`LoseReply` or `Crash`.

`EveryIngestionEnds`: there new ingestions keep coming for the same row, so a waiter's step is
possible again and again and not always; PostgreSQL queues the waiters of a row, hence
strong fairness of `Proceed`, and weak fairness of commit and answer. Nothing forces a
failure, so a wait is not ended by one.

`EveryCallSettles`: weak fairness of a call's next step. A reply may be lost (`Lose`) but is
not required to be; requests, expirations and reloads owe nothing.

`SpinnersEnd`: weak fairness of the replies together, since a browser delivers what has
arrived. A user who changes filters for ever may keep a spinner turning for ever, hence
the first disjunct of the property.

## What is proved

The proofs hold for any sets of calls, operators, requests, movements, licenses, plans,
versions, events, years, tabs, sessions and selections, and without the bounds' values.

`AuditChainProofs`. The invariant `IInv` adds to typing and `ChainIntact` that at most
one transaction is between `LockTip` and `Commit` (`LockInv`), that such a transaction
read the committed tip and drew a `seq` above every committed row's (the lock keeps
both true while it lasts), and that a call has a row exactly when its phase says so
(`CallInv`). Alone, `ChainIntact` is not inductive: `Commit` preserves it only because
`prev` is still the tip. From `IInv` follow `TypeCorrect`, `ChainHolds`, `AnswersHold`
and `Refinement`, the last with the mapping that reads the log off the tip.

`FinanceProofs`. The invariant says that no fetched row, and no row quoted by a
request, has a later version than the movement, and that one of the same version *is*
the row; hence a write that finds its version finds the row its author saw, and the
status and the type that were checked. From it `VoidedStays`, `WritesAreInformed`,
`ConflictsAreReal` and `Refinement`. `AuditIsHonest` counts: the requests that owe an
event of a movement are finitely many in every reachable state (each joined by one step, so
nothing need be assumed of their number), a change adds one to them and one to the
version, and an event moves one of them to the trail.

The same module proves what the calendar does, for any years. Months are numbered in one
sequence, and `Start(n)` is the first day of the n-th. From the table of `DaysBefore` and the
count of leap years: a month has 28 to 31 days, twelve months 365 or 366 (`NextMonth`,
`NextYear`), so `Start` grows, and every day lies in exactly one month, the one that `Year` and
`Month` find (`DateOf`). Where one would reason by induction, the proofs take the least number
that refutes the claim (`Least`) and refute it with the one before. From there
`PeriodsHaveTheirLength` and `PeriodsEndLater`; `EndsStayAnchored` by the invariant `TermInv`,
which says in which month a term ends and on what day; and `DashboardMonthsAreWhole`, where two
days have the same key exactly when their months have the same number, so that the range and the
table can be compared by number.

`LicensingProofs`. The catalog: `Numbered` holds by what a request knows: its plan exists and
stays active once it was, and its number is 1 or follows one that is in the table, from which
nothing is ever taken. That the number is still free is left to the index (`Taken`), without
which the mutant run fails. The licenses, with any number of requests: typing,
`HistoryDescribesRow` and `HistoryIsLegal`, from the invariant that a handler about to write has
checked the status it carries. Under `OneRequest` (a named assumption of the theorems, not of
the module) also that the row read is the row there is, and from it `SerialRevokedIsTerminal`,
`SerialHistoryIsContiguous` and `SerialTermOnlyExtends`. The run with two requests shows that the
assumption cannot be dropped. The two together:
`LicensingImplementsParts`, since every step of the composition is a step of one service that
leaves the other's tables alone; so `LicensingNumbered` and `LicensingSerial` hold of the
composition that the run checks.

`AccountsProofs`. `SuspensionPrevails` is an action property and needs only typing and
what a step does to one request: none that begins takes a user who is suspended and
unchallenged, one that was past its check gives one session or challenge and is over, and of
those only an acceptance changes the status. A single action can do no more, whatever came
before. `RotationIsBounded` needs that only a revoked session has
successors or a refresh about to make one (`ParentsAreRevoked`, because `refresh`
revokes before it issues); then a revoked session gains no claimant, and each
successor uses one up. `MfaComesFirst` needs the same of granted requests
(`GrantsAreChecked`), and that rows and requests belong to users that exist
(`UsersExist`), since an invitation sets roles; `RolesRemain` comes with it. Typing itself
needs that a refresh holds an existing row (`HeldSessions`).

`CredentialsProofs`. `LockoutIsExact` is inductive with typing (the history variables say when
the code's reads were stale). `SessionsFollowPassword` needs the same of the requests that are past
their check and of the session a refresh has found: each goes back to the current password, or was
missed by a revocation, or to a password that an acceptance replaced. `LinksWorkOnce` needs
`FoundAlive`: what can still be found is not dead.

`UsageProofs`. `WaitsEnd`: the holder of a day has no more locks to take, so among ingestions
that all wait nobody holds a day; one that has its hour then waits for none of them, and if
none has its hour they hold nothing (`SomebodyGoesOn`). `Refinement`: a key has one
holder (`Exclusive`), so what it wrote is still the committed row and one event (`Current`), and
its commit is an atomic `Ingest`. `TypeCorrect` includes the integer limit.

Its second half is about sums. A fold over a set computes the sum of a function over it
(`SumsExist`, and from it what adding an element, changing a value or uniting disjoint sets does
to a sum), shown of the smallest subset that would refute it. `AggregatesAreSums`: a commit
changes one event and the two buckets of that event, and every other sum is untouched.
`ReportsAgree`: the rows of a query are one per period and organization, so their events are
disjoint and together all the events asked for; the series exists and is the only list in the
order of time. `QuotasAreHonest` follows for the month.

`WebSessionProofs`. `TypeCorrect` includes that no token is kept that names a session never
made, from `FreshIsMade`: a reply on its way carries a session that was. `LogoutIsFinal`: while
nothing is stored a refresh has no token to start from, so of the calls only a login can begin
that stores tokens, and what is in flight is over when it has. `NothingIsLeftBehind` is about
moments when no call is changing the session, and needs an invariant about the others: while
nothing is disturbed one call at most is changing it, and from how far that call has come
follows what is stored and what is open (`OneChange`); refresh, login and logout each pass
through their own stages (`InStep`) and end with one session open and stored, or none.
`StoredSessionStaysOpen` has to allow any overlap. Its invariant says that while the stored
session is one that has ended, some refresh or logout in flight is past the point from which its
answer, or the failure of it, replaces what is stored or clears it (`Mended`, `Replaces`); and
that the pair of a reply on its way is open, as no other call knows it yet (`Apart`).

`ConsoleProofs`. The tables first: of every role, page, link and control, that whoever it is
shown to holds the capabilities its requests need. `NothingOfferedIsRefused` then needs that what
is open was shown to the token there is (`Granted`), which a renewal for another role must
either keep or end. `SettledShowsSelection` and `PagesReadTheirWrites` need one fact of every
load (`AllRight`): what it waits for, or has settled on, is for the selection of now, and for the
rows of the page it is no older than the operations the page has been told of. The loads of a
form are told from the page's by their names, which never meet (`WellMade`).

Only model-checked: the liveness properties `EveryCallEnds`, `EveryIngestionEnds`,
`EveryCallSettles` and `SpinnersEnd`, which are outside the prover's reach. Every other property
of a run that passes is a theorem.

Assumptions on constants are named in the modules: `PayloadAssumption`, `FinanceAssumption`,
`LicensesAssumption`, `AbsentAssumption`, `CatalogAssumption`, `AccountsAssumption`,
`CredentialsAssumption`, `UsageAssumption`, `ReportsAssumption`, `WebAssumption`,
`ConsoleAssumption`, `NoneAssumption`, `CalendarAssumption` and `DashboardAssumption`. Each gives
a constant its type, or says that the placeholder for a missing row, body or dialog is not one;
`LicensingAssumption` says that the versions licenses name are those of the catalog. Sets are
assumed finite where a bound counts them (sessions and requests in `Accounts`, sessions and calls
in `WebSession`) and where a report adds them up (the events ever offered, in `UsageReports`).

## Not modelled

- Presentation, DTO formats and validation messages, lists and pagination, logging, wiring,
  health probe, styles and deployment: no state whose order matters.
- `createCategory` and `createCostCenter`: rows that nothing changes later. `mrr`: one query and
  a sum. The full name of a user.
- The writes of organizations: single statements that decide nothing, where the last one wins.
- The four pages outside a session (login, invitation, forgotten and reset password) beyond the
  calls they make, which `WebSession`, `Accounts` and `Credentials` have.
- The seed but for its roles; it runs once, before the service.
- The worker, which is a stub.
- Time zones other than UTC.
- Cryptography (SHA-256, argon2, AES, JWT signatures, TOTP), taken as perfect.
- The services with `AuditLog` in one composition: the audit event is the last step of a handler
  and its outcome decides nothing but the answer, so each service has it as one step that
  may fail, and `AuditChain` has the rest.
