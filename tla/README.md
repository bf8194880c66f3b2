# TradPath: verification project

TLA+ models of the parts of TradPath (field-service software for the trades:
customers, estimates, jobs, invoices, recurring service plans) whose
correctness depends on the order in which things happen, the TLC instances
that check them, and TLAPS proofs of what must hold at any size. Paths are
relative to `apps/api/src/` unless they start with another directory.

## 1. The system

One NestJS API over PostgreSQL (Prisma), Redis with Bull queues, Stripe,
SendGrid, Twilio and a language model; a web, an admin and a mobile client
share `packages/api-client`. The repository has no tests; its comments and
error messages state what the code intends.

The one fact everything below rests on: **every Prisma, Redis or Stripe call is
an await of its own**. A handler reads a row, decides, and writes later from
what it read; only a `$transaction` or a single statement is atomic, and only
unique indexes and cascades are enforced by the database. Nothing takes a lock,
and no update states in its `where` the value it was computed from. Node
interleaves the handlers of one process at their awaits, several processes
interleave freely.

| Component | State | Operations | Interacts with | Hard part |
|---|---|---|---|---|
| Invoices and payments (`invoices/`, `stripe/`, `queues/invoice-follow-up*`) | Invoice, Payment, WebhookEvent rows, Job.totalRevenue | create, update, remove, send, createPaymentIntent, recordPayment, webhook, hourly follow-up | Stripe, jobs | balances computed from stale rows; events redelivered, late, for intents replaced |
| Refresh tokens (`auth/token.service.ts`, its callers) | RefreshToken rows, User.isSuspended | login, refresh, logout, reset, disable, remove member or company | client's cookie | rotation in three awaits; reuse detection; revocation racing rotation |
| API client (`packages/api-client`) | cookie, in-flight refresh | 401 interceptor, login, logout | AuthController | one refresh for many failed requests |
| Service plans (`service-plans/`, `queues/service-plan-*`) | ServicePlan, ServicePlanJob, ServicePlanInvoice rows | create, update, remove, pause, resume, cancel, generate now; hourly job, bill and expiry scans; subscription events | Stripe, jobs, invoices | scan against request; idempotence by lookup; dates moved from stale values |
| Jobs, bookings, estimates, their numbers (`jobs/`, `booking/`, `estimates/`, `common/utils/sequential-number.util.ts`) | Job, BookingRequest, Estimate, Customer rows, photos | create, updateStatus, complete, update, remove; createRequest, confirm, decline; send, convertToJob | invoices, plans | two paths to COMPLETED; a request made a job twice; the next number read, then written |
| Time entries (`time-entries/`, `common/utils/timezone.util.ts`) | TimeEntry rows | clock in and out, breaks, edits, decisions, timesheet | | two active entries; a day split entry by entry; local days |
| Accounts (`auth/auth.service.ts`, `team/`, `admin/`) | User, Organization, TeamInvite, PasswordReset rows | register, both logins, verifyMfa, resets, invites, roles, removal, ownership, suspension | sessions | last owner, counters and single use under concurrency |
| Generated drafts (`ai/`) | Job's transcript and draft, the organization's credits | transcribe, generateInvoiceDraft, confirmInvoiceDraft | language model, invoices | a counter read before a slow call and written after it; the month turns |
| Rate limits (`redis/`, `common/utils/slug-rate-limit.service.ts`) | Redis counters, expiries, blocks | each public request | booking page, pay page | a counter raised and given its expiry in two calls |
| Web and admin applications (`apps/web/`, `apps/admin/`) | query cache of a tab, mounted page, requests in flight | open, leave, focus, press, sign out and in | API client, every endpoint | answers from before a request; keys that miss a query; a cache that outlives its user |
| The rest: customers, price book, schedule, messages, settings, reports, admin CRUD | single rows | CRUD, read-only aggregates, adapters | screens | which screen must be read again |
| E-mail, scans that mail, storage, report cache | log rows or none | best effort | | none that a model would reveal |

`PROJECT.json` lists each of them with its sources and the reason when it is
not modelled or only in part, and the hazards line by line.

What makes each modelled component correct:

- *invoices*: the balance is what the Payment rows add up to; a PAID invoice is
  final; a charge is credited, once; the job's revenue is the sum of its
  invoices;
- *refresh tokens*: a token is used once; a rotated token is dead before its
  successor is in anyone's hands; what ends a session ends it for good;
- *API client*: an honest client is never treated as a thief, nor left with a
  cookie that no longer works;
- *service plans*: one job per due date, one bill per period, periods that do
  not overlap, and a plan that keeps being served;
- *jobs*: one job for a request or an estimate, numbers that grow, a final
  status that stays, no completion without the photos the offering requires, a
  profit in step with revenue and costs;
- *time entries*: one shift at a time, and every hour paid once, at the rate the
  thresholds give it;
- *accounts*: an organization keeps an owner, an account locks in time, an
  invite makes one account;
- *drafts and limits*: a limit is neither exceeded nor charged for nothing, and
  a page that is over its limit opens again;
- *screens*: a page at rest shows its user's data, newer than the requests it
  knows of, and offers only what the API can accept.

## 2. Modules

| Module | What it is |
|---|---|
| `Receivables` | abstract: bills that are opened, repriced, paid and closed for good, and charges that pay the bill they were asked for |
| `InvoiceLedger` | the money path, implements `Receivables`; `MCInvoiceLedger` for TLC, `InvoiceLedgerProofs` |
| `Sessions` | abstract: sessions that open once, end, and never reopen |
| `RefreshTokens` | the token table and its handlers, implements `Sessions`; `MCRefreshTokens`, `RefreshTokensProofs` |
| `ClientSessions` | `RefreshTokens` composed with the browser and its pages through the cookie; proved about in `RefreshTokensProofs` |
| `ServicePlans` | one plan, its scans and its subscription; `MCServicePlans`, `ServicePlansProofs` |
| `WorkOrders` | jobs, the requests and estimates they are made from, and their numbers; `WorkOrdersProofs` |
| `TimeEntries` | one user's entries and their overtime; with `WorkOrders` in `MCOperations`; `TimeEntriesProofs` |
| `Accounts` | accounts, roles, invites, resets and locks; `AccountsProofs` |
| `AiDrafts` | drafts and monthly credits; `AiDraftsProofs` |
| `RateLimits` | the counters in front of public pages; the three in `MCAdministration`, the first and the third proved about in `AccountsProofs` |
| `WebApi` | what each endpoint reads, writes and refuses, as data |
| `WebScreens`, `AdminScreens` | every query, mutation and page of the two applications, as data over `WebApi` |
| `Screens` | one page, one of its queries and the query cache, over that data; with `ClientSessions` in `MCClientSessions`; `ScreensProofs` |

### Conventions shared by the modules

- `req[h]` (`call`, `run`, `flight`) is the handler in slot `h` of `Handlers`:
  `pc` names the call it is about to make, the other fields what it has read. A
  handler is `...Read` (checks and early returns included) followed by
  `...Write` or `...Commit`; a one-statement handler is one action. With one
  slot handlers run one after the other; with two they interleave at their
  awaits.
- `Ops`, where there is one, selects the operations an instance enables.
- `Abort(h)` is a handler that dies between two awaits: the process stops, the
  database or Stripe does not answer. What it wrote stays. `MaxAborts` bounds it.
- A write to a row deleted meanwhile throws (Prisma P2025): the handler ends
  and its transaction is rolled back (`RowGone`; `WithStatus` and the second
  disjuncts of `InsertJob` and `InsertBill` in `ServicePlans`). So does a write
  that a unique index or a foreign key refuses.
- A variable or field marked *history* is read by properties only.
- An MC module chooses a *scene* (or scenario) in its initial state and then
  keeps to it: a scene restricts which steps of the module are taken, and no
  step is changed. Properties that need handlers not to overlap are asserted of
  the scenes where they do not (`Serial...`).
- Operators named `X_Something` are plausible bugs in `X`, kept next to it: each
  property is known to fail under one of them. `PROJECT.json` has the list.

### InvoiceLedger

| Variable | Code |
|---|---|
| `invoice` | Invoice rows: status, total, amountPaid, amountDue, stripePaymentIntentId, whether sentAt is set, followUpCount |
| `ledger` | sum of an invoice's Payment rows |
| `credited` | Payment rows the webhook inserted, per PaymentIntent |
| `intents` | PaymentIntents at Stripe (external) |
| `recorded` | WebhookEvent rows |
| `revenue` | Job.totalRevenue as a function of its addends |

`recordPayment` is `RecordPaymentRead`, `RecordPaymentCommit`;
`createPaymentIntent` is `CreateIntentRead`, then `Reuse`, `Refused` or
`AtStripe` and `LinkIntent`; `handleEvent` is `WebhookDeliver`, `WebhookLookup`,
`WebhookCredit`, `WebhookRecord`; the follow-up scan is `ScanRead`, `ScanWrite`;
`syncJobFinancials` is `SyncRead`, `SyncWrite`, the tail of create, update and
remove. Amounts are integers: the doubles of the code are out of reach (see the
hazards).

The refinement mapping to `Receivables` shows an invoice as who pays it sees it
(`bills`): open while it exists and is not paid, closed once PAID, gone once
removed, with its total, the sum of its Payment rows and what is due; and an
intent as the charge it asks for (`charges`): the invoice it was created for,
its amount, and whether the customer has confirmed it. Sending, reminders, the
job's revenue, events and what handlers hold are not seen: those steps stutter.

### RefreshTokens, Sessions, ClientSessions

`rotateRefreshToken` is `RotateRead`, `IssueInFamily`, `RetireParent`, or
`RotateRead`, `RevokeFamily` when the token presented was revoked. Answers may
be lost (`delivered'` may stay). `ended` is a history variable: what last
revoked a family as a whole. The refinement mapping sends a family to "open" while
one of its rows is live and "ended" afterwards.

A login is answered by a family or by an MFA challenge (`GiveChallenge`), which
`verifyMfa` (`VerifyRead`) takes until it expires, as often as it is presented.
That handler does not look at `isSuspended`: the tokens it issues to an account
it found disabled are marked `late` (history).

In `ClientSessions`, a call drives the API's handler in the same slot
(`ServeRefresh` conjoins `RotateRead`) and its answer sets the cookie. A page
refreshes in two ways: on mount, by a call of its own (`MountPage`, the effect of
`providers.tsx`), and when its requests are answered 401 (`SendRefresh`), where
`MayRefresh` is the shared `refreshPromise`. Neither waits for the other;
`doubled` (history) has the families whose token was presented both ways at once.

### ServicePlans

| Variable | Code |
|---|---|
| `plan` | the row: status, whether createdBy is a user (`own`) or "system", nextServiceDate, nextBillingDate, billingCycle, endDate, the two auto flags, whether it has a subscription id |
| `jobs`, `bills` | ServicePlanJob rows per date, ServicePlanInvoice rows per period |
| `sub`, `events` | the subscription at Stripe and its events not yet recorded |
| `today` | the clock in days of the instance |
| `jam` | a due plan before this one in the scan for jobs throws when it is reached |

Dates count service cycles from the start date; a billing cycle is 1 or 2 long.
`DayPasses`, `SubscriptionChanges` and the deletion of a job or an invoice are
the environment's. `localHourIn` only delays a scan and is not modelled. A handler
of a scan stands for its turn with this plan. Its loops catch nothing: the scan
for jobs ends with the first plan that throws, so it reaches this one only while
there is none such before it (`jam`, which any customer of any organization may
change: `BatchChanges`). A plan that throws is one subscribed at the booking page,
whose `createdBy` "system" is not a user that a job may be created by; a bill
carries that name without a foreign key, and goes out.

### WorkOrders

| Variable | Code |
|---|---|
| `job` | Job rows: number, createdAt, status, what it was made from, the checkpoints its offering requires, photos and marks, cost, revenue, profit |
| `request`, `estimate` | BookingRequest and Estimate rows with their status and job |
| `customers` | Customer rows with the address of the requests |
| `clock` | the source of createdAt, which orders the numbers |

The three ways to a job (`create`, `confirm`, `convertToJob`) share the read of
the last number and the insert that the unique index may refuse, with the
attempts of `withRetryOnCollision`. `complete` reads the checkpoints, stores its
work order and writes the status in three steps; `updateStatus` reads and
writes; `update` computes the profit from the revenue it has read, and
`syncJobFinancials` from the costs it has.

### TimeEntries

`entry` are the rows of one user and `now` the clock in hours. A handler that has
read an entry holds the columns it will set (`call[h].set`; `Over` is the row with
them). After a clock-out or an edit `recalculateDailyOvertime` reads the entries
of the local day and writes their split one by one: `call[h].todo` is what is left
of it, each part with its place in the day's order, and a death leaves the rest
unsplit. `timesheet` is an operator: what the service computes from the
rows, against the thresholds. Days are as short as the instance makes them.

### Accounts, AiDrafts, RateLimits

In `Accounts` a row of `user` is known by its address; `failed` and `locked` are
the two counters and locks (password and code) of both logins; `invite` and
`reset` are one-time tokens; `wrong` and `joined` are history. Handlers of
`AuthService`, `AdminAuthService`, `TeamService`, `AdminUsersService` and
`CompaniesService` read, then write; the guards of a request
(`JwtStrategy.validate`) are `Authenticated`. The sessions they open and close
are in `RefreshTokens`.

`AiDrafts` has the credit read before the model is asked (`CheckCredit`), and
read and written after it has answered (`ReadCredit`, `Consume`), each with the
window of the month it falls in. `RateLimits` has the counter raised (`Incr`)
and given its expiry by the request that found it new (`SetExpiry`), for the
address and then for the page; Redis expires keys and blocks.

### The screens

`WebApi`, `WebScreens` and `AdminScreens` are tables: an endpoint reads and
writes sets of tables and accepts moves of a status; a query has a key and an
endpoint; a mutation has an endpoint, the keys it invalidates and whether its
`onSuccess` returns the refetch; a page has queries and offers. `Screens` is the
machine over them: a behaviour picks a page and one of its queries (`place`) and
follows the cache entry of that query (`cache`, `fetch`), the page (`mounted`,
`form`), the user of the tab (`who`), the row in the database (`row`) and up to
two requests (`sent`). An answer carries what it *sees* and which accepted
requests it *lags*. Watching one query of one page at a time loses nothing:
queries meet only through the requests that invalidate them, and every pair of
page and query is an initial state.

A request is offered in one of four ways: as a button disabled while it is
pending; as one that is not, or that is in a part of the page which is mounted
anew or stands there twice, so that its `isPending` starts over ("loose": the
equipment form, the row being edited, the panel of an event, the two sections
that save the profile); in a form that stays open whatever the row becomes; or
before the page has the row at all ("blind": clocking in). `crossed` marks a query
that was in flight when its user signed out, `late` one invalidated in flight with
nothing cached, which is not asked again.

## 3. Runs

| Run | Bounds | Distinct states | Time |
|---|---|---|---|
| `InvoiceLedger` | 1 invoice, 2 intents, totals and payments 1 and 2, 1 death, every operation; one handler at a time, or two | 3.3e5 | 70 s |
| `RefreshTokens` | 4 tokens, 1 death, symmetry; one handler at a time, the same with challenges (3 tokens then, no death), or two | 1.3e6 | 150 s |
| `ServicePlans` | 3 dates, cycles 1 and 2, 1 death, every operation; one handler at a time; one at a time for any plan in any batch (no death, end date or subscription); or two that bill, edit and delete | 5.0e5 | 155 s |
| `Operations` | scenes `intake`, `rush`, `site` (3 jobs, a request, an estimate, a checkpoint, 3 attempts) and `clock` (2 entries, 2 days of 2 hours, thresholds 1) | 3.3e5 | 70 s |
| `Administration` | scenes `owners`, `logins`, `joining` (3 users, one a super admin, an organization, 2 invites, locks at 3), `drafts`, `rush` (limit 1, 2 months, 3 drafts), `limits` (2 addresses, 2 requests) | 2.3e5 | 110 s |
| `ClientSessions` | scenes `session` (4 tokens, 2 families, 2 handlers), `reload` (1 family, loads of the page, challenges) and `work`, `shared`, `handover`: each page with each of its queries, 1 request and 1 move by others or a second user, or 2 requests, these once for the pages and queries that are alike in all they can tell of requests (which are used in turn if alike) | 1.5e6 | 115 s |
| `InvoiceLedgerDoubleCredit`, `InvoiceLedgerDroppedCharge`, `RefreshTokensReuseRace`, `ServicePlansTwoJobs`, `JobsCheckpointBypass`, `TimeEntriesLocalDay` | expected violations, section 5 | | 1 s each |

The code has no lock and no conditional update, so most of what it intends
holds only while the handlers that touch the same rows do not overlap. Each
component is therefore asked two questions: what holds with one handler at a
time, whatever their order and wherever they die, and what is left when they
overlap. Both are scenes of one run.

What the runs show:

- `InvoiceLedger`. One at a time, with a death anywhere: `amountPaid` is exactly
  the sum of the Payment rows (`SerialLedgerExact`), `amountDue` what remains
  after edits and payments in any order (`SerialDueExact`), a paid invoice never
  moves again, not even by a late webhook or the scan (`SerialPaidIsFinal`), a
  charge is credited again only if a delivery died between its commit and its
  record (`SerialCreditsBounded`), the job's revenue is right whenever nothing is
  in flight and nothing died (`SerialRevenueInSync`), and a charge is eventually
  credited, or its invoice no longer waits for it (`SerialChargeSettled`).
  Overlapping, updates get lost, but only downwards: an invoice never shows more
  than was recorded (`PaidWithinLedger`), and no row credits a charge that was
  not made (`CreditNeedsCharge`). One at a time again, every step of the tables
  is one of the receivables (`SerialImplementsReceivables`): a payment by hand
  or by charge is worth its rows, closes the bill when nothing is owed, and
  goes to the bill it was meant for; a closed bill does not change; only a bill
  without payments is dropped. That is what a caller may rely on, stated
  without the handlers.
- `RefreshTokens`. One at a time: one usable token per family in clients' hands,
  a family ended as a whole stays dead, a disabled account has no session but
  what `verifyMfa` opens afterwards on a challenge got before (nothing renews it
  while the account is disabled), and the table implements `Sessions`.
  Overlapping: `ParentRetired`, and what outlives a disable, those sessions not
  counted, is bounded by the requests in flight (`StragglersBounded`).
- `ServicePlans`. One at a time: the next due date is open after anything
  (`SerialNextDateOpen`: a date that had its job already would be skipped for
  ever), billed periods tile though the cycle is edited between bills
  (`SerialPeriodsTile`), and a plan that stays active and automatic ends up
  billed to the day after any pauses, edits, deletions and one death, and
  serviced to the day if it is a member's and the scan gets to it
  (`SerialPlanServed`; section 5 has the plans that never are). Overlapping bill
  scans, edits and deletions never
  bill a period twice: the lookup is not enough, the unique index is.
- `Operations`. Creates, confirms and conversions that race for a number get
  numbers in the order of their rows, and a handler collides only where another
  has inserted, so five attempts fail only under five other creates
  (`NumbersSound`). One at a time: no request or estimate has two jobs, final
  statuses stay, `complete` finds its photos, profit is in step, although
  handlers die in the middle; a user has one shift, and a timesheet never pays
  more than the thresholds at the regular rate, nor leaves hours of an ended
  entry unsplit unless a handler died.
- `Administration`. One at a time: an owner remains, and neither login answers
  more wrong passwords or codes than it may. Overlapping: an invite makes one
  account; the credit counter is never ahead of the drafts of its month; no more
  requests pass than a window allows and each new counter has a request about
  to give it an expiry. In time a page over its limit opens again, unless a
  request died between the two calls (`PageReopens`).
- `ClientSessions`. The session of a page whose requests share a refresh is ended
  as stolen only if its refresh on mount and the shared one presented a token
  together (`NoFalseReuse`), and the browser never keeps a cookie that was rotated
  away, in that case either (`CookieUsable`). Every page of both applications that
  is at rest shows an answer of the user signed in, unless it was on its way when
  the user before signed out; and one made after every request it heard to have
  succeeded, unless the query had nothing cached and was invalidated in flight:
  the keys each hook invalidates reach every query of the page that reads what the
  request writes (`ScreensCurrent`; its comment has the other exceptions, failed
  fetches, `currentUser` and the login history). A request refused for a status
  was made on a status that has changed since, but for forms and for clocking in
  without an answer, and a button whose hook awaits the refetch is not pressed
  again on the old answer (`OffersSound`).

Why the bounds are enough to meet the hazards: two handlers give every race of
a check with a write and every lost update; a third would only repeat them. One
death reaches each point between two awaits, and the retry after it. Totals and
payments 1 and 2 give partial, exact and excess payments and edits to both sides
of what is paid; two intents give one replaced by another. One invoice is enough
for the books, which never mix two; the job's revenue is a function of its
invoices that is written whole, so one addend shows whether it follows. Four
tokens are a login and three rotations, or two families that rotate. Three dates
let the cycle change its length between two bills and a job be generated a day
early. Three jobs let two handlers collide and a newer row be deleted before the
next create. Two entries of a day are an overtime threshold crossed inside and
between them; two days, a week's threshold crossed by days each below it. Three
users are an owner, another member and a super admin; locks at 3 leave room for
one failure too many. Two months and three drafts let a draft begin in one month
and be counted in the next. Two requests of one page show what the second does
to the refetch of the first. Thresholds, attempts and limits are smaller than
the code's and named as constants; the theorems of section 4 take any value.
`MaxLedger`, `MaxDate`, `Days`, `Months`, `MaxAsked`, `MaxHits` and `MaxMoves`
stop what would otherwise go on for ever; the guards that hold a bound say so.

Deadlock is not checked: a system whose clients have stopped asking, or whose
bounds are used up, has nothing left to do.

### Fairness

- `WF(Resume(h))` in `InvoiceLedger` and `ServicePlans`: Node runs every promise
  it has started; a handler that can go on does, unless it dies (bounded).
- `SF(WebhookDeliver)`: Stripe retries an event until it is answered 2xx. Strong
  fairness, as a free slot comes and goes with other requests.
- `WF(DayPasses)`, `SF` of each scan's start: `service-plan-schedulers.service.ts`
  repeats both scans hourly and Bull runs what is queued, one after the other;
  a scan that keeps finding the plan due, with none before it that throws, gets
  its turn.
- `WF(Serve)`, `WF(KeyExpires)`, `WF(BlockEnds)` in `RateLimits`: a request goes
  on, and Redis drops keys whose time to live is over. A key without an expiry
  has no such step.

No fairness is assumed of clients, customers, Stripe's subscriptions,
administrators, the language model or the browser.

## 4. Proofs

Each holds for any sets of invoices, intents, tokens, plans' dates, jobs,
entries, users, drafts, addresses and handlers and any bounds, from the named
assumption on the constants of its module and the hypothesis of the third
column. `MCSpec` theorems state the properties of the runs themselves, of any
constants: the scenes are theirs, the sizes are not.

| Theorem | Says | Hypothesis |
|---|---|---|
| **`InvoiceLedgerProofs`** | | |
| `ConcurrentInvariant` | `Spec => []ConcurrentInv` (not a property of a run) | |
| `TypeCorrect` | `Spec => []TypeOK` | |
| `BooksNeverOverstate` | `Spec => []PaidWithinLedger` | |
| `NoCreditWithoutCharge` | `Spec => []CreditNeedsCharge` | |
| `LedgerStaysExact` | `MCSpec => []SerialLedgerExact` | |
| `DueStaysExact` | `MCSpec => []SerialDueExact` | no total is negative |
| `CreditsCounted` | `MCSpec => []SerialCreditsBounded` | |
| `RevenueFollows` | `MCSpec => []SerialRevenueInSync` | |
| `PaidStaysPaid` | `MCSpec => SerialPaidIsFinal` | |
| `LedgerStepsAsReceivables` | `MCSpec => SerialImplementsReceivables` | |
| `LedgerImplementsReceivables` | `Spec => ImplementsReceivables` | one slot |
| **`RefreshTokensProofs`** | | |
| `TokensTypeCorrect` | `Spec => []TypeOK` | |
| `RotatedTokenRetired` | `Spec => []ParentRetired` | |
| `StragglersAreBounded` | `Spec => []StragglersBounded` | finitely many handlers |
| `TokensImplementSessions` | `Spec => ImplementsSessions` | one slot |
| `OneTokenUsable` | `MCSpec => []SerialOneUsable` | |
| `ClosedSessionsStayClosed` | `MCSpec => []SerialSessionsClosed` | |
| `TokensStepAsSessions` | `MCSpec => SerialImplementsSessions` | |
| `CookieStaysUsable` | `ClientSpec => []CookieUsable` | |
| `NoSessionFalselyReused` | `ClientSpec => NoFalseReuse` | one page |
| **`ServicePlansProofs`** | | |
| `TypeCorrect` | `Spec => []TypeOK` | |
| `NeverBilledTwice` | `Spec => []BilledOncePerPeriod` | |
| `SerialJobs` | `Spec => [](OneJobPerDueDate /\ NextDateOpen)` | one slot |
| `SerialBills` | `Spec => []PeriodsTile` | one slot |
| `DueDateStaysOpen` | `MCSpec => []SerialNextDateOpen` | |
| `PeriodsStayTiled` | `MCSpec => []SerialPeriodsTile` | |
| **`WorkOrdersProofs`** | | |
| `JobsTypeCorrect` | `Spec => []TypeOK` | |
| `NumbersStaySound` | `Spec => [](NumbersGrow /\ CollisionsAccounted)` | no job is removed |
| `OneAtATimeIsSound` | `Spec => []` of the same, `OneJobPerSource`, `ProfitInStep` | one slot |
| `OneAtATimeStaysFinal` | `Spec => [][FinalStays /\ CompletionChecked]_vars` | one slot |
| `NumbersStaySoundHere` | `MCSpec => []NumbersSound` | |
| `OneJobEach`, `ProfitFollows` | `MCSpec => []SerialOneJobPerSource`, `[]SerialProfitInStep` | |
| `EndedStays`, `CompletedWithPhotos` | `MCSpec => SerialFinalStays`, `SerialCompletionChecked` | |
| `RowsStayTyped`, `OneShiftHere`, `HoursPaidHere` | `MCSpec => []RowsTyped`, `[]SerialOneShift`, `[]SerialHoursPaid` | |
| **`TimeEntriesProofs`** | | `Sized`, and |
| `RowsKeepTypes` | `Spec => []TypeOK` | |
| `OneShiftAtATime` | `Spec => []OneShift` | one slot |
| `HoursAllocated`, `HoursPaid` | `Spec => []Allocated`, `[]PaidWithinThresholds` | one slot, `Offset = 0` |
| **`AccountsProofs`** | | |
| `TypeCorrect`, `InvitedOnce` | `Spec => []TypeOK`, `[]InviteOnce` | |
| `OwnerStays`, `LockedInTime` | `Spec => []OwnerRemains`, `[]FailuresCounted` | one slot |
| `OwnerStaysHere`, `LockedInTimeHere` | `MCSpec => []SerialOwnerRemains`, `[]SerialFailuresCounted` | |
| `InvitedOnceHere`, `RowsStayTyped` | `MCSpec => []InviteOnce`, `[]RowsTyped` | |
| `LimitsKept` | `RL!Spec => []RL!KeysAccounted` | the limits in Nat |
| `LimitsKeptHere`, `CreditsCoverHere` | `MCSpec => []KeysAccounted`, `[]CreditsCover` | |
| **`AiDraftsProofs`** | | |
| `CounterNeverAhead` | `Spec => []NeverOvercharged` | at least one month |
| `PlanNotExceeded` | `Spec => []CreditsCover` | one slot, at least one month, the plan's limit in Nat |
| **`ScreensProofs`** | | |
| `PagesStayCurrent` | `ScreenSpec => []ScreensCurrent` | |
| `OffersStaySound` | `ScreenSpec => []OffersSound` | |

"One slot" (`OneHandler`, `OneAtATime`, or one member of `Handlers` or `Calls`)
says that handlers do not overlap. It is needed: `RefreshTokensReuseRace` and
`ServicePlansTwoJobs` are counterexamples otherwise, and two owners who demote
each other, or two logins at once, are two more. "One page" is needed for the
two tabs of section 5 (for `NoSessionFalselyReused` only), `Offset = 0` for
`TimeEntriesLocalDay`, and "no job is removed" because a number that others
took after it was read may be free again below the newest when it is inserted
(the scene of overlapping creates removes none; with one slot removals are
allowed). `DueStaysExact` needs totals that no discount makes negative:
`create` stores a negative `amountDue` and `update` clips it. The assumptions
of the modules are that the sets a run takes a first member of (`Handlers`,
`Invoices`) are not empty, bounds are naturals, and the null values are outside
the sets they stand beside (`OperationsAssumption`).

The argument that recurs is the one of handlers that do not overlap: *what a
handler read before an await still stands after it*.

*The ledger, overlapping.* `PaidWithinLedger` alone is not inductive: a handler's
write uses the balance it read, so the invariant must say that what is carried in
`req[h].snap` is still covered by the ledger (`SnapshotsWithinLedger`). That
stays true because the ledger of a row that exists only grows, and a row is
never created twice. `CreditNeedsCharge` needs that a delivery in flight is about
an intent that has succeeded (`DeliveriesPaid`), and success is final.
`ArgumentsOK` carries the types of what the handlers hold.

*The ledger, one at a time.* `SerialInv(h)`: the tables are sound row by row,
no other handler is in flight, the row `h` has read is still as it was and passed
the guard (`Fresh`), each credit has its recorded event, its record to come or a
death behind it (`Accounted`), and with no death and no sync to come the job's
revenue is that of the books (`Synced`). `PaidStaysPaid` is the fact, proved with
each action, that none of them writes a paid row (`PaidAlone`).

*The receivables.* By `SerialInv` the row a handler writes is still the one it
read, so the write is a step of its bill: `RecordPaymentCommit` is `Pay`,
`UpdateWrite` is `Reprice`, `RemoveWrite` is `Drop` (nothing was paid when it
looked, and nothing is paid now), `CustomerPays` is `Make`, `CreateIntentAtStripe`
is `Ask` for what is owed at that moment. `WebhookCredit` is `PayByCharge` only if
the invoice it found by the link is the one the charge was asked for. That needs
`Meant`, which holds in any interleaving: a link that is stored, and one a
handler is about to store or to credit, leads to an intent made for that invoice
(`AskedFor`); intents are never reused for another. Each other step changes
neither `bills` nor `charges`.

*The tokens.* `ParentRetired` is strengthened with what a handler knows of the
token it holds (`FlightInv`): it exists, and a successor not yet delivered has
it as parent. A revoked token never becomes live. One at a time, `SerialFlight`
says that a rotation holds a token that is still delivered and live; hence each
step opens a session, ends some, or changes none. What outlives a disable: while
the account is suspended nobody starts a rotation, or a login that is not late,
and the handlers that had started trade their place for one token each
(`StragglersInv`, by the cardinalities of both sets of what is not late). One at
a time none has started, so that what is live then is late.

*The client.* `ClientInv` couples each call with the handler that serves it
(`Coupled`), says that a new token is held by the one call that brings it
(`Undelivered`), and that the cookie is good unless an answer that replaces it
is on its way (`CookieGood`); it holds for any number of pages that refresh at
any time. `SingleInv` is of one page: it has one refresh of each kind under
way, and a session that is not `doubled` is held by one call (`Apart`) and has
no usable token but the one held and its successor (`Newest`). Statements that
revoke whole sessions, expiries and steps that write no token only let rows
fade, each with its cause (`RowsFade`), and are dealt with in one lemma. A
token presented revoked is therefore the newest such a session has, and
`RevokeFamily` finds none alive: that is `NoFalseReuse`.

*The plans.* `BilledOncePerPeriod` is inductive once the statuses that handlers
carry are types (`PlansInv`): only the index protects it. With one slot
`SerialInv` adds that the date a handler carries is still the plan's
(`CarriesDate`), that no job lies on or after the next date (`AheadOpen`); for
the bills `PeriodsTile` itself bounds every period by the next billing date. A
generation then moves the date past what it has just inserted, in the
transaction that inserts it; one that is refused changes nothing. In the
composition the steps of the world (`ElsewhereSerial`) come between any two
awaits.

*Numbers.* While creates overlap the numbers in use, and those below one about
to be inserted, have no gap (`NoGap`), so that an attempt the index lets through
has the greatest; with removals, one handler at a time, what replaces it is that
the number about to be inserted is beyond all others (`BeyondInv`). That there is
a newest row, whose number is read, is the well-foundedness of the naturals. A
handler's collisions are at most the rows inserted since it began (`Counted`).

*Jobs.* `HeldFit` and `SourceFit`: the job, request or estimate a handler has
read is as it was, unless a handler of one statement has removed it, and fit for
what it is about to become. `SourceLinked` ties a job to what it was made from.

*Time entries.* One shift: what is about to be written ends an entry's break with
it (`ShiftFits`). The hours: the regular hours of a day's split add up to
min(hours of the day, threshold), whichever entries it has (`SplitFits`), by
adding them one after the other. `HoursInv` says that, while no handler has died,
each day is `Fair`, but for the one that is being recalculated, and of that one
each entry has its part of the split or has it to come (`Halfway`); a removal
leaves a fair day fair. A timesheet's overtime is at least what is missing from
the regular hours and at least what is past the week's threshold; that is what
`PaidWithinThresholds` takes. Sums over sets are folds, which are recursive: the
lemmas about them are proved by a least counterexample, not by the library's
induction theorems.

*Accounts.* Between the read and the write of `acceptInvite` the invite may be
used by another; what holds is that an invite that has made an account belongs
to an address that has one (`InvitesSpent`), which no step takes away, so the
second insert meets the unique index. `Holds` says whose account a handler is
about. With one handler at a time, `Carries` says that what was counted or read
is still so: another owner is there while an owner's role is about to go, and the
failures read are at least those there have been since the counter was cleared:
an unlock may come in between. Steps that touch neither roles nor counters are
`Quiet` and dealt with once.

*Drafts and limits.* The counter is at most the drafts made in its month because
what a handler has read of it is (`ReadsCovered`, `CountInv`), although counts
get lost; with one slot it is exact while a handler has still to count
(`WindowExact`, `SpendInv`), through the turn of a month, and a credit that is
spent has its draft kept, to be kept, or a death behind it (`KeptBy`). A limit is
kept because the requests between counting and passing are among those counted.

*Compositions.* `LimitsKeptHere`, `CreditsCoverHere` and the theorems of the
`clock` scene do not repeat a proof: they cite what is proved of the instance of
the component (`RL`, or its proof module as `DP`, `TP`) and show that each step of
the composition is a step of the component, or none.

*The screens.* Of the tables the proof takes three facts, closed formulas that
`Screens` assumes by name and TLC evaluates before its run: every name a page
uses is in them (`TablesTyped`), a request that changes what a query of its
page reads drops a key that begins the query's (`KeysReach`), and outside of
forms a page offers a move only where its endpoint accepts it
(`OffersAccepted`). What is left to prove is the order of things, for any
number of requests. `ScreensInv` says of an answer, on its way or shown, which
requests it is behind (`LagMeant`); of a fetch in flight, that it is the
present user's or knows that it outlived a session (`FetchOwned`), and that
what it is behind by has not been heard of, or does not reach it
(`FetchFresh`); the same of a cache at rest (`CacheFresh`). A success that
reaches the query and is heard of starts the fetch anew, and what that reads is
behind nothing. For the buttons: a move in flight was made on a status in which
the API accepts it (`MadeSound`), so a refusal means that the status moved; a
button is pressed again only when its last request is over (`PressOrder`), and
a request that waited for its refetch is over only once the refetch is shown or
failed (`HeardShown`).

Left to TLC: liveness (`SerialChargeSettled`, `SerialPlanServed`, `PageReopens`),
as fairness and ENABLED are out of the prover's reach. Every other property of a
run is stated by a theorem. No module declares a RECURSIVE operator.

## 5. Where code and comments part

Each is an expected violation with a finding in `PROJECT.json`:

- `InvoiceLedgerDroppedCharge` (a bug with no concurrency needed): loading the
  pay page again after paying and before the webhook links a new intent over the
  one that succeeded; its event finds no invoice, is recorded, and the charge is
  never credited.
- `InvoiceLedgerDoubleCredit`: overlapping deliveries of one event both credit
  it, as the event is recorded only after it is handled.
- `RefreshTokensReuseRace`: a rotation in flight adds a live token to a family
  that reuse detection has just killed.
- `ServicePlansTwoJobs`: "generate now" and the scan both insert the job of one
  due date. If the slower one also moves the next date back onto a date that has
  its job, later scans skip the plan for ever.
- `JobsCheckpointBypass`: `updateStatus` takes a job to COMPLETED without asking
  for the photos of the required checkpoints; only `complete` does.
- `TimeEntriesLocalDay`: `startOfLocalDayFor` gives midnight UTC of the local
  date; west of Greenwich an evening entry is outside the day that is
  recalculated for it, and its hours are never split.

Of the same nature, met while modelling, without a run of their own:

- *a write from a value read before*: a payment recorded between the check and
  the delete of `InvoicesService.remove` goes with the invoice; an invoice paid
  between the lock check and the write of `update` is edited while PAID; a scan
  in flight makes a PAID invoice OVERDUE; two `syncJobFinancials` write in the
  wrong order, and one that dies leaves the old revenue; a rotation in flight
  outlives the removal of a company; two confirms make two jobs of one request;
  two clock-ins open two shifts; two owners demote each other; a reset token
  sets two passwords; a late draft replaces the lines of a confirmed one;
- *a step that others do not take back*: a subscription that Stripe failed to
  cancel goes on while its plan is cancelled; an ACTIVE event handled late
  revives a cancelled plan; an approved entry may be edited; a super admin may
  disable the last owner; `resetTrial` puts a paying company on trial; a refund
  made by an admin is not in the ledger;
- *sessions*: `verifyMfa` of both applications does not look at `isSuspended`,
  so a challenge got before an account is disabled or a member removed opens a
  session after it: of no use while the account is disabled, and open when it
  is enabled again; the refresh on mount goes past the shared one, so a request
  answered 401 meanwhile presents the same token again and the page may be
  signed out for reuse; two tabs share the cookie but not the refresh, with the
  same outcome;
- *plans from the booking page* are created by "system"
  (`booking.service.ts:197`), which the foreign key of `Job.createdBy` refuses
  (`schema.prisma:719-720`): such a plan is billed and never serviced, by the
  scan or by hand, and while it is due the scan ends at it, before the plans
  and the organizations that come after;
- *screens*: a query in flight when its user signs out is joined by the next
  user's page, which shows the last user's answer until something fetches again
  (`dashboard/layout.tsx:16-20` only empties the store); the clock card offers
  clocking in before its first answer and after a failed one, to a user who is
  clocked in as well (`time-tracking/page.tsx:97-140`); the cache outlives the
  session, so `currentUser` may be the previous user's for a minute; a settings
  form is overwritten by a refetch; Enter sends a message twice; revoking
  sessions leaves the login history as it was; an entry's times are edited as
  UTC and shown as local.

The first group and the two tabs were seen as TLC counterexamples with two
handlers or two pages, and so was each exception that a property names, with the
exception taken out of it; the others follow from a single handler's code.

## 6. Not modelled

Floating-point amounts and rounding; calendar arithmetic (`setMonth` overflow
moves the 31st, a day that changes its clocks has not 24 hours: hazards) and
zones that are not whole hours; mail, messages, PDF, storage and the language
model (best-effort adapters that never fail their caller, or the environment);
the onboarding e-mails, which are sent and then logged, so that a death between
the two sends one again; read-only reports and dashboards, but for which tables
they read; feature flags, which nothing reads; the report cache; the signing of
access tokens (stateless, 15 minutes); more than one organization (every query
filters by it); `FailedPayment` rows, which nothing reads back; the
subscription status "paused", which Stripe only sets at the end of a trial and
no plan has one. Of the applications: the wizards of the booking and the pay
page, the steps of the completion wizard, the voice recorder, the drag and drop
of the schedule, the fields of forms, layout; the mobile application, whose
screens are placeholders; what React's strict mode does twice in development
only. The component notes give the rest.

## 7. Plan

What is left, in order of worth:

1. A calendar module for `advanceByFrequency` and `billingPeriodFor` against
   "the same day of the next month, or its last".
2. The sessions of `RefreshTokens` composed with `Accounts`: what `disable`,
   `remove` and a reset revoke, in the step that writes the row.
3. A calendar of periods that `ServicePlans` implements.
4. The wizards of the public pages and of the completion of a job, with their
   retries and double submissions.

Runs stay few: one per group of components, its scenes within it.
