# TLA+ specifications of monitor-platform

The monitor platform is a NestJS server (`src/backend`) over PostgreSQL (through
Prisma), with a web console (`src/frontend`). It manages several applications and
their end users: it sells credits and subscriptions, charges credits for calls to
image services, resets and expires credits every night, and runs the backend of an
AI News browser extension. One process serves all requests; what makes it hard is
that every request and every timer is a chain of `await`s over the database, so that
any two of them interleave between their steps.

This directory holds the specifications of the parts with control worth checking:
credits and money, registration, the jobs and readers of AI News, the image services,
the administration, and the screens of the console.

## Inventory

Sources are under `src/backend/src/modules` unless they say otherwise.

| Component | State | Operations | Interacts with | What is hard | What makes it correct |
|---|---|---|---|---|---|
| credit accounts (`credit/`) | `CreditAccount` (three pools, totals), `CreditTransaction` | getAccount, grant, deduct, `deductFor...`, `refund...` | the credit gate, administrators | balance read before it is decremented; refunds after failures | charges and refunds balance; rows explain balances; a success is paid in full |
| credit gate of the public API (`remove-background/`) | local variables of a request | six `with...PublicCredits` wrappers, up to three charged stages | accounts, image services | nested catches, swallowed refund errors, crashes | a failed call is free |
| anonymous quota (same wrappers) | `ClearbgAnonymousDailyUsage` | insert, release | image services | unique key as the only guard, release by key | one free call a day, failures free it |
| credit scheduler (`credit-scheduler/`) | flag `running`, `lastDailyPromoResetDate`, `Subscription` | midnight run: resets, batches, period rolls | accounts, payments | read-then-write transactions, errors that end the run, missed nights | everyone is reset, periods move on, drift only from a concurrent write |
| billing dates (`common/utils/credit-billing-dates.util.ts`) | none | first and next period end | scheduler, payments | month ends, leap years | a period is a month, and one month is spared at most |
| LinkMePay (`linkmepay/`) | `Order`, the gateway's record | place order, notification | accounts, subscriptions | repeated, overlapping, lost notifications | granted for a payment |
| Gumroad (`gumroad/`) | `Order`, `Subscription`, tier, pending row | ping of a sale; AI News relay | accounts, AI News | the same; cancellations; several statements without a transaction | granted once; an acknowledged purchase is booked |
| orders (`order/`) | `Order` | create, updateStatus, refund | payments | two refunds at once; administrators against notifications | grants stay bounded |
| registration and sign-in (`public-end-user-auth/`) | `EmailVerificationCode`, tokens, `EndUser` | send, verify, complete, Google, login, API keys | accounts, mail | guesses, completions and keys that race | one bonus per user; guesses bounded; keys die only when asked |
| AI News scheduler (`ainews/ainews-scheduler*`) | in-memory flags and start times | four ticks, stale take-over | job tracking and the four jobs | a run declared stale goes on; a crash forgets flags and keeps rows | a job runs alone; a skip has a reason; intervals are kept |
| AI News articles (`ainews/ainews-ingest*`, `-cleanup`) | `AinewsArticle`, summary cache, `AinewsEdgeJobLock` | ingest, batch summaries, cleanup | language model | a lock that lapses, deletion by an old list | one batch at a time; what was dated anew survives; summaries arrive while an article is within the scan |
| AI News digest (`ainews/ainews-digest*`) | preferences with the record of the last mail | hourly run | mail, readers | readers are read once for a long run | one mail a day, opt-outs respected, trials arrive |
| AI News accounts and guests (`ainews/ainews-account`, `-anon`, `-end-user.util`) | guests by device id, likes, usage | find or make, merge, like, ask | Gumroad relay | no unique key; merges that overlap work | what guests did neither vanishes nor multiplies |
| job tracking (`ops/`) | `OpsJobRun`, debounce map | start, skip, success, fail | all timers | its errors must not reach a job | see the scheduler |
| image services (`kling-image/`, `replicate/`, `turing-room-decoration/`) | token cache, tasks of an upstream | submit, poll, several predictions at once | credit gate, settings | settings that change, polling that gives up, partial failures | signed and answered as the call's own; what is made is paid for and answered |
| administration (`auth/`, `admin/`, `role/`, `app-registry/`) | `AdminUser`, roles, tokens | login, checks of every request, removals | audit | an administrator who goes while a request runs | the credentials of the environment get in; changes are logged |
| audit and system log (`audit/`, `system-log/`, `common/interceptors/audit.interceptor.ts`) | `SystemOperationLog`, the automation actor | append, empty | all changes | written after the answer | nothing is missing without a reason |
| settings (`global-integration/`, `src/frontend/src/components/settings/`) | one shared row per integration, forms | load, edit, save, clear, toggle, merge | image services, payments | read-merge-write; calls that outlive their dialog; masked secrets; defaults in the place of what is stored | a write changes what its author edited |
| tables of the console (`src/frontend/src/app/dashboard/`) | query, requests and handlers on their way, the slice shown | page, filter, search, edit, switch, remove | the listings of every module | answers in any order; rows that come while paging | the slice fits the query; a walk misses nothing |
| shell, sign-in form, dashboards | none that outlives a render | | | | |

## Plan

Most important behaviour first. Finished:

1. **Credits**: `CreditPools`, `CreditStore`, `CreditGateway`, `CreditScheduler`, composed
   by `CreditSystem`; `CreditProofs`, with `Sums`.
2. **Payments**: `PaymentOrders` and the abstract `OncePerSale`; `PaymentProofs`.
3. **What runs by the clock**: `BillingDates`, `CronIntervals`, `AinewsJobs`,
   `AinewsArticles`; `SchedulesProofs`.
4. **Readers of AI News**: `AinewsRelay`, `AinewsGuests`, `AinewsDigest`; `ReadersProofs`.
5. **Registration**: `Registration`, `RegistrationProofs`.
6. **Images**: `AnonymousQuota`, `KlingImages`, `ReplicateImages`; `ImagesProofs`.
7. **Administration and screens**: `Console`, `Settings`, `Pages`; `ScreensProofs`.

Every safety property that a run checks is a theorem.

Left:

* an abstract mailbox (at most once a date, at least once in the end) that `AinewsDigest`
  implements, proved step by step like `GumroadGrantsOnce`;
* credit calls and the image services in one model, instead of an upstream that only
  succeeds or fails.

## Modules and the code

### Credits and money

**`CreditPools`.** The three balance columns as one record of integers (nothing in the
schema keeps them from being negative). `Split` is the order promo, subscription, payg of
every deduction; the one-credit deductions take the first positive pool, which is `Split`
for an amount of one.

**`CreditStore`.** The row of an account (`hasRow`, `balance`, `totalEarned`, `totalSpent`)
and the sums of its transaction rows (`ledger`). Each operator is one committed
transaction. `{ increment }` and `{ decrement }` are relative updates, computed values
are absolute ones: that difference is what the races are about. `balanceAfter` and the
reasons of the rows are left out.

**`CreditGateway`.** A call is a record with a program counter: `read` (getAccount and the
comparison), `create` (a missing row), `debit` (the transaction), `upstream`, `refund`
(the catch of a stage) and `refundBase` (the outer catch of the colorize pipeline).
`held` are the wrapper's local variables. A one-stage endpoint is a pipeline of length
one. An administrator's deduction is a call without an upstream.

**`CreditScheduler`.** `job` is the run of `runUtcMidnightCreditJobs`; `idle` means that `running`
is false. Each user and each subscription is handled in a transaction that first reads and then
writes values computed from the reading; the roll reads twice, the subscription (`RollFind`) and
then the account (`RollRead`). PostgreSQL's default isolation, READ COMMITTED, lets others commit
in between, so reading and writing are two actions. A month has `Month` days here.

**`CreditSystem`.** All of the above over the same tables, with grants, payments,
cancellations, bans, missed midnights, database errors and crashes.

**`PaymentOrders`.** `order` is the row, `payment` the gateway's own record, `webhook[h]` a
notification being handled: `read`, then `fail` or `pay` or `answer`. For LinkMePay
the row exists before the payment; for Gumroad the ping creates it, under the unique
number `GUM-<sale>`. `SettingsError` is the catch that acknowledges a notification
whose configuration could not be read; `WebhookError` is every error that reaches the
gateway as an error. `clerk[c]` is a refund between its check and its write, and
`repaid` a history variable of the refunds accepted. **`OncePerSale`** is what a gateway
may rely on: a sale is granted once. Gumroad's sales implement it (`GumroadGrantsOnce`).

**`BillingDates`.** `Date.UTC` with its carry, `firstSubscriptionMonthlyExpireUtc` and
`nextSubscriptionMonthlyExpireUtc` as operators on dates, and a subscription that rolls. The
comment on the second promises the same day in every month (`DayIsKept`), which the carry does not
keep; `OneMonthSparedAtMost` says what it does keep.

**`AnonymousQuota`.** `usage` is the table, as the set of its unique keys.

### End users

**`Registration`.** `codes[e]` are the rows of `email_verification_code` that are not consumed,
`consumed` the rows another call still refers to by id. A call is split at its awaits: sending is
check, clearing, insert and mail; verifying is the reading with its comparison and then the
counter or the consumption; completion is the check (before the hash of the password) and the
transaction; Google sign-in is the lookup by Google id (`GoogleRead`), the lookup by address
(`GoogleLook`) and the link or creation; a key is looked for and then written. `alone` remembers
in a call that looked for a key whether another one has been written since. Administrators create
users and change their status.

### AI News

**`AinewsJobs`.** `flag` and `since` are the fields of the scheduler service, `run` the calls of
the ticks (`start` and `finish` are the tracker's writes, `release` the `finally`), `row` the
table `OpsJobRun`, `lastSkip` the tracker's debounce map. A crash forgets flags, runs and the map,
never rows. `SkipTick` is a tick that finds its flag set; the ingest's take-over is part of
`Tick`. **`CronIntervals`** computes the firings of the expression that
`cronEveryMinutes` makes of an interval, from one to the next.

**`AinewsArticles`.** The ingest reads the rows its feeds list and writes them one upsert later;
the batch takes the lock (a row with `lockedUntil`, abstracted to `lapsed`), lists what is
missing, fills the cache and releases the lock by its worker's name. `recent` is the lookback of
`SUMMARIZE_LOOKBACK_DAYS`, by the date of publication or of creation: an article that leaves it
without its summaries never gets them, as in the code, and `SummariesArrive` excepts it.
`toLlmInput` gives no input for an article without a title; the feeds' parser keeps only items
with one, so that case is left out. The cleanup lists, deletes articles, deletes caches. A worker
may die anywhere.

**`AinewsRelay`.** `handleAinewsRelayPing` statement by statement, in the order of the code:
order, subscription, tier, pending row for a purchase, and the same for a cancellation. `sale` is
Gumroad's record, `acked` what it need not repeat. Visits of the reader merge the pending row.

**`AinewsGuests`.** Guests found by device id, `latest` the one with the newest `lastActiveAt`;
the merge as one transaction that locks the target's row (two merges into each other's guests
deadlock and one is undone, `MoveFails`); likes and summaries as read and write. A link of the
account (`ComeAs` with `link`) sets the device id and ends with all of `upsertDeviceGuest`; one
without a device id goes by the id the extension kept (`ComeWithHint`), which matters only when it
is a guest's. The error of deleting a guest that is already gone is swallowed
(`ainews-end-user.util.ts:172`), so only the deletion of a like by its key (`RowGone`) stops a
second merge of one guest. `crossed` is the history of what met a merge; each part of `WorkIsKept`
names the meetings it excepts.

**`AinewsDigest`.** `digest` holds the snapshot that `runDigest` takes, in three readings, of
payers, of the preferences of payers and of those of trial readers, then the readers still to go,
and the step of the present one: window, brief, mail, record. `bare` are readers who lack what a
mail needs (an address, an industry, today's articles): they are passed over without any fault and
as long as that lasts. `daily` and `trials` count mails as history.

### Images

**`KlingImages`.** A call reads the settings, signs with the cached token (reused until it is
`Refresh` old, valid for `Validity`), creates a task, and polls for `PollMax` rounds; a room
decoration loops over its themes once each, without blank ones, and before the first reads the
settings for its model (`ResolveModel`). A call without both keys is refused (`Ready`). The
upstream settles tasks at any time and may lose an answer.

**`ReplicateImages`.** The settings and the token in two reads, the refusal of a call without an
image (`AfterToken`), one prediction or several at once, and the collection of what was made;
`proxyRemoveBackground` is the service `cutout`.

### Administration and console

**`Console`.** `consoleCall` is a request: sign-in (`FindAdmin`, `EnsureAdmin`, `FindAgain`,
`FinishLogin`) or a change (`Validate` is the JWT strategy and the guard, `ReadTarget` the
handler's reading, `Commit` its write, `PersistLog` the interceptor's). Keys of removed
administrators are never given out again. `Spellings` are addresses that differ from the
environment's by upper case only: a sign-in takes them for one (`Like`), the lookup of a new
address does not (`Of`). An administrator with a log row on its way may be removed, and then the
row fails, or the removal may be undone by the row (`Collides`); both outcomes are there.

**`Settings`.** `setting` is the shared row, a field standing for all fields that are treated
alike; `form[w]` the dialog of a window, `switch[w]` the power button of its list, `call` what was
asked of the server, which goes on when the dialog is closed. The edit button works while a toggle
or the list is on its way, and answers come in any order. The merge on the server is a reading and
a later write. Loading a row is not the identity: `Shown` is a model as the form shows it, with
the default in the place of one that is not set, out of date (Replicate, on the server) or not
offered (Kling, `pickModel`), and saving writes what is shown. A save that ends closes whichever
dialog is open by then (`Afterwards`), as `afterPanelSave` does.

**`Pages`.** One table of the console with its way of querying (in the database or in the
browser), `asked` the requests on their way and `shown` the answer on display. A handler (saving a
form, switching, removing, adding) is a click, which keeps the query of that moment, and an
answer, which asks again with it; several overlap, as no button waits for another. What the forms
hold is left out: several of them rebuild or default columns nobody touched
(`pricing/page.tsx:119`, `users/page.tsx:115`, `apps-panel.tsx:125`), so nothing exact can be said
of what they save. Rows are a function from keys and slices are chosen by the number of newer
rows, not by taking subsequences, which the provers could not follow. Keys are given in ascending
order, as are the creation times by which the server sorts; rows with one creation time (those of
one deduction) have no fixed order in the code, and the model does not have them.

### Modules for model checking

`MCCreditSystem` and `MCPaymentOrders` give values to constants. `MCAccounts` (`Registration`,
`Console`), `MCImages` (`AnonymousQuota`, `KlingImages`, `ReplicateImages`), `MCReaders`
(`AinewsRelay`, `AinewsGuests`, `AinewsDigest`), `MCSchedules` (`AinewsJobs`, `AinewsArticles`,
`BillingDates`, `CronIntervals`) and `MCScreens` (`Settings`, `Pages`) hold parts that share no
state that matters here: a behaviour picks one part, `part`, and takes only its steps. So one run
checks every part by itself, and no product of unrelated states is explored; fairness is that of
the part that was picked.

## Runs

| Run | Asks | Bounds | Result |
|---|---|---|---|
| `CreditRaces` | are charges held or refunded, is a success paid and a failure free, and does only a stale reading overdraw? | 1 user, 2 calls of 1 or 3 stages or an administrator's deduction of 2, 2 grants of 1 to 3, 1 fault | holds |
| `CreditCycle` | do columns agree with rows over nights, is everyone reset, does drift need a concurrent write, do runs end and ended periods roll? | 2 users, 1 call, 2 midnights, 1 grant, 1 fault, 3 batches | holds |
| `CreditOverdraft` | is a deduction always covered? (`credit.service.ts:179`) | 2 calls | violated: two readings of one balance |
| `PaymentAdmin` | grants against payments, with administrators at work | 2 orders, 2 notifications at once, 1 refund at once, 2 acts, 1 fault | holds |
| `PaymentDelivery` | does every outcome arrive, and a Gumroad sale grant once? | 2 orders, 2 at once, 2 faults | holds |
| `PaymentDouble` | is the LinkMePay notification idempotent? (`linkmepay.service.ts:243`) | 1 order, 2 at once | violated: two copies grant twice |
| `MCAccounts` | one bonus, bounded guesses, keys that live until they are regenerated; does the owner of the environment's credentials always get in, and is every change logged? | registration: 1 address, 1 Google account, 2 calls, 3 codes, 2 guesses allowed, 1 act of an administrator, 1 fault; administration: 2 spellings of one address, 3 keys, 2 roles, 1 application, 2 requests at once, 3 acts | holds |
| `MCImages` | slots against calls; signatures, answers and images against tasks | quota: 3 calls, 2 addresses, 2 days, 1 fault; Kling: 2 calls, 4 tasks of a kind, 2 keys, 1 patch, 2 troubles; Replicate: 1 call, 2 changes of settings | holds |
| `MCReaders` | is a sale booked once and in the end, does guests' work survive merges, are mails sent once, to who wants them? | relay: 1 sale, 2 pings at once, 1 late copy, 1 visit, 1 fault; guests: 2 guests and a reader, 2 calls; digest: 2 readers in two time zones, 2 changes, 1 fault | holds |
| `MCSchedules` | do jobs and batches run alone, are skips justified, do articles and summaries survive, are calendar and intervals kept? | 2 jobs, 2 runs, clock to 4 with a limit of 2; 1 article, 2 domains, 2 workers; payments on every day of 2023, 2024, 2099, 2100 and 24 periods; 13 intervals | holds |
| `MCScreens` | does a save write only what was edited, does the slice fit the query, does a walk miss nothing? | settings: 2 windows, 2 calls at once, 4 edits and clicks, 1 lost answer; tables: 10 kinds, 3 rows, slices of 1 and 2, 2 requests and 2 handlers at once, 4 deeds | holds |
| `BillingDay` | does every period end on the day of the first? (`credit-billing-dates.util.ts:17`) | payments on every day of 2024, 3 periods | violated: 31 May is followed by 1 July |

Why these bounds are enough to be interesting. A race needs two calls, and a price of two over
pools filled by two grants makes charges span pools and pools go negative. One fault of any kind
can strike at every step (`MaxFaults` and its kin count failed database calls, crashes and missed
midnights together). Two midnights give a run that meets another one and a period that ends twice.
The four years contain a leap year, the years around it and a century that is not one; the
intervals contain divisors of an hour and of a day, values that are neither, and values that are
cut. Three anonymous calls let one fail while a second waits and a third arrives. Two guesses
allowed and two calls let a guess be compared past the limit. A copy that is repeated after its
acknowledgement and a second ping at once let every statement of the relay meet another ping's. A
run that lasts two units of a clock to four can be declared stale while its successor ends. Slices
of one row make every row a page border. The one article of `MCSchedules` is not cut by
`MAX_ARTICLES_SCANNED`: the cut is in the model and the proofs, and TLC does not exercise it. The
digest starts with one of its two readers paying; who pays changes from then on. The remaining
counters only keep the state space finite.

`MaxBatches` is the code's 200 except in `CreditCycle`, where 3 is already more than the
periods that can end in two midnights; with 3 a period that never moved on would be met by a
run that gives up, as in the code, instead of by 200 equal batches.

`MCAccounts` identifies requests and keys of administrators, and `MCScreens` windows and calls, up
to their names: nothing in the code orders them and no property is about a particular one. The
properties of both runs constrain states and single steps only, so this is sound for them.

Deadlock checking is off in every run: calls are used up and counters reach their bounds,
so the models stop.

## Fairness

Safety needs none. All fairness is of steps the program or its peers take by themselves:

* `CreditSystem!FairSpec` is weakly fair to the steps of a call and of the midnight run: both
  are chains of promises settled by the database or by an image service whose client has
  a time limit. Arrivals, grants and faults are not fair. (`NightsSettle`)
* `PaymentOrders!Delivery` and `AinewsRelay!RelayFairness` add strong fairness of a gateway that
  repeats a notification until it is acknowledged, which both controllers ask for
  (`linkmepay-webhook.controller.ts:21`, `gumroad-webhook.controller.ts:19`); strong, because
  the bound on requests served at once may disable the delivery again and again.
  (`OutcomeArrives`, `PurchaseArrives`)
* The relay is also strongly fair to visits, the extension asking for the tier now and then:
  a purchase of somebody who never comes back is never merged. (`PendingIsMerged`)
* The digest is weakly fair to the steps of its run, which a cron job starts every hour; clock,
  readers and failures are not fair. (`TrialArrives`)
* The batch of summaries is weakly fair to the steps of a worker, which a cron job starts
  again, and to the time after which a lock lapses. (`SummariesArrive`)

## Proofs

Everything below is checked by TLAPS for every value of the constants that satisfies the
named assumptions of the modules, so for any number of users, calls, orders, notifications,
sales, jobs, articles, tasks, windows, rows and administrators, and for any bound. Every
safety property that a run checks, invariant or action property, is a theorem. Each theorem
`Spec => []Inv` rests on an inductive invariant, which TLC checked on the runs' instances before it
was proved, and each is laid out the same way: the initial states, one lemma per action, the
properties from the invariant.

| Module | Theorems | What makes it inductive |
|---|---|---|
| `CreditProofs` | `TypeCorrect`, `TotalsAgree`, `PaygAgrees`, `AccountsAgree` | relative updates add the same to columns and rows, and no write of the job touches the permanent pool |
| | `PaidInFull`, `OverdraftOnlyFromStaleRow` | `CallsOK`: a call about to debit has read a row that covers its price, and the stages behind it are paid; `Split` of a covered amount adds up to it, also with negative pools |
| | `FailuresAreFree` | `HoldingsOK`: what a call holds at each of its steps; a call in a catch goes down the stages it was charged for |
| | `EveryChargeIsHeld` | the same, and that the sum over all calls changes by what one call changes (`Sums`) |
| | `EveryoneIsReset` | `ResetsOK`: who was listed and is not in the loop any more has had the reset |
| | `DriftOnlyFromStaleJob` | an action property: the drift changes only in a write of the job whose reading is old |
| `PaymentProofs` | `TypeCorrect`, `GrantsArePaid`, `PaymentsAreGranted`, `GrantsFollow` | `HandlersOK`: a notification that goes on to book is of a payment that succeeded |
| | `GrantsStayBounded` | `BoundsOK`: before an order is paid only the times it was open before have granted, afterwards also those who still book; a count of notifications |
| | `PingsAreIdempotent` | the refinement of `OncePerSale`: a sale has its order exactly when it was granted once (`SalesOK`), every step of `Spec` is a step of the abstract specification or none |
| `SchedulesProofs` | `CycleTypeCorrect`, `CycleHolds`, `PeriodsLastAMonth` | `OneMonthSparedAtMost` is inductive with the types; each step splits on the carry of day and month |
| | `CronTypeCorrect`, `IntervalsHold` | the last firing is one of the day's; the next is the least of a nonempty set of numbers |
| | `JobsTypeCorrect`, `RunsAlone`, `SkipsHaveReason` | `FlagsOK`: a flag is set while one of its runs is alive; `YoungOK`: no run of the ingest is as old as the limit unless one was |
| | `NewsTypeCorrect`, `BatchesRunAlone`, `ArticlesStay` | `LockOK`: a worker not past the time of its lock holds it; `KnowsOK`: an ingest that met no other knows the domains it will write |
| `ReadersProofs` | `RelayTypeCorrect`, `SalesAreBookedOnce` | `PingOK`: what a ping knows of its sale at each statement; `OrdersOK`: what a grant says of its order |
| | `GuestsTypeCorrect`, `WorkSurvivesMerges` | `CallsFit`, and what a call that has read adds to the sums when it writes (`UsageOK`, `LikesOK`, `CoverOK`, with `Sums`) |
| | `DigestTypeCorrect`, `MailsGoOutOnce`, `OptOutsHold` | `QueueOK`, `TimesOK`, `DailyOK`, `TrialOK`, `DeafOK`: the reading of the last mail is still true for the queue, no mail is of a day to come, what was sent is recorded or about to be |
| `RegistrationProofs` | `RegistrationTypeCorrect`, `BonusIsOnce`, `KeysDie` | `CallsOK` keeps apart what calls write to users; `KeysOK`: a call about to make a first key, and not told of another, finds none |
| | `GuessesStayBounded` | `GuessOK`: the guesses a code stood and those being compared with it, together; a count of calls |
| `ImagesProofs` | `TypeCorrect`, `OneFreeCall`, `RowsStayWithHolders`, `FailuresAreFree`, `SlotsFit` | that calls of one slot exclude each other, only together with: the one which has the slot has its row |
| | `KlingTypeCorrect`, `CallsStayApart`, `TasksStayPaid` | `GenOK`: a call has made one task for every item behind it, and one for the item it polls; `TasksOK`: task numbers have no gaps; `CacheOK` |
| | `OutcomesFit` | `RunOK`: what a call has at each of its steps; a failure with predictions has no image |
| `ScreensProofs` | `SettingsTypeCorrect`, `UneditedFieldsStay` | `SettingsIInv`: the history of a form or a call covers what the row is and what was read of it, so an input nobody touched, and what is sent of it, is a value of that history as it is shown |
| | `PagesTypeCorrect`, `DisplaysFit`, `WalksMissNothing` | `AnswersFit`, `OnePage`, `LastIsRight` (the last request is for the query in force, or it was overtaken), `WalkFits` (a row not seen yet has as many newer ones as were passed) |
| | `ConsoleTypeCorrect`, `NothingMissing`, `OwnerGetsIn` | `CallFits`: whose change it is is known and who met the environment's address; the changes done are the rows of the log plus the calls that still owe one, a finite set that is counted |

**`Sums`** proves what the models need of `SumFunction`, the fold of the community modules over the
domain of a function: that it is a number, that it is zero of zeros, and what changing it at one
argument does. The prover cannot cite an induction theorem that takes an operator. The induction
is done by hand: if a set of arguments were a counterexample, there would be a least one, because
the strict subsets of a finite set are well founded. The same argument with a set of natural
numbers gives the least firing in `IntervalsHold`.

**Assumptions.** They say that the bounds are natural numbers, that marks for "nothing" differ
from real values (`NoId`, `NoSale`, `NoWorker`, `NoKey`, the states of the automation actor), and:

* `Requests` (credits, registration), `Handlers`, `Clerks`, `Guests` and `ConsoleCalls` are
  finite: their members are counted or summed, and one process serves finitely many at once.
  (`Jobs`, `Workers`, `Calls`, `Windows`, `Users` and the rest may be infinite.)
* a key that nobody holds exists (`Keys`): random keys do not repeat.
* a refreshed Kling token is younger than its validity, `Refresh < Validity`, as 25 minutes are less
  than 30.
* `Wishes` (what callers ask Kling for) is not empty, there are at least two pages of rows to
  ask for (`MaxRows`), and the fallback of an interval is one an hour allows.

Every assumption is evaluated by TLC in the runs, so it holds of the instances there.

**Model-checked only.** The six liveness properties: `NightsSettle`, `OutcomeArrives`,
`PurchaseArrives`, `PendingIsMerged`, `TrialArrives`, `SummariesArrive`. The prover does not
reason about fairness and `ENABLED`. The three properties that the code violates are refuted by
TLC.

**What the proofs changed in the models.** An invariant that is not inductive shows what was left
out. `LikesNeverMultiply` was false with three guests, more than the run has: a like that is
written between two merges of one guest lets the second through (see below), so it now excepts
likes that met a merge. `Registration` counts the calls that compare a guess (`Guessed`), and
`Pages` selects slices by counting. Type invariants were completed where a variable had no domain.

## What the specifications show of the code

Three runs exhibit a disagreement between the code and its own comments: `CreditOverdraft`,
`PaymentDouble` and `BillingDay` (see the table). Others were met while the modules were written;
some have a definition that TLC refutes but no run of their own:

* a renewal between the scheduler's reading and its write is wiped
  (`credit-scheduler.service.ts:216`, `:257`; `ExpiresOnlyEndedPeriods`);
* a settings query that fails is acknowledged like a handled notification
  (`linkmepay.service.ts:276`; `AckMeansHandled`);
* two refunds that read one order, each within the price, together exceed it, and so do two
  with the order set back to paid in between, since incrementing the null of the
  column leaves it null (`order.service.ts:101`; `RefundsWithinPrice`);
* of two merges of one guest at once the second is undone only because the like it moves is gone
  (`ainews-end-user.util.ts:238`; the deletion of the guest, `:172`, swallows its error); a like
  that was in flight puts the row back, the second merge goes through, and the like counts twice;
* a pending subscription can also be left for somebody who has signed in
  (`gumroad.service.ts:669`; `PendingIsBeforeSignIn`); `PendingIsMerged` shows that a visit
  repairs it;
* the add-ons of the colorize pipeline are charged before their steps and not after them
  (`remove-background.service.ts:669`);

* credits of a subscription that was cancelled never expire, as only active ones are looked
  for (`credit-scheduler.service.ts:228`), and a night handles at most 200 batches (`:223`);
* `refunded` pings are acknowledged before the relay is asked, so that the relay's own branch
  for them is never reached;
* an ingest declared stale goes on, and clears its successor's flag when it ends
  (`ainews-scheduler.service.ts:155`); rows of runs that crashed stay `running`; the
  debounce of skips, an hour, never applies to the ingest, whose limit is shorter;
* an interval that cron cannot express becomes every 59 minutes of the hour
  (`ainews-scheduler.util.ts:8`);
* the template form of the console cannot clear a subject, a trigger or a webhook; forms write
  back what they displayed or a default in its place (a dialog opened while the window's own
  toggle runs writes the old switch back); a dialog that saves one form of the upscale panel
  reloads and discards edits of the others; a save that ends closes a dialog opened since
  (`integrations-settings-list.tsx:280`); a dialog whose row could not be loaded shows defaults,
  and saves them; searches in the browser find only rows that were loaded; answers of overlapping
  requests are shown in the order they arrive, and handlers ask with the query of their click. The
  properties of `MCScreens` exclude these cases by name, and hold of the rest;
* addresses of administrators are unique with their case and looked up without it
  (`admin.service.ts:19`, `auth.service.ts:95`).

## Not modelled, and assumptions

* A database call of a credit call that fails is taken not to have committed. (In
  `AnonymousQuota` an insert that fails may have.)
* An upstream that timed out counts as failed for the credit gate whatever it does later;
  `KlingImages` has the task that goes on.
* `PaySubscription` and `BookPayment` are two views of one transaction: the first shows its
  effect on the account, the second its idempotence. `Registration` counts bonuses and leaves
  the account to `CreditStore`.
* The creation of an account inside a payment's transaction can conflict with another
  one; that rolls back and is repeated, like `WebhookError`.
* Gumroad pings that are refused or skipped (unknown seller, plan or user, refunds and
  disputes of credit purchases) only write a log.
* LinkMePay being switched off, or its configuration incomplete, while a payment is on its
  way acts like `SettingsError` on every notification, and is not a fault of its own.
* The creation of a missing settings row, where two first readers conflict
  (`global-integration-settings.service.ts`), the copy of the pricing page, what the forms of the
  tables hold, the polling of the figures above the job history (it reloads figures only), and
  rows of one creation time are left out.
* Profiles, statistics, the listing of news, preferences' tracking, feedback and the analytics are
  reads or plain writes of one row; of them only the paged lists are modelled (`Pages`).
* Mail, SMTP, feeds, language models, Google, Gumroad, LinkMePay, Kling and Replicate are
  external: a call to them succeeds, fails, or has its answer lost.
* What texts say, how they are rendered, signatures and encodings of images, and the layout of the
  console have no part in any property.
