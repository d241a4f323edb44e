# Verification of the booking backend

TLA+ models of the backend under `src/`, checked with TLC, and proofs checked
with TLAPS. The program is a TypeScript HTTP server over PostgreSQL. It takes
stay requests, holds and captures money through Stripe, runs maintenance sweeps
on a timer, pays hosts, moderates listings and sends mail from an outbox table.
Requests interleave at every `await`. Most handlers are several SQL statements
without a transaction around them, and several of them call Stripe in between.
The models are about that.

Paths below are relative to `src/src/modules/` unless they start with `db/`,
`core/`, `domain/` or `middleware/`, which are under `src/src/`.

## 1. Inventory

| Component | State | What is hard | What makes it correct |
|---|---|---|---|
| Bookings (`bookings/`, `db/registry/bookings.ts`) | `booking` with its exclusion constraint, `booking_payment`, `booking_cancellation`; advisory locks | check, lock, re-check, insert; claim, refund, restore; every handler against every other | a night is sold once; one closer per booking; a settled booking stays settled; no sweep chooses a paid request |
| Maintenance worker (`bookings/bookings.maintenance.ts`) | none of its own | runs against requests in flight; errors are logged and swallowed | abandoned holds free their nights; finished stays become completed |
| Listing calendar (`listings/calendar.repository.ts`) | `calendar_night`: blocked nights and prices by date | saved without the bookings' lock; three queries decide whether a night is free | picker, search and checkout agree; a save keeps the fields it was not sent |
| Payments (`payments/payments.*`) | payment rows; intents and undelivered events at Stripe | events late, reordered, repeated; two intents for one booking | a row never moves backwards; late payments are reversed |
| Refunds and policy (`payments/refunds.ts`, `domain/cancellation.ts`) | refund amounts, idempotency keys | partial refunds; lost answers; repeated attempts | nobody gets back more than was recorded; waiting never pays |
| Administrator operations (`admin/operations.repository.ts`) | `booking_refund`, the rows above | four statements without a transaction | as above |
| Host payouts (`payments/payouts.ts`, `admin/admin.repository.ts`) | `payout`, `payout_item`, transfers at Stripe | two administrators; a lost answer; the charge that paid the host already | a stay is paid out once; a paid row means money was sent |
| Outbox (`notifications/dispatcher.ts`, `mailer.ts`, `admin/notifications.repository.ts`) | `notification_outbox` | overlapping runs; time-outs after delivery; crash between claim and outcome | no unexplained duplicate; every mail settles |
| Accounts and sign-in (`accounts/`, `core/totp.ts`) | members, recovery codes and tickets, links, second factor, guesses in memory | a code tried in parallel; a ticket used twice; deletion against a booking being made | a code is good once and for a bounded number of guesses; who is erased stays out |
| Roles and identity (`admin/admin.routes.ts`, `admin/operations.*`, `accounts/`) | role grants, suspensions, identity documents | administrators dismiss one another; a decision is two statements | somebody runs the platform; the mark on an account is what was decided |
| Rate limiter (`middleware/rateLimit.ts`) | counters by window, in the database or in memory | window edges; a database that goes away and returns; processes that start again | at most twice the limit in any window's length for every counter that counted |
| Support desk (`support/`, `admin/support.repository.ts`) | tickets and their messages | a message and the status it leads to are two statements | a member who waits is in the queue |
| Listings and moderation (`listings/`, `properties/`, `admin/moderation.repository.ts`) | `listing`, `property`, `listing_submission`, `moderation_log` | a decision on a listing that is edited, banned or deleted meanwhile | what is public was approved; the audit trail is true |
| Catalogue cache (`core/catalogueCache.ts`) | search results in memory, a version | a load in flight during an invalidation | no answered write is missing from an answer |
| Reviews (`reviews/`, trigger in `db/registry/functions.ts`) | reviews, rating of the property | two recomputations, each with its snapshot | the rating is that of the visible reviews |
| Messaging (`messaging/`) | threads, messages | a message arrives while its thread is opened | what is marked read was shown |
| Pricing (`domain/pricing.ts`, `domain/smartPricing*.ts`) | none | stacked rules, rounding, two queries of the occupancy | prices stay in the host's bounds; the preview is charged |
| Settings, credentials, exchange rates (`settings/`, `currency/`) | rows, and copies in memory | a load that is overtaken; a provider that is down | the copies follow the rows |
| Finance, console, dashboard (`admin/`, `host/`) | bookings, payments and rates read by six queries | a booking with several payment rows; rounding at different places, in doubles and in decimals; stays whose host is gone | the reports agree but for what the code's own rounding and joins explain; closed months stay closed |
| Catalog and taxonomy (`admin/catalog.*`, `admin/taxonomy.repository.ts`, `equipment/`) | types, amenities, countries, cities | an item is deleted while a listing takes it; servers seed together | what is used exists; defaults are there |
| Query gateway (`db/query.ts`, `db/pool.ts`, `db/migrate.ts`) | the pool, the one repair in flight | transactions hold the pool and wait for a repair that needs a connection | every request is answered |
| Favorites, middleware, boot, documentation, seeds | rows of one member; wiring | little | — |

How they interact. The handlers call the repositories; repositories share
nothing but the database. `bookings` calls `payments/refunds.ts` between two of
its statements. Stripe calls back through the webhook, which writes the payment
rows and may confirm a booking of an instant-book listing. The worker calls the
repository functions a request calls, on a timer. Everything queues mail into
the outbox, best effort; the dispatcher drains it. Payouts and reports read the
bookings and payment rows and write their own tables. Every statement goes
through the query gateway, which may hold it until the schema is repaired.

`PROJECT.json` lists the components with their status and the hazards at their
lines.

## 2. Modules

| Module | Models | State | Actions of the code |
|---|---|---|---|
| `NightLedger` | abstract: a night has one owner at a time | owner by night | sell, return |
| `Reservations` | the booking table under concurrent requests; implements `NightLedger` | bookings, requests, today | see below |
| `StayCalendar` | the host's calendar against checkouts of one listing | `calendar_night` rows, bookings, requests | `SaveCalendarNights` (snapshot, then write), `ClearCalendarNights`, `SetListed`, the checkout in five statements, cover, cancel |
| `BookingMoney` | the money of one booking | rows, intents, keys, undelivered events | see below |
| `HostPayouts` | payouts of one host and their transfers | stays, payouts, transfers, requests | `ReadEligible`, `InsertPayout`; `StartPaying`, `Transfer`, `MarkPayoutPaid` |
| `NotificationOutbox` | the mail queue and its overlapping runs | rows, runs | `ClaimBatch`, `Send`, `MarkSent`, `MarkFailed`, requeue, loss of a run |
| `PasswordReset`, `TwoFactor`, `EmailVerification`, `MemberErasure` | the stores of one member | rows, requests in flight, history counters | see below |
| `RateLimiter` | the fixed window of one subject | a counter for the database and one for every run of a process, the clock; `let` records the attempts each let through | `Attempt`, `Sweep`, `Restart`, the database goes or returns |
| `SupportDesk` | tickets and their messages | ticket rows, requests | create, answer (both sides), note, assign, set the status, one-click actions with their record |
| `AdminRoles` | roles, suspensions, bans | grants, suspended, erased | `GrantRole`, `RevokeRole`, `SetUserSuspended`, `SetUserBanned`, `RestoreUser`, `EraseOwn` |
| `IdentityCheck` | the document of a host and the mark on the account | document, verified, requests | `GrantHost`, `SubmitIdentityDocument`; `SetVerification`, `SyncVerified`; `EraseOwn`; `RecordStripeIdentity` |
| `ListingModeration` | saving, publishing, approving, refusing, suspending, banning, deleting | listing rows, the host, the audit trail, requests as scripts of statements | one action per statement of each script, `FileIdentity`, `GuestBooks` |
| `ListingOwnership` | whose a stay id is, and the lists that count listings | property, listing, submission rows | three checks, then the upserts of `saveListing`; delete, moderate |
| `CatalogueCache` | searches that load and store, writes that invalidate | committed changes, entries, version | `StartSearch`, `ReadRows`, `StoreResult`; `CommitWrite`, `FinishWrite`; changes of other servers, the clock |
| `ReviewRatings` | reviews, the trigger and the recomputation at READ COMMITTED | reviews, rating, row lock, snapshots | the six handlers, `StartTrigger`, `Trigger`, `StartRefresh`, `Refresh`, commit, rollback |
| `Messaging` | one conversation | thread, messages, who was shown what | find, create, attach, post, open (load, mark, list), close, reopen |
| `StayPricing` | every rule of a night's and a stay's price, the preview, the refund policy | rules, prices, stays, today | save rules, prices, discounts; book, cancel; a day passes |
| `PlatformSettings`, `IntegrationConfig`, `ExchangeRates` | copies in memory of rows | row, copy, requests, the clock | read, keep, change, drop; save key by key, load, take over; ask, read, fetch, save |
| `FinanceBooks` | six reports over the same rows | bookings, payment rows, rates, months | book, confirm, complete, cancel, adjust, set a rate, a host goes, next month |
| `CatalogItems`, `DefaultPlaces` | types and amenities in use; places seeded at boot | rows, one listing or the servers that start | check, save; look up, retire or delete; sync and seed at boot |
| `SchemaHealing` | statements that meet a missing table | missing objects, requests, the repair, connections in use | begin, connect, statement, heal, retry, commit, roll back; the repair's own steps |
| `AccountConstants` | constants and assumption the account stores share | — | — |

The MC modules hold the instances. Components that share no variable run in one
instance: a variable `part` (`turn` in `MCProgress`) says which one moves and the others stay in an
initial state, so every behaviour of a component is a behaviour of the instance
and the state spaces add up instead of multiplying. `MCCalendar` runs
`Reservations` and `StayCalendar`; `MCReservations` runs `Reservations` against
`NightLedger`; `MCProgress` runs `Reservations` and `SchemaHealing` with
fairness; `MCFaults` runs `BookingMoney` and `FinanceBooks`; `MCStay` runs
`BookingMoney` twice, `Messaging`, `ListingOwnership`, `CatalogItems` and
`DefaultPlaces`; `MCMoney` runs `HostPayouts`, `StayPricing` and the three copies;
`MCAccounts` the four stores of a member, `RateLimiter`, `SupportDesk`,
`AdminRoles` and `IdentityCheck`; `MCCatalogue` runs `ListingModeration`,
`CatalogueCache` and `ReviewRatings`. `MCBookingMoney`, `MCRates`,
`NotificationOutbox` and `ReviewRatings` run one each.

An operator named `X_Something` under a comment "Mutation of X" is not part of a
model: it is what a plausible mistake in the code would make of `X`, and shows
that the property it is paired with in `PROJECT.json` depends on that code.

### Reservations

A request is a record with a step (`pc`) and the data the code holds in local
variables between two statements. Each action is one statement, one transaction
or one call. A request can be lost (`LoseRequest`) between any two: the process
stops or the connection drops, an open transaction rolls back and its advisory
lock goes.

| Code | Actions |
|---|---|
| `createBooking` | `StartCreate`, `ReleaseOwnHolds`, `CommitRelease`, `SweepExpiredHolds`, `CommitSweep`, `CheckAvailability`, `LockAndRecheck`, `InsertBooking` |
| `decideBooking`, accept | `StartConfirm`, `SweepExpiredHolds`, `CommitSweep`, `CheckAvailability`, `Capture`, `DecideConfirm` |
| `decideBooking`, decline; `declineUnansweredRequests` | `StartDecline`, `DeclineUnanswered`, `Claim`, `Refund`, `Unclaim`, `FinishDecline` |
| `cancelBooking` | `StartCancel`, `Claim`, `Refund`, `Unclaim`, `FinishCancel` |
| `adminCancelBooking`, `refundBooking`, `adjustBooking` | `StartAdminCancel`, `AdminRefundThroughStripe`, `AdminClose`, `AdminPay`; `RefundBooking`; `AdjustBooking` |
| webhook | `StartWebhook`, `RecordPayment`, `ConfirmInstantBook`, `RecordFailure` |
| worker | `FindUnpaidBookings`, `CommitExpired` (or `ExpireUnpaidBookings`, both at once), `CompleteFinishedStays` |

A sweep (`expireUnpaidBookings`, `releaseOwnHolds`) is two steps. The first is the
snapshot of its UPDATE at READ COMMITTED: the payments it sees decide which
bookings it finds (`req[r].found`, `worker`). The second is its commit, which takes
those of them off the calendar that are still pending, whatever was recorded of
their payments in between: the UPDATE looks again at the booking when it had to
wait for its row, and at `payment` it does not look again.

The exclusion constraint is `Conflicts`: a statement that would put two live
bookings on one night fails, whatever the application checked before. A payment
is reduced to whether a row covers the booking; whether Stripe succeeds is a free
choice. Reasons for refusing a checkout that live elsewhere (blocked nights,
minimum stay, guests, an unpublished listing) are one alternative of
`CheckAvailability`; `StayCalendar` has the blocked nights. When the payment is
recorded on a refunded booking the row may stay refunded or a new row may cover
it, as the intent is the old one or not.

### BookingMoney

One booking with amounts in units of its total. `row` are its payment rows in
order of creation; `intent`, `keys` and `mail` are what Stripe knows: intents,
the idempotency keys it has answered, the events it still has to deliver.
Stripe is not under `src/`: what is modelled of it is what the code relies on
(a capture needs a held intent, a repeated key answers as the first time, a
refund never exceeds what is left on the charge, events arrive in any order
and are delivered again until they are acknowledged).

`Look` is the SELECT of the live payment row together with the retrieval of its
intent; `StripeCall` is the capture, cancellation or refund that follows, which
may take effect, be refused, fail, or take effect and lose its answer. What comes
before and after is per handler: `Start…`, `Claim`; `Unclaim`, `FinishDecline`,
`FinishCancel`, `DecideConfirm`, `AdminClose` … `AdminPay`. The sweeps are `FindUnpaid`
(the snapshot), then `ExpireUnpaid` or `ReleaseOwnHold` (the commit), or `DropNothing`
when the booking was answered meanwhile; `CloseIntent` follows. The webhook is
`Deliver` (which reads the status), then `Reverse`, or `RecordEvent` and
`ConfirmInstantBook`. The checkout is `StartCheckout`, `CreateIntent`,
`AttachIntent`, and the guest pays with `Pay` or `PayFails`. `Merge` is the CASE
of the upsert that keeps late events from moving a row backwards.

Abstractions: the policy's percentage is any share of the total (its table is in
`StayPricing`); the total does not change (`FinanceBooks` changes it); Stripe's
seven-day limit on a hold is left out, because the host's time to answer is at
most 144 hours; idempotency keys do not expire; the fallback that retrieves a
charge when an intent names none is left out; the row an event creates for an
unknown intent is always found a free place (`MaxRows` is one more than the
intents, so the bound never binds).

### The accounts

Each store is one member. A request is a step and the row it will write.

| Module | Code | Actions |
|---|---|---|
| `PasswordReset` | `createPasswordResetCode` | `RetireCodes`, `InsertCode` |
| | `exchangeResetCodeForTicket` | `MatchCode`, `ExchangeCode`, `ClearFailures`; or `WrongCode`, `CountFailure`, `BurnCodes` |
| | `resetPasswordWithToken` | `FindTicket`, `ResetPassword` |
| `TwoFactor` | `beginTwoFactorSetup`, `confirmTwoFactorSetup` | `BeginSetup`; `VerifySetup`, `EnableFactor` |
| | `disableTwoFactor`, `resetTwoFactor` | `VerifyDisable`, `DisableFactor`; `AdminReset` |
| `EmailVerification` | `createEmailVerificationToken`, `verifyEmailWithToken` | `CheckUnverified`, `IssueLink`; `OpenLink`, `ApplyLink` |
| `MemberErasure` | `contextFromToken` | `Begin` |
| | the writes of personal data | `SaveData` |
| | `createBooking`, as guest and of the member's listing | `CheckGuest`, `BookStay`; `CheckListing`, `SellStay` |
| | `deleteOwnAccount` | `LoadMember`, `CheckObligations`, `Erase` |
| | `setUserSuspended`, `liftExpiredSuspensions`, `setUserBanned` | `SuspendMember`, `RestoreMember`; `LiftExpiredSuspensions`; `BanMember`, `HideListings`, `LiftBan`, `ShowListings` |

`exchangeResetCodeForTicket` is one UPDATE whose subquery is not evaluated again
when its row was locked by another statement, so it is two actions. Expiry is
nondeterministic. Codes are drawn from `Code` and `token_hash` is unique, which an
insertion can fail on; tickets and secrets are drawn from so many values that they
are always fresh. The counters of `history` are not in the code: they record what
the properties speak of.

### Abstractions of the other modules

- `HostPayouts`: a host's share is 0 or 1: whether there is anything to send. The
  transfer's key is the payout's id.
- `NotificationOutbox`: the mail server is external: it takes a mail, refuses it, or
  takes it and times out. A run can be lost at any step, also by the failing UPDATE
  outside the `try`.
- `ListingModeration`: what a listing says is reduced to how it stands with the
  moderators (nothing, private, published, reviewed, amended). A handler is the
  script of its statements; `log` turns "astray" where the order of the decisions
  was lost, which the properties except.
- `ReviewRatings`: a statement reads a snapshot taken when it starts; an UPDATE that
  waited for a row takes its new version, but keeps its snapshot for what its
  subqueries read (READ COMMITTED).
- `CatalogueCache`: a search result is the number of committed changes it saw.
- `StayPricing`: days are numbers, two of them a weekend; rule sets are those a host
  can send, the last of which the route must refuse. Amounts are whole numbers of a
  `Unit`-th (four decimals in the run), so a bound may lie between two cents; what is
  charged is rounded. The sums of the code are doubles, in which a sum that is half a
  unit may be rounded either way: the bounds are stated to half a unit, so that it
  does not matter, and the preview and the quote round alike.
- `FinanceBooks`: the ledger multiplies and divides in doubles (`toRow`), the report in
  exact decimals. A double is close enough to show in whole cents only when the exact
  commission ends in half a cent: then it may fall short (64.10 at 15 % is 961.4999…,
  so 9.61, where the report has 9.62) or not (`RoundDouble`). Which products do is a
  constant, `ShortProducts` (64.10 at 15 % in the run), and so are the sums the
  accounting export rounds again, `ShortSums`; the proofs hold for any choice of both.
  A listing may lose its host (`RemoveHost`, ON DELETE SET NULL): the queries that join
  the host no longer see its stays (`Hosted`).
  Amounts are whole cents, a currency is its rate to the euro; a euro
  amount is counted in units that every rate divides (half cents in the run), so no
  quotient is rounded before the sum is, as in the queries.
- `SchemaHealing`: a statement needs one object. The advisory lock of the repair is
  within the repair, and servers that repair at once are `CreatedElsewhere`.
- `StayCalendar`: any hold may have expired when a sweep runs.
- `HostPayouts`: `crossed` records the stays that two requests had both chosen when one
  of them stored its payout; the code keeps no such record.
- `RateLimiter`: the counter past the refusal stops, since counts past it are alike. A
  process that starts again has a new, empty counter in memory (`run`); what its
  earlier runs let through stays on record in `let`, which no restart touches.

## 3. Runs

Every run has `CHECK_DEADLOCK FALSE`: booking ids, payouts, intents, mails and
clocks are finite in an instance, so it may run out of things to do; the program
does not stop for that.

| Run | Instance | Shows |
|---|---|---|
| `calendar` | 2 bookings, 1 guest, 1 instant-book listing of 1 night, 2 requests; and a calendar of 2 nights, 2 viewers, 2 saves, 2 requests | `NoDoubleBooking`, `ExclusiveClaim`, `SettledStaysClosed`, `CoveredRequestKeepsItsNights`; `CalendarsAgree`, `FieldsAreKept` |
| `ledger` | 2 bookings, 1 request, 2 nights | `LedgerRefined`: `Reservations` implements `NightLedger` |
| `liveness` | 2 bookings, 1 request, 1 night, fair worker; and 2 callers, 2 objects, a pool of 2, one object dropped while it runs, fair | `SweepsSettle`; `EveryRequestSettles`, `RepairsServe` |
| `faults` | a paid booking, two handlers of every kind, every fault but the nights being sold on, total 1; and 2 hosts, 2 stays, 2 months, 2 currencies, one product and one sum whose double falls short | `NeverBackwards`; `BooksAgree`, `BooksAreClosed` |
| `outbox` | 2 mails, 2 runs, 2 attempts, one requeue and one lost answer per mail, every fault, fair | `MailIsAccountedFor`, `MailSettles` |
| `accounts` | 2 requests, 2 codes, 2 tickets, 2 guesses, 3 rows, one fault; 3 secrets; 2 links; one member with one stay; a limit of 2, one process and its restart in 4 ticks; one ticket with 3 agents; 2 administrators; 2 documents | `CodesAreRetired`, `GuessLimit`, `TicketIsSpent`; `EnabledIsProven`; `ErasureHolds`; `LimitHolds`; `WaitingIsQueued`; `AdministratorsRemain`; `StandingAgrees` |
| `catalogue` | 1 listing, 2 requests of every operation; 2 search queries, 2 searches, 1 write, one entry in the cache; 2 reviews, 2 requests | `PublicIsFit`, `TrailIsTrue`; `AnswersAreCurrent`; `RatingIsHonest` |
| `stay` | a booking of total 3 with two rows and one intent, its handlers one at a time (Stripe failing, crashes, nights sold on) and two at once; one conversation; 2 hosts, 2 stays, 2 listing ids; 2 types, 1 amenity; 3 places, 2 servers | `MoneyFollowsStatus`, `RefundsRegistered`; `ReadIsShown`; `ListsAgree`, `StaysKeepTheirHost`; `UsedItemsExist`; `DefaultsAreThere` |
| `money` | 2 stays, 2 payouts, 2 currencies, 2 requests, every fault; 5 rule sets over 7 days; 2 calls on each copy | `TransferredOnce`, `RegisterMeansSent`, `HostPaidOnce`; `PricesHold`; `CopiesAreCurrent` |
| `double_accept` | two handlers at once, no fault | `ConfirmedStaysPaid` is violated |
| `rating` | 2 reviews, 2 requests | `RatingIsTrue` is violated |
| `rates` | 2 calls | `SearchUsesTheRates` is violated |

Why the bounds are enough. A conflict over a night needs two bookings and one
night; a race of handlers on a booking needs two requests, and requests keep no
state when they are done, so longer histories come from reusing the two slots.
`ledger` has two nights because a booking that moves from some nights to others
that overlap them needs them. The interesting amounts are nothing, a part and
all: a total of 3 also tells two different parts apart. A duplicate payout needs
two payouts with one stay in common and two requests to create them, and the second
stay gives one of them another currency. Two attempts are the last and one before it. Two guesses are the last
and one before it, and three rows are a code in force, one that was retired and
one that is being issued beside it. A stale cache entry needs a load that began
before a change, the change, and a search after it; an overtaken load of
credentials needs two saves. The desk has three agents: the member, the desk and
a one-click action that runs meanwhile. Two administrators suffice to dismiss one
another. The limiter's clock covers two windows; with one process its counters are the
database and two runs of the process, which is every way of changing the counter
once the database is gone.

Every property of a run holds under all the constants of its cfg, and the
excluded members of `Env` and `Handlers` are excluded because the property is
about something else or because the code breaks it there:

- The part `serial` of `stay` has one request, because with two
  `LatePaymentReversed`, `ConfirmedStaysPaid` and `RegisterIsHonest` fail
  (section 6); it has no lost answer, because `FailedCloseKeepsMoney` fails with one.
- The part `races` of `stay` has no crash (nothing resumes a decline that crashed
  after its claim), no unpaid answer, and no second delivery: a repeated
  authorisation event that is handled while a cancellation is between its claim and
  its look releases the hold first. The administrator's handlers move money on
  purpose and are in `faults`.
- `races` and `serial` have one intent, and `races` two requests. `RefundsRegistered`
  names what it needs of that: `OneIntent` (the checkout was opened at Stripe at most
  once) for all three of its claims, since with two paid intents `DeclinedGivesBack`
  and `RegisterIsHonest` fail, and `AtMostTwo` requests for `PaidMeansTaken`, which
  fails with three (section 6). With these it is proved for any number of rows and
  units, and `MoneyFollowsStatus` for any number of intents as well.
- `faults` starts with a booking that is paid and whose events are handled
  (`PaidInit`), since all that precedes this is in `stay`; the set of events Stripe
  may deliver again is free.

Fairness. `liveness` assumes weak fairness of the expiry and completion
statements (`setInterval` runs the sweeps as long as the process lives and each
run starts anew after an error) and that a hold's time elapses; it assumes
nothing of requests, guests, or Stripe. In `SchemaHealing` statements end
(`statement_timeout`), waits for a connection end (`connectionTimeoutMillis`), the
repair goes on, and a transaction does not run statements for ever. `outbox`
assumes that a run that can take a step takes one (the timer starts runs, and the
mail server's time-outs end every call) and that back-off times elapse. A lost
run is not fair and stays lost.

## 4. What the properties say

Their comments state them; in short:

- *The calendar.* `NoDoubleBooking` over all interleavings, including the restore
  of a failed cancellation and the administrator's change of dates, which take no
  lock. `LedgerRefined`: a night goes from one booking to another only through
  being free. `ExclusiveClaim`, `SettledStaysClosed`: no two requests both move the
  money of one booking, and nothing revives a booking that is settled.
  `CoveredRequestKeepsItsNights`: the sweep and the guest's own next checkout never
  choose a paid request; one that is paid leaves the calendar only under a claim, by
  an administrator, or by the commit of a sweep that had found it unpaid (that this
  does happen is `SweptAreUnpaid` in section 6). `CalendarsAgree`: three queries written apart call the same
  nights free, and no night that was blocked during a whole checkout is sold.
  `FieldsAreKept`: two saves of a night do not undo one another.
- *The money.* `NeverBackwards`, `MoneyFollowsStatus` (a late payment is reversed,
  a confirmed stay is paid, a close that failed took nothing), `RefundsRegistered`
  (declined gives back, paid means taken, no row claims more than the card received):
  what a booking's status promises about the money at Stripe.
- *Payouts and prices.* `TransferredOnce`, `RegisterMeansSent`; `HostPaidOnce` (a stay
  is in two payouts only if two requests had both chosen it before either stored its
  own, for any number of requests); `PricesHold` (bounds of any precision, to half a
  cent a night and half a whole amount); `CopiesAreCurrent`; `BooksAgree` (bookings,
  revenue and nights to the cent; the ledger's commission short by at most a cent for
  each commission that ends in half a cent; what stays of listings without a host
  brought is in the overview and the months, and in no report by host),
  `BooksAreClosed`.
- *Mail.* `MailIsAccountedFor` (one run has a mail, a second copy has a reason, sent
  means delivered), `MailSettles`.
- *Accounts.* `CodesAreRetired`, `GuessLimit` and `TicketIsSpent` bound by the
  number of requests at a time what the code's comments promise as one, since
  statements of two requests do interleave; a fault makes the count of guesses
  start again. `EnabledIsProven`: sign-in asks for codes of an authenticator that
  proved itself, unless the pending secret changed under a confirmation, and no
  link is refused within its time. `ErasureHolds`: only what was already under way
  while the account was erased, or an administrator, undoes an erasure or a ban.
  `LimitHolds`: in any stretch of a window's length at most twice the limit for every
  counter that counted in it: with the database answering throughout that is twice the
  limit; each process that had to count in memory, and each restart of it, adds as
  much. `WaitingIsQueued`, `AdministratorsRemain`, `StandingAgrees`.
- *The catalogue.* `PublicIsFit`, `TrailIsTrue` (a listing whose last entry is a refusal
  is not shown), `AnswersAreCurrent`,
  `RatingIsHonest`, `ReadIsShown`, `ListsAgree`, `StaysKeepTheirHost`,
  `UsedItemsExist`, `DefaultsAreThere`.
- *The gateway.* `RepairsServe`, `EveryRequestSettles`.

## 5. What is proved

Every theorem holds for any value of the constants that their assumptions allow;
the instance of section 3 is one. A theorem's inductive invariant was checked by TLC
on that instance before it was proved.

`ReservationsProofs` begins with theorems of `Spec` of `Reservations`, for any sets of
bookings, guests, listings and requests and any horizon, from `ReservationsAssumption` (instant-book listings are listings,
`None` is none of the ids):

- `TypeCorrect`: `TypeOK` is inductive by itself. It is more than types: stays are
  ordered, and a request past the availability check acts on a booking that
  exists, which every later step needs to be well defined.
- `NoNightSoldTwice`: `NoDoubleBooking` is inductive with `TypeOK`. Every action
  either takes bookings off the calendar, leaves who is live alone, or brings one
  booking to a set of nights under `Conflicts = {}`; one lemma for each of the
  three shapes.
- `ClaimsAreExclusive`: `ExclusiveClaim` with `TypeOK`. A claim needs a live
  booking and leaves a closed one, so a second claim finds nothing to take; the
  statements that make a booking live again need it pending, or are the claim's
  own restore.
- `SettledForGood`: the action property follows from the invariants: a step that
  makes a closed booking live is the `Unclaim` of the request that holds it.
- `CoveredIsAnswered`: `CoveredRequestKeepsItsNights`. `CoveredKept` goes through the
  actions that take a booking off the calendar: what the commit of a sweep drops, its
  snapshot had found; and no step adds a covered request to what a sweep has found,
  since the snapshot looks at the payment.
- `TableIsALedger`: `LedgerRefined`, the refinement of `NightLedger`. While no night has
  two holders (`NoDoubleBooking`) the owner that the refinement mapping chooses is the
  booking that holds the night (`WhoHolds`), so a step of the first two shapes above is
  a `Release` of the bookings it takes off the calendar, and one of the third is the
  `Hold` of that booking, whose nights `Conflicts = {}` leaves to nobody else. The bound
  of the run `ledger` on the last day is not needed.

It goes on with theorems of `SumSpec` of `MCCalendar`, for any calendar of a host, any
viewers, saves and requests in flight, from `CalendarAssumption` (the bounds on nights
and saves are numbers):

- `GuestsSeeTheCalendar`: `CalendarsAgree`. That the three queries agree follows from
  their definitions; that no night is sold which was blocked throughout needs
  `CalendarInv`: a checkout has seen open whatever is open now (`RequestsLook`: every
  change of the calendar is seen by all checkouts), and past the check of the nights it
  has seen all of its stay open, whatever was blocked since.
- `SavesKeepFields`: `FieldsAreKept`. A save writes an empty row only for nights that
  were new in its snapshot; one that exists by then makes it collide (`SavedRows`).

and ends with one of `ProgressSpec` of `MCProgress`, for any finite set of callers, any
schema objects and any size of the pool, from `HealingAssumption` (the callers are
finitely many, the pool has a connection, `None` is no object):

- `RepairsReachWaiters`: `RepairsServe`. `HealingInv` says what a request may count on
  (`CallerOK`): while it waits a repair is under way, and its object was dropped out
  of the repair's sight (`lost`), is not missing, or is still to be seen to; once the
  repair lets it go the last case is gone. That the pool is not overdrawn is counted:
  only a step that saw a free connection adds a holder, and it adds one.

`BookingMoneyProofs`, for any intents, rows, requests, handlers, faults and totals, from
`MoneyAssumption`:

- `PaymentsMoveForward`: `NeverBackwards`. The invariant `MoneyInv` is the types of the
  module and what a request knows at its step (`Equipped`: an intent to call Stripe
  with, an event to record); the upsert (`Merge`) and each UPDATE by status are then
  shown to keep or raise the rank, event by event.
- `DeclinedIsRepaid`: `OneIntent => DeclinedGivesBack`, whatever requests of host,
  guest and webhook overlap, under `Calm` (nothing but Stripe fails, and no
  administrator's handler runs; section 6 has what a crash or a resold night does).
  `BackInv` says that one request at most has claimed the booking, that the register
  knows of the payment once the booking is declined (`Told`), and what each request in
  flight may count on at its step (`Fits`): a decline that is past Stripe has sent the
  money back, or its claim is about to be undone. An event can carry money to a booking
  that was declined meanwhile, so the invariant also says of every event and every
  idempotency key what Stripe did for it (`Honest`, `Sent`).
- `PaidWasTaken`: `OneIntent => PaidMeansTaken` under `Calm` and `Two` (at most two
  requests meet). `TakenInv` adds when the money still stands: while the booking is
  open and its payment recorded or on its way, the hold is there (`Standing`), and
  nobody reverses it unless the payment came late (`Late`). A webhook that reverses
  because it saw a claim has met the claiming request; with `Two` there is no third to
  accept the booking if that claim is undone.

`FinanceBooksProofs`, of `SumSpec` of `MCFaults`, for any hosts, stays, months, amounts,
currencies and rates, from `BooksAssumption` (hosts, stays and currencies are finitely
many, a stay ends after it begins and within the months, a unit of a euro amount is
divided by every rate) and `RateAssumption` (no rate is `None`):

- `BooksAlwaysAgree`: `BooksAgree`, whichever products and sums fall short in doubles.
  The state needs little: `BooksInv` says that the
  bookings keep to their types, that whoever makes one has found a rate before its row
  is written, and that a stay has one row of payment or two. The work is in the sums.
  `SumUnfolds` shows that the fold of the community modules has the recursive function
  it chooses; that a sum does not depend on the order, splits over a partition and may
  be taken along a bijection is proved by a least counterexample among the subsets.
  A report is then a sum over the same bookings in another order: by host, by month,
  by currency, by the days of a stay, or by the rows of a join that keeps the latest
  payment of each. `RoundDoubleIs` and `LedgerIsShort` bound what the ledger is short of
  by the number of half cents; `WithAndWithoutHost` sets the stays without a host apart.
- `CommissionIsFrozen`: the action property `BooksAreClosed`. Every row has its rate
  from the start, and no later step of a host, an administrator or a handler writes it
  again.

`MoneyProofs`, about the payouts for any stays, payouts, currencies and requests and
any faults; about the prices for any rules, prices and stays; and about the copies for
any calls, keys, saves and times, from `MoneyAssumption` and `PricesAssumption` (bounds
are numbers, rules are of the shape `smartRulesSchema` asks for, `None` is no value):

- `PayoutsTyped`, `OneTransfer`, `PaidWasSent`: the inductive invariant
  `RegisterInv` adds `RequestsAgree` to the three: what a request in flight knows
  is still so (the chosen stays have one currency; the payout it pays exists; when
  it is about to mark the payout, the transfer was made or there was nothing to
  send). Without the last part the register could be written from a stale belief.
- `PayoutsPayOnce`: `HostPaidOnce`, by the invariant `OnceInv`: the stays a request has
  chosen are in no payout when it inserts them, unless another request had chosen them
  too when it stored its own (`crossed`). No bound on the requests is assumed.

- `CopiesFollowRows`: `CopiesAreCurrent`, by one invariant per copy. `SettingsInv`
  dates every version of the row and says of a version that is read, kept or served
  until when it was in force, so the time a copy is kept and the time of a query add up
  to the bound. `ConfigInv` keeps track of what is on its way: the copy is the rows, or
  a save that changed them has yet to load, or a load failed or was overtaken. `RatesInv`
  relates the age of what a call has read to when the provider failed last.
- `PricesAreAgreed`: `PricesHold`. The state needs little (`PricingInv`: types, and the
  floor is not above the ceiling, which the route checks); the work is in the
  operators. `SumUnfolds` shows that the fold of the community modules has the
  recursive function it chooses, by a least counterexample over the size of the set;
  `SumBounds` then bounds a sum by its terms, `NightFits` each night by the clamp,
  `RoundedNear` what rounding adds or takes, and `StaysFit` the stay. Bounds are any
  natural numbers of a `Unit`-th, and `Unit` is any multiple of 100.

`AccountsProofs` begins with the recovery codes, as theorems of `Spec` of
`PasswordReset`, for any requests, codes, tickets, rows, guesses and faults, from
`AccountAssumption` (requests are finitely many, codes are no tickets, at least one
guess):

- `ResetTyped`, by one lemma for each action.
- `FewCodesInForce`: `CodesInv` counts the rows in force and the requests that are
  about to insert one together. A request enters the second set by retiring the
  first, and an insertion moves one from the second to the first.
- `TicketsAreSpent`: `TicketInv` counts the passwords a ticket has set and the
  requests that still will. Once the row is marked no request joins them.
- `GuessesAreLimited`: `GuessInv` bounds the wrong codes a code in force met by what
  the process knows of: what is counted, what is about to be, and a full count for
  each request that is about to burn. The rest is arithmetic: with `n` requests at a
  time and a limit of `m` this is at most `m * n`, provided that the count is empty
  when all of them burn, which the invariant has to say as well.

It goes on with the other parts of `accounts`, as theorems of `SumSpec`, for any
requests, members, agents, secrets, links, tickets and limits (in `MCAccounts` the
constants of every part are constants of the instance; requests and tickets are
finitely many):

- `SecretIsProven`: `EnabledIsProven`. `FactorInv` adds `ProofsStand`: a request that
  verified a code and whose proof was not torn by a later change would store a secret
  that is proven. `LinkInv` adds that a used link has verified the member.
- `ErasedIsErased`: `ErasureHolds`. `ErasureInv` says what was ordered beside an
  erasure in flight (`SuspensionsEnd`, `ChecksHold`: what the check found still holds
  when it erases, or something known of came between) and that no handler that was let
  in earlier is still to write (`ErasedIsOver`).
- `LimitIsKept`: `LimitHolds`, for any number of restarts and of changes of the
  database. The attempts a counter let through are hits of windows that do not overlap,
  numbered within each (`HitsAreCounted`), so a stretch as long as a window meets two of
  them and at most twice the limit passes: the counting (`TwoWindows`) is a map from the
  attempts into the counters that took part, times two sets of numbers. `BucketCounts` ties the counter to the
  last window; `ToldHasPassed` and `WindowsEnd` keep what a refused caller is told.
- `MembersAreHeard`: `WaitingIsQueued` with `DeskInv` (requests are about tickets that
  were opened, and what was not opened has no message).
- `SomebodyAdministers`: `AdministratorsRemain` with `RolesInv`; the property names who
  else was dismissed meanwhile, which makes it inductive with types alone.
- `MarksFollowDecisions`: `StandingAgrees`. `CheckInv` adds that a mark is backed by a
  document (`DecidedOnFile`), which what Stripe reports does not change, and that the one decision under way is what the document
  says (`OneDecision`).

`CatalogueProofs`, for any listings, requests, operations and faults, any keys,
searches and writes, and any reviews, from `ModerationAssumption` and
`CatalogueAssumption`:

- `PublicIsAlwaysFit`: `PublicIsFit` by the invariant `FitInv`: requests stand before
  a statement of their script; the text of an approved row was reviewed or amended and
  booked stays exist; and while a ban is carried out, or has been by itself, no request
  of the host is in flight. That a deletion counted the bookings in the statement that
  deletes is what keeps the second part.
- `TrailIsAlwaysTrue`: `TrailIsTrue` by `TrailInv`: unless the trail is astray, at most
  one request handles a listing, a listing whose last entry is a rejection is not
  approved while nobody is past a later decision, and a rejection that is about to be
  logged has taken effect.
- `SearchesAreCurrent`: `AnswersAreCurrent` by `CacheInv`. The version counts the
  answered writes; a load that finds the version it began with has seen all of them
  (`LoadOK`), which is what an entry then shows (`EntryOK`), and no entry was read
  longer before it was stored than a query takes. The size of the store is counted,
  since eviction makes room only when it is full.
- `RatingsAreHonest`: `RatingIsHonest` by `RatingInv`: from its first write to its end
  a transaction holds the property row or is on its way to it, and what it is about to
  commit is the aggregate of what it sees; so the last to commit has the rows of all.
  The sum of no reviews is proved from the fold (`NoReviews`), no other is needed.

`StayProofs`, of `SumSpec` of `MCStay`, for any intents, rows and units of a booking's
money, any members, listings, items, places and servers, from `StayAssumption` (the
total and the number of rows are positive, listing ids are finitely many, default places
are places, `None` is nothing else):

- `MoneyStaysWithStatus`: `MoneyFollowsStatus`, while requests follow one another and any
  of them may fail, crash or find its nights sold on. `SerialInv` says when no money can
  have gone back: while the booking is on the calendar, or claimed by a request that has
  not called Stripe (`Open`), there is no key, no refund and no canceled intent, and a
  payment is recorded or every one that was made is still to be handled (`Intact`).
  `Fits` says what the one request in flight may count on at its step; `ConfirmedFits`
  and `LateFits` what is so between requests: that a confirmed booking has a payment, and
  that a payment to a closed one has gone back. Without `Intact` a claim that
  fails could restore a booking whose money is gone.

- `RegisterIsRight`: `RefundsRegistered`. For requests that meet it is `DeclinedIsRepaid`
  and `PaidWasTaken`: `Meet` instantiates `BookingMoneyProofs` with the variables of the
  part, and `StayAssumption` and the part's handlers give `Calm`. For requests that
  follow one another `HonestInv` adds to `SerialInv` that no row and no event claims
  more than its intent has sent back, and that a cancellation about to write the
  register finds its rows at zero. That last part is why `Open` and `Intact` are needed
  again: a row with a refund on it would belong to a booking that is closed already.
- `MarkedIsShown`: `ReadIsShown`; `ChatInv` needs only that requests are somebody's,
  since the SELECT of the answer comes after the UPDATE that marks.
- `ListsPlaceAlike` (`ListsAgree`) and `HostsKeepTheirStays` (`StaysKeepTheirHost`, an
  action property): `WizardInv` says that a listing's stay exists and that no two
  listings have one stay; the owner is kept by the upsert itself, whatever the checks
  before it saw.
- `UsedIsKept`: `UsedItemsExist` with `OverlapsAreKnown`: a type that is gone when a
  save takes it was deleted meanwhile, and a deletion knows when its type was taken.
- `SeedingIsComplete`: `DefaultsAreThere`. `SeedsTheRest` and `PlacesCovered`: a server
  at work has left to insert all that is missing, and once there is a place, somebody
  is at work or nothing is missing.

`NotificationOutboxProofs`, for any finite sets of mails and runs and any faults:

- `MailsAreAccountedFor`: `MailIsAccountedFor` by `OutboxInv`, whose `DeliveriesAreBounded`
  counts deliveries, the runs that may still deliver and the claim that may still come
  against the times the mail was put back or its answer was lost.

Only model-checked. Liveness under fairness (`SweepsSettle`, `EveryRequestSettles`,
`MailSettles`), since the provers do not handle ENABLED, and the three claims whose runs
keep a counterexample. Every invariant and action property of the other runs has a
theorem.

## 6. Where the code and its comments disagree

Three runs keep a counterexample (`double_accept`, `rating`, `rates`); their
findings are in `PROJECT.json`. TLC also refutes the following. The claims that no
run states are defined at the end of their module, or in the MC module; `part` in
an MC module can be restricted to the part named. Where `RefundsRegistered` bounds a
claim, the claim itself is to be checked (`part = "races" => Races!PaidMeansTaken`).

| Claim | Says so | Check it in | What happens |
|---|---|---|---|
| `RestoresPreviousStatus` | `bookings.repository.ts:1114` | `ledger` with `Req = {r1, r2}` | the booking is read as pending, confirmed by another request, then claimed; a failed refund restores "pending" |
| `SweptAreUnpaid` | `bookings.repository.ts:1193-1194` | `ledger` with `InstantBook = {p1}`, as a PROPERTY | the payment is recorded between the snapshot of the sweep and its commit: a paid request is cancelled |
| `SlippedPaymentIsReversed` | `bookings.repository.ts:1236-1237` | `MCBookingMoney` with two requests, `Intent = {i1}`, `Handlers = {"checkout", "expire", "webhook"}`, `Env = {}`, `Modes = {TRUE}`, `MaxRows = 2` | the sweep has taken its snapshot, the webhook reads the status as pending and records the payment, then the sweep commits: the booking is cancelled, and nobody gives the money back |
| `LedgerIsTheReport` | `admin/finance.repository.ts:177` (commissionReport) | `faults`, books | 64.10 at 15 %: the ledger shows 9.61, the report owes 9.62 |
| `LatePaymentReversed` | `payments.webhook.ts:71` | `stay`, `serial` with two requests | the status is read before the expiry sweep closes the booking and the payment is recorded after it |
| `DeclinedGivesBack` | `bookings.repository.ts:941` | `stay`, `races` with `"crash"` in `Env` | the request stops between claim and refund; nothing resumes it |
| `DeclinedGivesBack` | `bookings.repository.ts:953` | `stay`, `races` with `"rebooked"` in `Env` | the refund fails, the restore is refused since the nights are sold: declined, and the money stays held |
| `RegisterIsHonest` | `bookings.repository.ts:1145` | `stay`, `serial` with two requests | `charge.refunded` sets the refunded amount and the cancellation in flight adds its share to it |
| `CancelPaysWhatItRecords` | `payments.webhook.ts:77` | `MCBookingMoney` as `PaidSpec` with `Handlers = {"confirm", "cancel", "webhook"}`, `Env = {}` | a booking is accepted and cancelled before the capture's event arrives, which is taken for a late payment and refunded in full |
| `RetriesAreDeduplicated` | `payments/refunds.ts:54-55` | `MCBookingMoney` with one request, `"answerLost"` in `Env`, `"adminRefund"` among the handlers | the key contains what was refunded before, which the lost answer changed: the retry is a second refund |
| `FailedCloseKeepsMoney` | `bookings.repository.ts:1113` | `stay`, `serial` with `"answerLost"` in `Env` | the refund was made, its answer lost, and the booking is restored without its money |
| `OneChargePerBooking` | `payments.routes.ts:81` | `MCBookingMoney` with `Intent = {i1, i2}`, `Req = {r1, r2}`, `MaxRows = 3` | two checkouts of one booking at once create an intent each, and both can be paid |
| `PaidMeansTaken` | `bookings.repository.ts:1173` | `stay`, `races` with `"unpaidAnswer"` in `Env` | a request is accepted before it is paid, the guest authorises later, and nobody captures; completion calls it paid |
| `PaidMeansTaken` | `bookings.repository.ts:958` | `stay`, `races` with three requests | one of two deliveries of the payment's event finds a cancellation's claim and cancels the hold; the cancellation's own call then fails and its claim is undone; the host accepts, and nothing is left to capture; completion calls the row paid |
| `DeclinedGivesBack`, `RegisterIsHonest` | `bookings.repository.ts:941`, 1145 | `stay`, `races` and `serial` with `Intent = {i1, i2}` | a booking paid twice: a refund looks at one of its payments |
| `StaysAreInOnePayout` | `admin/admin.repository.ts:904` | `money` | two administrators create payouts of one host at once, and both contain the same stays |
| `SettledNeverPaidAgain` | `db/registry/bookings.ts:83` | `money`, payouts | the charge that paid the host at checkout is refunded by an administrator and the stay becomes eligible for a payout |
| `RetryCostsTheSame` | `bookings.repository.ts:555-559` | `money`, pricing | a guest's own hold counts in the occupancy the retry is priced by |
| `EnabledAsksForCode` | `accounts/accounts.routes.ts:172` | `accounts`, factor | one setup is confirmed twice at once; the second UPDATE moves the pending secret that is already gone, so two-step sign-in is on without a secret and asks for nothing |
| `NobodySuspendsThemselves` | `admin/admin.repository.ts:464` | `accounts`, roles | the ban route has no check of its own account, and a ban suspends |
| `ErasedLeavesNoDocument` | `accounts/accounts.repository.ts:614` | `accounts`, check | `deleteOwnAccount` leaves `identity_verification` alone |
| `NewestAnswerIsQueued` | `admin/support.repository.ts:210-211` | `accounts`, desk | the status of the desk's answer is written after the member's answer to the next message |
| `ActionsAreTold` | `admin/operations.routes.ts:518-520` | `accounts`, desk | an action takes effect and the request ends before its outcome is written |
| `EditedIsReviewed` | `listings/listings.repository.ts:328-329` | `catalogue`, moderation | drafts, suspensions and bans between a save and a publication put a text online that nobody approved; a PATCH of the status also goes round the identity check of a save (`listings.routes.ts:110-111`) |
| `HiddenForTheWindow` | `core/catalogueCache.ts:6-10` | `catalogue`, cache | an entry is dated when it is stored, so the time of its load adds to the window in which another server's change is hidden |
| `WrittenWhileOpen` | `messaging/messaging.repository.ts` (sendMessage) | `stay`, chat | the thread is closed between the check and the insertion |
| `SavedIsOnesOwn` | `listings/listings.repository.ts:186-187` | `stay`, wizard | the listing is moved to another host's stay between the check and the transaction |
| `ResumeIsCurrent` | `listings/listings.repository.ts` (latestSubmission) | `stay`, wizard | `submitted_at` is `now()`, the time the transaction began: of two overlapping saves the later one may count as the older |
| `RestartsKeepEdits` | `admin/taxonomy.repository.ts:173-175`, `server.ts:39,47` | `stay`, items | a default type an administrator deleted comes back, and an amenity switched off is switched on |
| `StartsComplete` | `server.ts:39,47` | `stay`, places | a start that stopped half way leaves a table that is not empty, which no later start completes |
| `HealedStatementSucceeds` | `db/query.ts:143-145`, `db/migrate.ts:21-22` | `liveness`, healing | in a transaction the statement that failed has aborted it, and the retry fails for that |
| `ComparedIsCurrent` | `docs/openapi.ts:520` | `faults`, books | the periods are taken from the months there is a booking of: before the first booking of a month the "current" one is an older month |
| `NeverTwoSenders` | `notifications/dispatcher.ts:36` | `outbox` | a mail is put back while a run is sending it |

Read beside the models, and not the subject of a property:

- The erasure does less than its comment says (`accounts/accounts.repository.ts:613-616`,
  639): the host profile is kept, an administrator who restores the account lets it in
  again, and a finished stay that is in no payout yet does not block it. A suspension
  "lifts itself" (`admin/admin.repository.ts:459`) only when an administrator lists the
  members.
- A run that dies leaves its mails in `sending` (`dispatcher.ts:36`), where nothing but an
  administrator takes them up: `MailSettles` says "unless stranded" for that.
- The status a failed cancellation restores was read before its claim
  (`bookings.repository.ts:1114`); the payment event of a capture is taken for a late
  payment when the booking was cancelled first (`payments.webhook.ts:77`); two checkouts of
  one booking create two intents (`payments.routes.ts:81`): modelled, and in the table.
- The forced cancellation is four statements without a transaction
  (`operations.repository.ts:88`): a failure in between leaves the booking open with its
  money gone, until an administrator repeats it.
- A stay that is refunded by an administrator after its payout was created is still paid
  (`admin/admin.repository.ts:992`).
- `token_hash` is unique and rows are never purged (`accounts/accounts.repository.ts:481`):
  drawing a code the member was sent before fails after the old ones were retired.
- A floor or a ceiling is any number (`host/host.routes.ts:171-172`), and each night is
  rounded to cents and the stay to a whole amount: either bound can be exceeded by half
  a cent a night and half a unit, which `PricesHold` allows.
- The stays of a listing whose host is gone (`db/registry/listings.ts:36`) are in the
  overview and the months (`admin/admin.repository.ts:70-73`, 1014-1017) and in no row of
  the ledger, the report or the export (`admin/finance.repository.ts:39`).
- `favorites` "merges" the guest's list, but `replaceFavorites` prunes it; a retired type or
  amenity makes a listing that uses it unsavable; `syncTrustBadges` is never called;
  `allowShorterMinStay` is never read; discounts can exceed the base; the capacity of the
  reports can be exceeded by nights of retired stays (`admin/admin.repository.ts:1129-1131`).
- `addTeamMember` (`host/host.repository.ts`) looks for the member and then inserts.

## 7. Not modelled

Nothing for a model checker to find: mail texts and locales, exports, translations,
generated documentation, wiring, request guards, compression, fixtures, the
integration suite; single-row edits of one owner (host profile, team members, pages,
favorites, cookie consent); the arithmetic of one-time passwords and of session tokens,
which is cryptography. Several servers are modelled where they share more than the
database (`RateLimiter`, `CatalogueCache`, `DefaultPlaces`, `SchemaHealing`); the copies of
the credentials in other servers than the one that saved them are never loaded again,
which `IntegrationConfig` leaves out.
