# Les cocottes de Diane: formal models

TLA+ models of the order, payment and stock logic of the API
(`src/apps/api/src`) and of what surrounds an order in the shop and the back office
(`src/apps/shop/src`, `src/apps/web/src`), the TLC configurations that check them, and
theorems about them that TLAPS proves. Paths below are relative to `src/apps/api/src/`
unless they begin with `shop/` or `web/`, which stand for the sources of the two front
ends, or with `docs/` or `README.md`, which are the repository's own.

## 1. The system

The shop (`apps/shop`) and the back office (`apps/web`) are front ends over one
NestJS API with a PostgreSQL database. Several instances of the API may run at
once, and beside them a cleanup script run by an external scheduler. Nothing is
coordinated in memory: the database rows and their locks are the only shared
state, and Stripe the only partner that acts on its own.

| Component | State it keeps | Operations | What must hold |
|---|---|---|---|
| Orders (`commandes/commandes.service.ts`) | `Commande`: `statut`, `confirmedAt`, `stripeId`, `stripePaymentIntentId`; `CommandeReservationRelease` | staff order, checkout, payment, expiry, cleanup, cancellation, status change | the status table is followed; stock is given back once; no payment is forgotten |
| Webhook claims (same file) | `StripeWebhookEvent`: status, `processingStartedAt` | claim, take over, settle, fail | one owner at a time; handled at least once, acknowledged only then |
| Stripe gateway (`commandes/stripe-checkout.gateway.ts`) | none; the sessions are at Stripe | create, retrieve, expire a session | a session is closed before its order is released |
| Stock (`mouvements-stock`, `commandes/commande-stock-reservation.service.ts`) | `Article.stock`, `MatierePremiere.stock`, `StockLot`, `CommandeStockAllocation`, `MouvementStock` | reserve, release, receive, adjust, write off | figure, lots and allocations agree; first expired, first out |
| Sales (`ventes`) | `Vente`; writes stock | sell | nothing expired is sold; the amounts add up |
| Production (`articles/articles.service.ts`) | `Article`; writes stock | produce, capacity | raw materials cover what is produced |
| Refunds (`commandes/commande-refunds.service.ts`) | `Refund` | request, Stripe call, webhook | never more than was paid |
| Reconciliation (`stripe-reconciliation`) | `StripeCheckoutReconciliation`, attempts, lease | record, claim, process, retry, resolve | one worker per row, each row ends resolved or with the staff |
| Production needs (`commandes/commande-production-needs.service.ts`, `web/lib/production-needs.ts`) | none | allocate the stock to the open orders, add the needs up by day | the needs are the shortfall, however they are computed |
| Cash register (`caisse`, `money.ts`) | `JourneeCaisse` | total a day, close it | a closing counts its own day, once, and adds up |
| Pickup (`pickup-points`, `commandes/pickup-slots.ts`, `shop/lib/pickup-points.ts`) | `PickupPoint` | edit points, offer dates, validate a slot | what the shop offers the API accepts |
| Shop pages (`shop/components/shop`, `shop/lib/cart.ts`) | the cart in `localStorage`, the checkout page | change the cart, choose a point and a date, send the order | as above, under pages that grow old |
| Rate limits (`rate-limit`) | windows in memory, by address | count, refuse | bounded in every window; `Retry-After` is true |
| Analytics (`analytics`, `shop/lib/analytics.ts`) | consent and identifiers in `localStorage`, `AnalyticsSession`, `AnalyticsVisitor` | visit, attribute a checkout, purge | visits are counted apart; a refusal is kept |
| Catalogue (`articles`, `article-categories`, forms of `web`) | `Article`, `ArticleCategory`, image files | create, update, upload, remove | no row without its file, no category that is gone, no sold article deleted |
| Accounts (`web/app/api/admin/users`, `web/lib/admin-users.ts`) | users and roles | create, change, remove | an administrator remains |
| Roles (`auth/roles.guard.ts`, `web/lib/permissions.ts`, the pages of `web`) | the role of a session | guard a route, show a page | what a page offers the API accepts |
| Recipes, e-mails, deployment | rows, files | CRUD, I/O | database constraints |

How they interact: a checkout reserves stock in the transaction that creates the
order, then calls Stripe outside any transaction, then stores the session. Stripe
calls back with events, in any order, repeatedly. Cleanup reads candidates, asks
Stripe to expire their session, and releases them in a second transaction. The
staff may change or cancel the order at any moment. Releases go back to the lots
that sales, production, adjustments and losses have changed in the meantime. What
cannot be decided is written to `StripeCheckoutReconciliation`, which a worker and
the staff take up. The front ends decide what to offer with rules of their own (dates,
permissions, transitions, needs of production), from data that was read when a page was
rendered, and the API decides again when the click arrives.

The hard behaviour is therefore: several actors on one order between two of their
transactions; a process that stops between two steps; calls to Stripe that fail
after their effect; events that come late, twice or in the middle of a takeover;
long sequences of legal movements on the same lots; checks that come one statement, or one
page, before the write they protect; rules that are written twice. `PROJECT.json` lists these as
hazards, each with its line and the properties that watch it.

## 2. The modules

### OrderStatus
The status table of `commande-status-transitions.ts` and the sets of statuses that
the services test for, as operators.

### OrderLifecycle (abstract)
What the order service promises whoever acts: `status[o]` follows the table, and
`reservation[o]` goes from "none" to "held" with the creation of the order and
from "held" to "released" in the very step that cancels it. Three actions: `Place`,
`Advance`, `Cancel`.

### WebhookClaims
`row[e]` is the `StripeWebhookEvent` row of an event. `token` abstracts
`processingStartedAt`: a claim always gets a fresh one. `stale` says that the
processing timeout has passed since the claim. `handler[h]` is a request inside
`handleStripeWebhook`, and `at` is how far it is:

| Action | Code |
|---|---|
| `Claim` | `claimStripeWebhookEvent`, `claimExistingStripeWebhookEvent` |
| `Handle` | the business transaction commits |
| `Notified` | `sendOrderConfirmationBestEffort` returns |
| `MarkProcessed` | `markStripeWebhookEventProcessed`, which throws if the row was taken over |
| `MarkFailed` | `markStripeWebhookEventFailed`, which does nothing then |
| `HandlingFails`, `MarkProcessedFails`, `Abandon` | an exception in either transaction, a crash |
| `TimeOut` | the timeout passes, whether the owner is alive or not |

### Checkout and CheckoutProperties
The life of orders. The database columns of section 1 are variables (sets of
orders where only "is it set" matters), `restores[o]` counts how often the stock
of an order was put back, `session[o]` is the Checkout session at Stripe, and
`request`, `handler` and `cleaner` are the checkout requests, webhook requests and
cleanup runs in progress. A transaction that begins with `SELECT ... FOR UPDATE` on
the order is one action; between two of them anything may happen, including the end
of the process (`AbandonRequest`, `HandlerMishap`, `AbandonCleanup`). The claim
rows are those of WebhookClaims, by `INSTANCE`: `ClaimEvent`, `SettleEvent`,
`HandlerMishap` and `EventTimesOut` are its actions, and `ConfirmPaidCommande` and
`ExpirePendingCommande` are its `Handle` with what it does to the order.

| Actor | Actions, in order |
|---|---|
| staff order (`create`) | `CreateDirect` |
| `createCheckout` | `PlaceCheckout`, `CreateSession`, then `PersistSession`; or `CancelWithoutSession`; or `PersistFails`, `RetrieveUnpersisted`, `ExpireUnpersisted`, `CancelUnpersisted` |
| customer, Stripe, clock | `Pay`, `SessionExpires`, `Age` |
| `handleStripeWebhook` | `ClaimEvent`, `ConfirmPaidCommande` or `ExpirePendingCommande`, `SendOrderConfirmation`, `SettleEvent` |
| `cleanupAbandonedCommandes` | `PrepareCleanup`, `RetrieveAbandoned`, `ExpireAbandoned`, then `ReleaseAbandoned` or `RecordCleanupReconciliation` |
| staff | `CancelCommande`, `TransitionCommandeStatus` |

`expireCheckoutSession` of the gateway is two calls, and so two actions of whoever makes
them: `RetrieveCheckoutSession` answers what the session is, and only an open one gets to
`ExpireCheckoutSession`, which is `sessions.expire` with its catch block. A session that ended
in between is refused, and the catch block (`commandes/stripe-checkout.gateway.ts:213-239`) goes
by the words of the refusal, "expired" before "complete" and "paid". The words are Stripe's: the
model allows each of the answers. `misread` is history, the completed sessions that were
answered `already_expired` that way.

Abstractions. A checkout uses one idempotency key and writes the order's id into
the session's metadata, so an order has at most one session and a session leads to
its order: both share the order's name. A session ends once, so an order has one
event, `completed` or `expired`. Amounts, currencies and references of a session
this checkout created agree with the order; what
`validateCheckoutSessionForCommande` does with a session that disagrees, or that
belongs to no order (a reconciliation in each case), is not modelled.
`paiement_a_verifier` is set by no code today; `LegacyOrders` are orders stored
with it. The effect of the reservation on the stock is StockLedger's.

CheckoutProperties holds the properties and the refinement mapping to
OrderLifecycle: `status` is itself, and the reservation is computed from `restores`,
so that a second restore would be a state OrderLifecycle does not have.

### StockLedger
The three books that count the stock: `stock` (`Article.stock`,
`MatierePremiere.stock`), `lots` (in the order of creation) and `allocation` (what
the line of an order took from each lot), with the line itself in `order` and the
day in `today`. Every operation updates or locks its item's row before it reads
lots, so each is one action: `Reserve`, `Release`, `Deliver`, `Sell`, `Produce`,
`Enter`, `Withdraw`, `MarkLotAsLoss`, `NextDay`. `Taken` is `consumeLots`: what each
unexpired lot gives of a quantity, earliest date first. Items begin with stock 0,
as `create` in both catalogue services does, and only these operations change it.
`overdrawn` is a history variable: it marks items whose withdrawal went past what
was sellable, which the code allows.

Abstractions. Whole units in place of floating-point quantities of raw materials;
days in place of times; one line per order (lines are on different articles). The
journal `MouvementStock` is left out: its `stockAvant` and `stockApres` feed nothing
back. Lots without a date exist in the schema only.

### Refunds
The refunds of one order. `row[id]` is the row of `Refund` (`linked` says that
`stripeRefundId` is set), `lock` a request inside `prepareRefundRequest` between its reads
and its write, `call[k]` where `createStripeRefund` is with the request `k`. At Stripe:
`wire` holds the requests Stripe may still execute, long after the client gave up, `stripe`
the refunds with the answer kept for their idempotency key, `events` what is reported and
not yet acknowledged, in no order.

| Action | Code |
|---|---|
| `Prepare`, `Reserve`, `Rollback` | `prepareRefundRequest`: the lock and the reads, the write and its commit, or neither |
| `SyncAnswer` | the call of Stripe returns and `syncStripeRefund` writes its answer |
| `GiveUp`, `MarkRefundFailed` | the call or that write fails; `markRefundFailedAfterStripeError` |
| `HandleRefundEvent` | `handleStripeRefundWebhook`; the event stays when its transaction or settlement fails |
| `CancelOrder` | the order leaves the statuses that allow refunds |
| `Die` | the process stops in any of the steps after `Reserve` |
| `StripeRefunds`, `StripeRepeats`, `StripeRefuses`, `StripeSettles`, `RefundInDashboard` | Stripe, not part of this repository |

A refund has one name everywhere, its idempotency key, because the service finds the row of
a report by the key in its metadata as well as by Stripe's identifier. `Prepare` is guarded
by what makes the code throw or answer `idempotent`; the detour by
`resolvePaymentIntentFromCheckout` happens before the lock that counts, and its result
becomes the order's `intent` with the commit. `requires_action` counts with `pending` and
`canceled` with `failed`, since the service never treats them apart. `lost`, `dropped` and
`surprised` are history variables: they mark the cases the code leaves open (section 4).

### Reconciliation
`row[c]` is the row of `StripeCheckoutReconciliation` of a session and an operation; a
partial unique index allows one row that is not resolved, and the model keeps the latest.
`lease` and `due` say how `leaseExpiresAt` and `nextAttemptAt` compare with the clock.
`job[w]` is what the worker `w` has claimed and does, `seen[w]` the numbers of attempts it
read when it claimed, `session` the sessions to expire.

| Action | Code |
|---|---|
| `Record` | `createActiveStripeCheckoutReconciliation`, which takes an open row from its worker |
| `Retry`, `ResolveManually` | the staff endpoints |
| `Claim` | `claimDueReconciliations`, once per tick; `SKIP LOCKED` makes the batch any subset |
| `ProcessStripeState` | `processStripeState`, the first call: the session to expire is retrieved (`ProcessExpiration`) or reviewed (`ProcessReview`), or the call fails (`ProcessFailure`) |
| `ExpireOpenSession` | the second call, for a session found open: it expires, was ended meanwhile and is refused, or the call fails, possibly after its effect |
| `Stumble` | an exception after the call, whose outcome becomes a retry |
| `Finalize` | `finalizeClaimedReconciliation` with the outcome of `getRetryOutcome` for this attempt |
| `Crash` | the process stops, or a tick ends with an exception |
| `LeaseEnds`, `BecomesDue`, `SessionEnds` | the clock, the customer |

As in Checkout, a session paid between the two calls may be taken for an expired one (the
outcome `misread`, which is written as `resolved`). `StripeCheckoutReconciliationAttempt` is a journal and is left out. Sessions under review
have no state in the model: whatever Stripe says of them, the staff decides.

### PickupCalendar and ShopCheckout
PickupCalendar has the rules of a pickup date twice, as the code does: for the API
(`EarliestOrderDate`, `DateAllowed`, `SlotValid`) and for the shop (`ShopEarliest`,
`ShopDateAllowed`, `NextPickupDates`). A day is a number, an instant half a Paris day, since
the only hour that matters is 14 h. ShopCheckout puts a customer and an administrator on
top: `pointRows` are the `PickupPoint` rows, `storedCart` what `localStorage` has,
`page` the checkout page with the points it was rendered with (`offers`), the point and
date chosen and the instant it last looked at the clock (`seen`), `checkout` its request.

| Action | Code |
|---|---|
| `UpdatePoint`, `SetActive` | `pickup-points.service.ts` |
| `OpenShop`, `UpdateCart`, `CloseShop` | the cart of `shop-client.tsx` |
| `OpenCheckout`, `HandlePickupPointChange`, `ChooseDate`, `RefreshAvailability` | state and effects of `checkout-client.tsx` |
| `HandleSubmit` | the check against the options of now, and the request with the date on display |
| `PrepareOrder` | the slot is validated against the points active then; the stock or Stripe may still refuse |
| `GetsUrl`, `GetsError`, `LeavesPayment`, `ClosePage` | the answers, the return from Stripe |

The search of the next dates (`shop/lib/pickup-points.ts:154`) has no bound. A point
without dates freezes the page (`state = "frozen"`). `SearchEnds` looks two weeks ahead only;
the theorem `SearchWindow` says that this is enough.

### ProductionNeeds
One article: `stockLeft` is `Article.stock`, from which open orders have already taken what they
ordered, `commandes` the orders with their date. `AllocateProductionQuantities` is the
allocation of the API, `ExplicitNeeds` what the page makes of it, `FallbackNeeds` the
allocation the page computes itself. The actions move orders and stock: `PlaceOrder`,
`ChangeStatus`, `StockMoves`.

### CashRegister
`ventes` are sales, each one transaction dated at its beginning (`BeginSale`, `EndSale`);
`clerk[c]` is a request to close the till, which reads twice and inserts (`BeginClosing`,
`ReadTotals`, `CreateJournee`, `GiveUpClosing`). Time counts hours UTC; `ParisDayBounds`
has the midnights of Paris with the offset of either clock. Amounts are cents; `Rounded` is
`Math.round`.

### RateLimit
One process: `entries[a]` is the window of an address; `StartWindow`, `CountRequest` and
`RefuseRequest` are the middleware, `Restart` loses the memory. `passed` and `comeBack` are
history: what passed when, and what `Retry-After` promised.

### VisitSessions
`choice`, `visitor` and `session` are what `localStorage` has for all tabs, `tabChoice` what
each tab read when it was loaded. `calls` are the requests under way, each with the time
its handler read (`ReadClock`) before it waited for the lock of the visitor. `SelectChoice`,
`TrackActivity` and `CheckoutIdentifiers` are the browser, `TrackVisit`, `ResolveAttribution`
and `CleanupExpiredData` the API. A transaction that takes longer than `MaxLag` is left out.

### Catalogue
`article` and `category` are rows, `disk` the files of images, `form[f]` a page with the
request it waits for, `staff[s]` a request to change or remove a category or an article,
between its check and its write.

| Action | Code |
|---|---|
| `OpenForm`, `ResolveCategory`, `SaveArticle`, `LeaveForm` | the forms of an article; `create` and `update` after `resolveCategoryId` |
| `StoreImage`, `RefuseImage`, `ReadImage`, `UpdateImage`, `UpdateImageFails`, `DeleteOldImage` | the upload and the steps of `updateImage`; the update may fail after its effect (`unsure`) |
| `BeginRemoveArticle`, `EndRemoveArticle` | `remove`: count, then archive or delete |
| `CreateCategory`, `BeginUpdate`, `EndUpdate`, `BeginRemove`, `EndRemove` | the service of categories |
| `UseArticle` | a movement, an order or a sale refers to the article |

What `onDelete` in the schema says is in `Deletable` and `EndRemove`. Prices, names and `online`
are left out.

### Accounts
`roleOf[u]` and `request[r]`: a request checks the session of its caller (`BeginChange`,
`BeginRemoval`, `BeginCreation`) and writes later (`UpdateUserRole`, `RemoveUser`,
`CreateUser`, or `Abandon`). Better Auth, which is not in this repository, looks at the caller
again before it creates or removes; `updateUserRole` does not. `web/lib/auth.ts:57` enables its
admin plugin and `web/app/api/auth/[...all]/route.ts:4` mounts the endpoints of the plugin, so an
administrator's session may call them directly, although no page does: `BeginAtBetterAuth`,
which asks for the role `admin` (`web/lib/auth-access.ts:8`) and does not refuse one's own account.
`SocialSignUp` is an account made by a first sign-in with GitHub or Google.
Bans, impersonation and passwords, which write no role, and the bootstrap script are left out.

### ApiRoutes, BackOfficePages, BackOffice
ApiRoutes relates every route to the roles that may call it, from the `@Roles` of the
controllers, BackOfficePages
the permissions of `web/lib/permissions.ts` and, page by page, what each reads, offers and
links to. BackOffice is one employee between them: `shown` is the page with the role
and the status of the order it was rendered for. `OpenPage`, `FollowLink`, `UseOffer` and
`ClickStatus` are clicks; `ChangeRole` and `OrderMoves` are what others do meanwhile; `answer`
records how the click was answered.

### MCShopDay
These machines share no state with each other, so one run checks them one after the other:
`part` names the one that moves, and the state spaces add up. The catalogue has two parts,
one with two forms and one with a form and a request of the staff, and the till has two, one
for either change of the clock.

Definitions marked "Variant" in the modules are plausible
mistakes in the code next to which they stand. No specification uses them; each
property is known to fail when the definition that follows is replaced by one.

## 3. The runs

| Run | Instance | States | What it shows |
|---|---|---|---|
| `webhook_claims` | 2 events, 2 requests, 3 faults, no symmetry | 8,592 | only the owner settles, `processed` is final and only after handling; every event is processed in the end |
| `checkout` | 1 checkout order, 1 legacy order, 2 webhook requests, 2 cleanup runs, 2 faults | 2,017,586 | six invariants, and that Checkout implements OrderLifecycle |
| `checkout_live` | 1 order, 1 webhook request, 1 cleanup run, 2 faults, no symmetry | 91,979 | a payment, an expired session and an abandoned order come to an end |
| `checkout_replay` | 1 order, 1 request, 1 fault | violation | see section 5 |
| `checkout_race` | 1 order, 1 cleanup run, no faults | violation | see section 5 |
| `stock_ledger` | 1 article made of 1 raw material, 2 orders, 2 lots, quantities 1 to 2, 2 days | 970,321 | lots hold what they were created with, the books agree, first expired is first out, orders are neutral |
| `stock_deficit` | 1 order, 1 lot, quantity 1 | violation | see section 5 |
| `refunds` | 2 requests, 2 paid, amounts 1 to 3, 3 events under way | 925,836 | what Stripe gives back is reserved, and never more than was paid |
| `refunds_dashboard` | 1 request, 1 dashboard refund, order with or without payment intent, 2 events, no symmetry | 165,062 | the same with refunds the service did not ask for; a reserved amount is settled in the end |
| `refunds_quiet` | 1 request | violation | see section 5 |
| `reconciliation` | 3 cases (to expire, to review, without order), 2 workers, batches of 2, 2 attempts, 1 disturbance, no symmetry | 246,844 | decisions stand, attempts count, every case is decided |
| `shop_day` | 8 small machines in 10 parts, symmetry of the forms | 772,544 | what surrounds an order: see below |

Why the bounds are enough. Orders share no state in Checkout but the capacity of
webhook requests and cleanup runs, so one order with two of each has every race
on that order; the legacy order adds the second initial status. Two
faults allow a crash followed by another one in what recovers from it. `checkout_live` has one
webhook request at a time: a request that dies, times out and is taken over needs no more. What
overlapping requests do to each other is in `checkout` for safety, and in `webhook_claims` for
the promise that every event is processed. In
StockLedger two orders and two lots make every way of sharing a lot, quantity 2
splits a reservation over two lots or over a lot and a preorder, and on the second
day lots dated to the first are expired and the others are not; an order of dates
among unexpired lots needs two of them, which two lots dated to different days give.
`MaxStock`, `MaxLots` and `LastDay` only stop entries and the clock;
`MaxQuantity` bounds quantities per operation.

In Refunds a payment of 2 leaves room for two partial refunds or one whole one, and 3 asks
for too much; two requests have every race for the lock and for what is left.
`MaxEvents` bounds the reports under way, not how often they are repeated; with three, two
reports of one refund and one of the other can overtake each other. In Reconciliation each
of the three cases has an operation of its own, so every branch of the outcome is taken,
and a batch of two leaves a case to the second worker. `MaxAttempts` of 2 has a first, a
last, and a repeated attempt. `MaxDisturbances` counts what may delay a decision: crashes,
leases that end under their worker, cases recorded again, retries of the staff. One of them
is enough for a worker that lost its case to meet the one that took it over.

In `shop_day` the machines have: two pickup points, one of which changes to every second
week, to an anchor that misses its weekday, or to one that is no date, under pages that stay
open for five half days with two options each; three orders of one article with equal,
different or no dates; two sales and two closings on the two sides of the midnight
that ends the day of 23 hours, or the day of 25; one address over nearly three
windows; two tabs over more than one session window, with retentions that end within the
run; one article in two forms with two uploads, and one form with two categories and a
request of the staff; every page, role and status for one employee and one order; three
accounts and two requests. A day, a window or a retention is two or three ticks long there: the
code compares times with `<` and `>=` and every comparison has both results, and equality,
within these bounds.

Types are proved, not run, except `LedgerTypeOK`, which is more than a type: it says that no lot
and no stock of a raw material is ever negative.

Deadlock is not checked except in WebhookClaims: every order may be settled, every lot
written off or full on the last day, every refund settled, every case resolved, every till closed,
with nothing left to do.

Fairness. In WebhookClaims and Checkout: a request, webhook handler or cleanup run
that has begun goes on (weak fairness: nothing in the code waits for another
process without a limit); Stripe repeats an event until it gets a success, and
every scheduled cleanup goes through all candidates (strong fairness on claiming an
event and on taking up an order, since either can be enabled and disabled again by
competitors); timeouts elapse. The customer, the staff and the life of a session owe
nothing. Faults are finite (`MaxFaults`): with a crash in every attempt nothing can be
promised.

In Refunds only a request that has begun goes on, since the client of Stripe has a timeout:
nothing is assumed of Stripe, of the network or of the delivery of events. In Reconciliation
the timer of every worker ticks, a tick that has begun goes on, and clocks pass leases and
due dates; a tick never starts before the last one ended, so weak fairness is enough.

## 4. The properties

Webhooks: `OnlyTheOwnerSettles`, `ProcessedIsFinal`,
`ProcessedOnlyWhenHandled`, `EveryEventProcessed`. An attempt that was taken over
cannot settle the event under its successor, whatever both still do. (`OneOwner`
is not in a run; it is proved.)

Orders: `ReleasedExactlyWhenCancelled` (stock goes back once, with the status,
whichever of five callers gets there), `AbandonedOnlyOnceNeutralised` and
`OnlyStaffCancelsPayableOrders` (no automatic cancellation under a customer who has
paid or can pay, except when a session paid between the gateway's two calls was `misread`; a
session that is still open is never an exception), `PaymentNeverForgotten` and `ExpiryNeverForgotten` (an acknowledged
event has had its effect), `OneConfirmationEmail`, `ImplementsLifecycle`, and in the
end `PaymentSettled`, `ExpiredSessionReleases`, `AbandonedNotSilent`. The last one is
as strong as the code allows: an order whose checkout died before `stripeId` was
stored, with a session that never ends, is only ever reported.

Stock: `LotsNeverOverdrawn` (a release always fits the lots),
`LedgerCoversLots` (the figure covers the lots, unless a withdrawal went into expired
ones), `FirstExpiredFirstOut`, `ExpiredOnlyLeavesAsLoss`, `OrdersAreNeutral` (reservation,
delivery and release only move stock between the books, whatever came in between).

Refunds: `NoSilentRefund` (money Stripe gave back is reserved in the rows, or an event that
says so is still to be read, even when the call timed out, was marked failed, and was
executed later), `FailureOfLinkedRefundIsStripes` (a timeout never writes `failed` over a
report), `ReservedWithinPayment` (racing requests share what is left),
`ReservationIsSettled`. Their exceptions are what the code leaves open: a process
that dies with a pending row (`lost`: the amount stays reserved, and a repeated request is
answered as if it had succeeded), a dashboard refund reported while the order does not know
its payment intent (`dropped`: logged and acknowledged), and a refund the rows did not count
when Stripe reported it (`surprised`: Stripe then holds more than the service would have
allowed, but never more than was paid).

Reconciliation: `AttemptsNeverSetBack` and `DecisionsStand` (a worker that lost its lease
changes nothing), `OnlyExpiredSessionsResolve` (a session that was paid or is unknown goes to
the staff, unless it was paid between the gateway's two calls and `misread` by the worker that
writes), `EveryCaseIsDecided`.

Around an order:

* `FreshOfferAccepted`: a slot the page has let through is refused only if its point
  changed or the request came in another half day, although the dates are computed twice,
  by different code, and the date shown may not be the one that was chosen.
* `FrozenOnlyByMisfitAnchor`: the unbounded search freezes the page for no other points than
  those with an anchor that is no date or none of their weekdays. The back office accepts both.
* `NeedsAreTheShortfall`: what the page shows for a day is what the orders of that day lack by
  an independent definition, and the page's own allocation never shows less.
* `ClosingsAddUp`: a closing counts sales of its own Paris day only, all that were committed
  when it began, none twice, and its parts sum to its total. (A sale that commits later but
  is dated earlier is in no closing.)
* `RateIsBounded`: at most twice the maximum passes in any stretch as long as a window, and
  whoever waits as long as he was told finds the window ended.
* `VisitsApart`, `NoIdentifierAfterRefusal`: visits of one visitor are counted a session
  window apart, less `MaxLag`; no tab undoes the refusal of another.
* `ImagesAreOnDisk`, `CatalogueIsSound`: whatever uploads, updates and removals interleave,
  rows refer to files, categories and articles that are there. The exception is an update of
  the image whose answer was lost: the row has the new file, which is then deleted (`unsure`).
* `OffersAreHonoured`: three tables kept apart (permissions, routes, transitions) agree for
  every page and role; what is refused has changed since the page was rendered.
* `SomeAdminRemains`: the routes of the back office refuse one's own account, so what one
  request takes away leaves its caller, and an administrator remains. The exceptions are two
  requests that overlap (`overlapped`: two who demote each other leave none), and an
  administrator who asks Better Auth itself to take away his own role (`selfDemoted`).

## 5. Where the code and the documentation disagree

* `checkout_replay`: `docs/analytics.md:37` calls the replay of a webhook idempotent.
  The confirmation and the settling of the event are two transactions. If the
  process stops in between and the staff moves the order on to `preparee` before
  Stripe repeats the event, the repetition finds neither a pending nor a new order and
  records `review_checkout_payment_mismatch` for a payment that was handled correctly.
* `checkout_race`: `commandes/stripe-checkout.gateway.spec.ts:405` says that the gateway
  "reports paid session if expiration races with payment". It does when `sessions.expire` returns
  the completed session, as in that test. When it throws, the catch block looks for "expired" in
  the message first (`commandes/stripe-checkout.gateway.ts:222`), and a refusal may say "expired"
  and "complete" in one sentence: the paid session is answered `already_expired`. A cleanup run
  then releases the order, and the reconciliation worker resolves a case that `README.md:418`
  sends to the staff (« Les cas payés, ambigus ou sans commande passent en revue manuelle »). The
  payment is not lost: its event finds the order cancelled and records
  `review_paid_cancelled_checkout` (`PaymentNeverForgotten`). What the refusal says is Stripe's
  and not in this repository; the models allow any of its readings.
* `stock_deficit`: `README.md:395` says that a negative `Article.stock` is the preorder
  deficit, what is left to produce. What an order preordered is never taken from the
  lots produced for it, not even when it is handed over. Such a lot stays in the books,
  expires, and its loss makes the stock negative with no order waiting. (A withdrawal into
  expired lots, excluded from this run by `overdrawn`, has the same effect; for a raw
  material it makes the database refuse the loss.)
* `refunds_quiet`: `README.md:413` says that the refund events synchronise the refunds.
  `syncStripeRefund` writes the report that comes last, whatever it says. When the report
  that a refund is pending (its first event, or the answer of the creation) is written after
  the one that ended it, the row stays `pending`, with every event handled and none to come.

Divergences met while modelling that no run shows:

* `docs/analytics.md:7` says that `confirmedAt` of a Stripe order is set by the first valid
  `checkout.session.completed` event. The staff endpoint accepts `nouvelle` for an order that waits
  for its payment, and sets it (`commandes/commandes.service.ts:943`, `TransitionCommandeStatus`).
* `docs/AUTH_ROLES.md:113` and `docs/MATRICE_ROLES.md:72` let `gerant` delete an article; the route
  asks for `admin` (`articles/articles.controller.ts:138`), and so do the pages.
* `web/app/api/admin/users/[id]/role/route.ts:23` refuses to change one's own role « ici », in the
  back office. Better Auth's `set-role` is mounted beside it and does not (`BeginAtBetterAuth`).
* `web/components/commandes/commande-status-actions.tsx:127` offers « Traiter » for an order
  that is `nouvelle`; the table of the API refuses it, as
  `commandes/commande-status-transitions.spec.ts:22` expects. It is the named exception of
  `OffersAreHonoured`.
* `shop/app/cancel/page.tsx:25` says « Votre panier reste disponible » ; the checkout page
  cleared the cart (`shop/components/shop/checkout-client.tsx:237`, `GetsUrl`) before it sent the
  customer to Stripe.
* `web/components/articles/delete-article-button.tsx:24` says that an article used in the
  history is archived. `articles.service.ts` counts what refers to it before it deletes: a
  movement or a lot that comes in between loses its article (`UseArticle` between
  `BeginRemoveArticle` and `EndRemoveArticle`). An order or a sale is protected by the schema.
* The forms of an article let images of 8 MB through (`2 * 2048 * 2048`), the API takes 2 MB
  (`articles/article-image-upload.ts:10`): `RefuseImage`, after the article was saved. A form for
  a new article that fails there forgets what it created, and creates a second one when it is
  sent again (`Reopened`).

## 6. What is proved

Every safety invariant and every action property of the runs is proved, and so is the
refinement of OrderLifecycle. The theorems hold for any sets of orders, requests, handlers,
workers, cases, items, lots, points, calendars, tabs, forms, categories, sales, addresses
and accounts, and any bounds on faults, amounts, quantities, windows and clocks, from the
assumptions on the constants alone (the `ASSUME` of each module). BackOffice has no such
constants: its theorem is about any sequence of clicks and changes.

| Module | Proves |
|---|---|
| `WebhookClaimsProofs` | WebhookClaims |
| `CheckoutProofs` | Checkout, its refinement of OrderLifecycle, WebhookClaims inside Checkout |
| `RefundsProofs` | Refunds |
| `ReconciliationProofs` | Reconciliation |
| `StockLedgerProofs` | StockLedger |
| `ShopProofs` | PickupCalendar and ShopCheckout, VisitSessions, RateLimit |
| `BackOfficeProofs` | Catalogue, Accounts, CashRegister, ProductionNeeds, BackOffice |
| `SumLemmas` | facts about sums over finite sets, which four of the others cite |

### Orders and webhooks

In Checkout, none of the invariants is inductive by itself: whether a step is safe depends on what a
process remembers of an earlier one. `CheckoutInv` says that these memories are true:

* `RequestInv`: at each step of a checkout request, what the session and the order can be
  (once its session is "neutralised" it is expired, before `stripeId` is stored no
  customer has the URL, ...);
* `CleanerInv`: a cleanup run about to release an order was told that its session had ended, and
  the session has: it is expired, or complete and misread (`Closed`), and never reopens
  (`ClosedStays`);
* `HandlerInv`: a webhook request works on a session that has ended; past its
  transaction the payment, or the expiry, has left its trace;
* `RowInv`: the same for a row that is processed;
* `ConfirmedInv`, `MotifInv`, `EmailInv`: how confirmation, the recorded reason and
  the e-mails relate to the session and the status. An e-mail is owed only by the one
  transaction that confirmed the order, which no replay repeats.

The proof has one lemma per action (`<Action>Inv`), on top of a few lemmas on the helpers
(`ReleaseFacts`, `RetrieveFacts`, `ExpireFacts`, `SettledStays`, `HandlerAdvances`). The refinement uses the
invariant: a release that finds the order in a releasable status finds it not released, so
its restore is the first; every other step leaves `status` and `restores` alone or maps to
`Place` or `Advance`.

`ClaimsInv` of WebhookClaims rests on tokens: no request has one ahead of its row
(`TokenNotAhead`) and no two have the same one (`TokensDiffer`). In Checkout the claims run
among other processes that use up the same faults, so its specification is not literally
`ClaimsSpec`. `EveryStepOfClaims` shows that each of its steps is a step of `ClaimsNext` or
leaves rows and requests alone; the invariant is then carried over from
`WebhookClaimsProofs` by instantiation (`ClaimsHoldInCheckout`), and together with `RowInv`
it gives `AcknowledgedForGood`: an acknowledged event has left its trace on the order, and
no later step undoes either.

### Stock

`LInv` of StockLedger adds two facts to `LotsNeverOverdrawn` and `LedgerCoversLots`: an order
draws on lots of its own article only (`AllocationIsOfLots`), and its line is what the lots
gave it and what was preordered (`LinesAddUp`). The difference between the figure of an item,
with what orders have beyond its lots, and its lots is `Book`; for each action the proof says
what it does to the two sides, by lemmas that change a sum at one lot or one order. For
`Taken`, the code's `consumeLots`, the lemmas show that what it takes from unexpired lots
adds up to the quantity, or to all there is, that no lot gives more than it has, and that a
lot gives only when the earlier ones have given everything. `LotsAreUsedInOrder` follows from
the last one, `OrdersOnlyMoveStock` and `ReleaseAlwaysFits` from the sums.

### Refunds and reconciliation

`RInv` of Refunds says that a refund Stripe holds has an amount and a first answer
(`RefundIsWhole`), that a request on its way has its row (`RequestHasRow`), that what is
reported exists (`ReportIsOfRefund`), that a failure at Stripe is final
(`FailureIsFinal`), and that a row no one linked has not been read from Stripe
(`UnlinkedIsUnread`). From these, a row of a refund that Stripe keeps can be without
reservation only while its event is unread: the answer that might set it back to
`failed` is of a refund Stripe has failed, and the mark after a timeout spares linked rows.

`Kept` adds what the amounts need: what Stripe answers or reports is the amount of the row
(`AmountsAgree`), and between the reads and the write of a request the room it found is still
there (`RoomIsKept`). The second is where a race would show, since webhooks write rows without
the lock that the request holds: they may lower what is reserved, but raise it only when
`surprised` says so. `ReservationsHaveRequests` is the part of `ReservationIsSettled` that is
not about time: an amount reserved and not yet answered has a request under way that will
settle it, unless its process died.

`QInv` of Reconciliation says that a row with an owner is pending (`OwnedIsPending`), that an
owner still at work on its row knows its number of attempts (`OwnerKnowsAttempts`), that a
case in hand has left the batch (`InHandOnce`), and that an outcome is one of those the
code writes (`OutcomeIsKnown`), `resolved` only for an expired session and `misread` only for a
paid one (`ResolvedIsExpired`). Everything the staff and
the order code do clears the owner, which is why a late `Finalize` finds nothing to write. One
more theorem, `NeverGivesUpEarly`, says that the number a worker compares with the limit is that
of the row it writes, whatever happened since it claimed the case.

### The shop

`PageInv` of ShopCheckout says that the date the page keeps was among the options at some
earlier instant it looked at the clock (`PageSafe`), and that the date it sends is among those of
the instant it is sent (`SentIsAnOption`). The step in between is `OfferedInBetween`: a date that
was an option and is one now was one at every instant in between, so the date on display is
the one that was chosen. It rests on arithmetic modulo 7 and 14 (`AllowedEveryFortnight`),
on the least element of a set of dates (`LeastElement`, in SumLemmas) and on the cardinality of
the dates before another. `SearchWindow` and `OnlyMisfits` are lemmas on the calendar alone.

`VisitInv` adds to VisitsApart that the activity of a row is never older than its beginning
by more than `MaxLag` (`LastFollowsStart`), and that a time a call has read is past
(`ClocksAreRead`). A row that is touched keeps its beginning (`TouchingIsSafe`), a new one begins
a window after all activity (`NewSessionIsSafe`).

`RateInv` of RateLimit has, for each address, `Window`: the count of the window under way is
what passed since it began, what passed in the window before it is bounded, and so is every
window that ended earlier. A stretch as long as a window meets at most two of them, which is
where twice the maximum comes from; a restart is a new window, with nothing counted.

### The back office

`ImagesInv` of Catalogue says that a file on its way to a row is on the disk and referred to by
nobody (`FilesAreFresh`), that what a form will delete is the image of its own article at most
(`OldIsUnused`), and that two articles share no image (`ImagesApart`). `CategoriesInv` says
that no request under way would take away the default category (`DefaultIsSpared`), because
it looked before, and nothing gives that slug to another category or takes it from this one.
`AInv` of Accounts says that while no two requests overlapped and none was `selfDemoted`, there
is an administrator whom the one request that takes something away does not concern
(`OneIsSpared`): its caller.

`CashInv` of CashRegister says what a closing under way knows (`ClerkKnows`: its bounds are
two midnights of Paris that follow each other, the sales it has seen are of that day, its
totals are theirs) and what a row of the closed days keeps (`DayIsRight`). It needs that
midnights are in order and that a sale lies between just two of them, whatever the dates on
which the clocks change.

ProductionNeeds has little to remember: its theorem is about an algorithm. The allocation
goes through the orders in the order in which they are served (`Enumerates`), and what it has
left before each is what the earlier ones leave of the stock (`LoopRuns`), so what an order
lacks is determined by those before it. The page's own allocation leaves orders out that
the API counts, hence serves nobody later (`PageShowsNoLess`).

For BackOffice, the tables are compared page by page (`Calls`, `Links`, `StatusButtons`);
`OfficeInv` says that what is on the screen comes from them and was rendered for a role that
might see it.

### How the sums are proved

What a sum over a finite set is, for every set, is a statement about a recursive function.
SumLemmas proves it without an induction theorem: among the subsets of a finite set for which
the statement fails there would be a smallest one (`SmallestSubset`), and it cannot be. The same
pattern, with `LeastElement`, replaces induction over numbers elsewhere.

### Only model-checked

The liveness properties `EveryEventProcessed`, `PaymentSettled`, `ExpiredSessionReleases`,
`AbandonedNotSilent`, `ReservationIsSettled` and `EveryCaseIsDecided`: fairness and ENABLED are
beyond the prover. The runs that expect a violation have, of course, nothing to prove.

## 7. Not modelled

* Sending e-mails: I/O. Checkout counts the confirmations.
* The contents of pages, forms and messages; the dashboard of analytics and the margin of the
  cash register, which are aggregates nothing depends on; projections that only read.
* Cookies, tokens and passwords, which belong to Better Auth, and Stripe, of which the models keep
  what the code relies on.
* Raw materials and recipes as rows: single-row updates guarded by the schema. Their stock is in
  StockLedger.
* Deployment, seeds, migrations and CI. The constraints the migrations create are guards and
  failures in the modules.
* The order in which transactions lock rows: PostgreSQL aborts one of two that wait for each
  other, and the code promises nothing beyond that.
* `validateCheckoutSessionForCommande` for sessions that disagree with their order (section 2).

* Smaller things, which no property depends on. An update that throws after its commit in
  `markStripeWebhookEventProcessed` is `MarkProcessed`, since the catch block finds nothing left
  to write. A sale or a production reads the day twice in its transaction
  (`ventes/ventes.service.ts:255`, `articles/articles.service.ts:484`, then
  `mouvements-stock/mouvements-stock.service.ts:554`): midnight between the two is not covered.
  The navigation of the back office goes by a client session of its own
  (`web/components/layout/app-shell.tsx:297`), which may be older than the page. The search of
  pickup dates also runs when the server renders the page. Reads and writes of `localStorage` are
  atomic in VisitSessions, and never fail. In Catalogue, an update sends all its fields, an
  article is created without an image, and a category is created active.

The notes in `PROJECT.json` say for each component marked `partly` what is left out.

## 8. Plan

In this order:

1. `CheckoutSessions`: the sessions that disagree with the order, or belong to none, and
   the choice of the reconciliation (`validateCheckoutSessionForCommande`), as a decision
   table inside Checkout.
2. Reconciliation composed with Checkout, so that `SessionExpires` becomes the worker's
   effect on the session instead of Stripe's, if the state space allows.
3. The lock order of reservations against sales, and a checkout from the page to the order:
   ShopCheckout in front of Checkout, with its retries under one idempotency key.
4. Theorems: that Reconciliation, once composed with Checkout, only does to a session what
   `SessionExpires` does; that the figures of StockLedger follow OrderLifecycle (a reservation is
   released when its order is cancelled, and not before).
