-------------------------------- MODULE Refunds --------------------------------
(***************************************************************************)
(* The refunds of one order (commande-refunds.service.ts): requests of the *)
(* managers, refunds made in Stripe's dashboard, the refunds Stripe holds, *)
(* and the webhook events that report them.                                *)
(*                                                                         *)
(* A refund has the same name everywhere: the idempotency key of its row,  *)
(* which Stripe receives as idempotency key and as metadata, or, for the   *)
(* dashboard, the key made of Stripe's own identifier.  A key built without*)
(* requestId names its amount; it behaves as a request that always asks    *)
(* for the same amount.                                                    *)
(*                                                                         *)
(* Stripe's status requires_action is counted with pending, and canceled   *)
(* with failed: the service never treats them apart.                       *)
(***************************************************************************)
EXTENDS Integers, FiniteSetsExt

CONSTANTS
  Requests,  \* idempotency keys of the managers' requests
  Dashboard, \* refunds created in Stripe's dashboard
  NoRequest, \* the key of a lock nobody holds
  Amounts,   \* amounts a manager or the dashboard may ask for
  Total,     \* what the customer paid, in the order and at Stripe
  Intents,   \* whether the order may know its payment intent at first
  MaxEvents  \* bound on the events that are under way

ASSUME RefundsAssumption ==
  /\ IsFiniteSet(Requests) /\ IsFiniteSet(Dashboard)
  /\ Requests \cap Dashboard = {}
  /\ NoRequest \notin Requests
  /\ Total \in Nat \ {0}
  /\ Amounts \subseteq Nat \ {0}
  /\ Intents \subseteq BOOLEAN
  /\ MaxEvents \in Nat \ {0}

VARIABLES
  refundable, \* the order has a status that allows refunds
  intent,     \* the order knows its payment intent
  row,        \* the rows of the table Refund
  lock,       \* prepareRefundRequest, between its reads and its write
  call,       \* where createStripeRefund is with each request
  wire,       \* requests Stripe has yet to execute
  stripe,     \* the refunds Stripe holds
  events,     \* what refund events report, until the webhook is done with it
  lost,       \* history: requests whose process died
  dropped,    \* history: refunds reported while no order matched
  surprised   \* history: Stripe reported an amount the rows did not reserve

bookVars == <<refundable, intent, row, lock>>
stripeVars == <<wire, stripe, events>>
history == <<lost, dropped, surprised>>
vars == <<refundable, intent, row, lock, call, wire, stripe, events, lost,
          dropped, surprised>>

Ids == Requests \cup Dashboard
StripeStatus == {"pending", "succeeded", "failed"}
Reserving == {"pending", "succeeded"}

Row == [status : StripeStatus \cup {"none"}, linked : BOOLEAN, amount : 0..Total]
NoRow == [status |-> "none", linked |-> FALSE, amount |-> 0]

\* first is the status of the answer that Stripe gives to the request, and
\* gives again to a request with the same key.
StripeRefund ==
  [status : StripeStatus \cup {"none"}, first : Reserving \cup {"none"},
   amount : 0..Total]
NoRefund == [status |-> "none", first |-> "none", amount |-> 0]

NoLock == [key |-> NoRequest, amount |-> 0]

RefundsTypeOK ==
  /\ refundable \in BOOLEAN
  /\ intent \in BOOLEAN
  /\ row \in [Ids -> Row]
  /\ lock \in [key : Requests, amount : 1..Total] \cup {NoLock}
  /\ call \in [Requests -> {"idle", "sent", "answered", "error"}]
  /\ wire \subseteq Requests
  /\ stripe \in [Ids -> StripeRefund]
  /\ events \subseteq Ids \X StripeStatus
  /\ lost \subseteq Requests
  /\ dropped \subseteq Dashboard
  /\ surprised \in BOOLEAN

Init ==
  /\ refundable = TRUE
  /\ intent \in Intents
  /\ row = [id \in Ids |-> NoRow]
  /\ lock = NoLock
  /\ call = [k \in Requests |-> "idle"]
  /\ wire = {}
  /\ stripe = [id \in Ids |-> NoRefund]
  /\ events = {}
  /\ lost = {}
  /\ dropped = {}
  /\ surprised = FALSE

SumOver(rows, ids) == SumFunctionOnSet([id \in Ids |-> rows[id].amount], ids)

\* calculateRefundSummary
Reserved == SumOver(row, {id \in Ids : row[id].status \in Reserving})
Refundable == IF Reserved < Total THEN Total - Reserved ELSE 0

\* Stripe gives back no more than it was paid.
Refunded == SumOver(stripe, {id \in Ids : stripe[id].status \in Reserving})

-----------------------------------------------------------------------------
(* prepareRefundRequest: one transaction under the lock of the order.      *)

\* A request is new, or repeats one that failed before Stripe knew of it; any
\* other is answered with the refunds as they are.
MayPrepare(k) ==
  \/ row[k].status = "none"
  \/ row[k].status = "failed" /\ ~row[k].linked

\* Variant: refunds that are still pending are not reserved.
PrepareBesidesPending(k) ==
  /\ lock = NoLock
  /\ call[k] = "idle"
  /\ refundable
  /\ MayPrepare(k)
  /\ \E asked \in Amounts \cup {Refundable} :
       LET amount == IF row[k].status = "none" THEN asked ELSE row[k].amount
           paid == {id \in Ids : row[id].status = "succeeded"}
       IN  /\ amount \in 1..Total
           /\ SumOver(row, paid) + amount <= Total
           /\ lock' = [key |-> k, amount |-> amount]
  /\ UNCHANGED <<refundable, intent, row, call, stripeVars, history>>

\* The lock and the reads.  An order that ignores its payment intent asks the
\* Checkout session for it first; that Stripe confirms it is this step's guard.
Prepare(k) ==
  /\ lock = NoLock
  /\ call[k] = "idle"
  /\ refundable
  /\ MayPrepare(k)
  /\ \E asked \in Amounts \cup {Refundable} :
       LET amount == IF row[k].status = "none" THEN asked ELSE row[k].amount
       IN  /\ amount \in 1..Total
           /\ Reserved + amount <= Total
           /\ lock' = [key |-> k, amount |-> amount]
  /\ UNCHANGED <<refundable, intent, row, call, stripeVars, history>>

\* The write, after which the request goes to Stripe.  A webhook updates a row
\* without the lock of the order, so the row may have been linked to Stripe since
\* it was read; the update then leaves the link.
Reserve ==
  /\ lock # NoLock
  /\ LET k == lock.key
     IN  /\ row' = [row EXCEPT ![k].status = "pending", ![k].amount = lock.amount]
         /\ call' = [call EXCEPT ![k] = "sent"]
         /\ wire' = wire \cup {k}
  /\ intent' = TRUE
  /\ lock' = NoLock
  /\ UNCHANGED <<refundable, stripe, events, history>>

\* The transaction does not commit.
Rollback ==
  /\ lock # NoLock
  /\ lock' = NoLock
  /\ UNCHANGED <<refundable, intent, row, call, stripeVars, history>>

\* The order is cancelled: a transition waits for the order's lock.
CancelOrder ==
  /\ lock = NoLock
  /\ refundable
  /\ refundable' = FALSE
  /\ UNCHANGED <<intent, row, lock, call, stripeVars, history>>

-----------------------------------------------------------------------------
(* syncStripeRefund: the last report written wins.                         *)

\* Variant: a failed refund is taken for closed.
SyncButFailed(id, status) ==
  IF row[id].status # "failed" /\ (row[id].status # "none" \/ intent)
  THEN /\ row' = [row EXCEPT ![id] = [status |-> status, linked |-> TRUE,
                                      amount |-> stripe[id].amount]]
       /\ intent' = TRUE
       /\ surprised' = (\/ surprised
                        \/ status \in Reserving /\ row[id].status \notin Reserving)
       /\ UNCHANGED dropped
  ELSE UNCHANGED <<row, intent, surprised, dropped>>

\* Variant: a refund without a row is ignored.
SyncOfKnownRows(id, status) ==
  /\ row' = IF row[id].status # "none"
            THEN [row EXCEPT ![id] = [status |-> status, linked |-> TRUE,
                                      amount |-> stripe[id].amount]]
            ELSE row
  /\ UNCHANGED <<intent, surprised, dropped>>

Sync(id, status) ==
  IF row[id].status # "none" \/ intent
  THEN /\ row' = [row EXCEPT ![id] = [status |-> status, linked |-> TRUE,
                                      amount |-> stripe[id].amount]]
       /\ intent' = TRUE
       /\ surprised' = (\/ surprised
                        \/ status \in Reserving /\ row[id].status \notin Reserving)
       /\ UNCHANGED dropped
  ELSE /\ dropped' = dropped \cup {id}
       /\ UNCHANGED <<row, intent, surprised>>

\* handleStripeRefundWebhook.  The event comes again when its transaction or
\* the mark that it was processed fails.  A new row waits for the lock of the
\* order it refers to; an update of a row does not.  charge.refunded, which
\* reports several refunds, is several events.
HandleRefundEvent(id, status) ==
  /\ <<id, status>> \in events
  /\ row[id].status = "none" /\ intent => lock = NoLock
  /\ Sync(id, status)
  /\ \/ events' = events \ {<<id, status>>}
     \/ UNCHANGED events
  /\ UNCHANGED <<refundable, lock, call, wire, stripe, lost>>

-----------------------------------------------------------------------------
(* createStripeRefund.  A request in the state sent may have reached Stripe *)
(* or not: what is on the wire may stay there for ever.                    *)

SyncAnswer(k) ==
  /\ call[k] = "answered"
  /\ Sync(k, stripe[k].first)
  /\ call' = [call EXCEPT ![k] = "idle"]
  /\ UNCHANGED <<refundable, lock, stripeVars, lost>>

\* Variant: the error is passed on without a mark on the row.
GiveUpUnmarked(k) ==
  /\ call[k] \in {"sent", "answered"}
  /\ call' = [call EXCEPT ![k] = "idle"]
  /\ UNCHANGED <<bookVars, stripeVars, history>>

\* No answer came in time, or the transaction of syncStripeRefund failed.
\* Stripe may execute the request later all the same.
GiveUp(k) ==
  /\ call[k] \in {"sent", "answered"}
  /\ call' = [call EXCEPT ![k] = "error"]
  /\ UNCHANGED <<bookVars, stripeVars, history>>

\* Variant: the row is marked even when it is linked to Stripe's refund.
MarkLinkedRefundFailed(k) ==
  /\ call[k] = "error"
  /\ row' = IF row[k].status = "pending"
            THEN [row EXCEPT ![k].status = "failed"] ELSE row
  /\ call' = [call EXCEPT ![k] = "idle"]
  /\ UNCHANGED <<refundable, intent, lock, stripeVars, history>>

MarkRefundFailed(k) ==
  /\ call[k] = "error"
  /\ row' = IF row[k].status = "pending" /\ ~row[k].linked
            THEN [row EXCEPT ![k].status = "failed"] ELSE row
  /\ call' = [call EXCEPT ![k] = "idle"]
  /\ UNCHANGED <<refundable, intent, lock, stripeVars, history>>

\* The process dies, or cannot reach the database any more.
Die(k) ==
  /\ call[k] # "idle"
  /\ call' = [call EXCEPT ![k] = "idle"]
  /\ lost' = lost \cup {k}
  /\ UNCHANGED <<bookVars, stripeVars, dropped, surprised>>

-----------------------------------------------------------------------------
(* Stripe, which this project does not implement.                          *)

Report(id, status) ==
  /\ events' = events \cup {<<id, status>>}
  /\ Cardinality(events') <= MaxEvents

Create(id, amount) ==
  /\ stripe[id] = NoRefund
  /\ amount \in 1..Total
  /\ Refunded + amount <= Total
  /\ \E status \in Reserving :
       /\ stripe' = [stripe EXCEPT ![id] = [status |-> status, first |-> status,
                                            amount |-> amount]]
       /\ Report(id, status)

Answer(k, result) ==
  /\ wire' = wire \ {k}
  /\ call' = IF call[k] = "sent" THEN [call EXCEPT ![k] = result] ELSE call
  /\ UNCHANGED <<bookVars, history>>

StripeRefunds(k) ==
  /\ k \in wire
  /\ Create(k, row[k].amount)
  /\ Answer(k, "answered")

\* The answer to a key that Stripe knows is the answer given before.
StripeRepeats(k) ==
  /\ k \in wire
  /\ stripe[k] # NoRefund
  /\ Answer(k, "answered")
  /\ UNCHANGED <<stripe, events>>

StripeRefuses(k) ==
  /\ k \in wire
  /\ stripe[k] = NoRefund
  /\ Answer(k, "error")
  /\ UNCHANGED <<stripe, events>>

RefundInDashboard(id) ==
  /\ \E amount \in Amounts : Create(id, amount)
  /\ UNCHANGED <<bookVars, call, wire, history>>

StripeSettles(id, status) ==
  /\ \/ stripe[id].status = "pending" /\ status \in {"succeeded", "failed"}
     \/ stripe[id].status = "succeeded" /\ status = "failed"
  /\ stripe' = [stripe EXCEPT ![id].status = status]
  /\ Report(id, status)
  /\ UNCHANGED <<bookVars, call, wire, history>>

-----------------------------------------------------------------------------

Request(k) ==
  \/ Prepare(k) \/ SyncAnswer(k) \/ GiveUp(k) \/ MarkRefundFailed(k)
  \/ Die(k)

External ==
  \/ \E k \in Requests : StripeRefunds(k) \/ StripeRepeats(k) \/ StripeRefuses(k)
  \/ \E id \in Dashboard : RefundInDashboard(id)
  \/ \E id \in Ids, status \in StripeStatus : StripeSettles(id, status)

Next ==
  \/ \E k \in Requests : Request(k)
  \/ Reserve \/ Rollback \/ CancelOrder
  \/ \E id \in Ids, status \in StripeStatus : HandleRefundEvent(id, status)
  \/ External

\* A request that runs goes on by itself: the client of Stripe has a timeout.
Fairness == \A k \in Requests :
  /\ WF_vars(SyncAnswer(k) \/ GiveUp(k))
  /\ WF_vars(MarkRefundFailed(k))

Spec == Init /\ [][Next]_vars /\ Fairness

-----------------------------------------------------------------------------
(* Properties.                                                             *)

\* Money that Stripe gives back is reserved in the rows, or will be: its event
\* is still to be read.  Otherwise the same money would be offered for a second
\* refund.  Events that find no order are the exception the service logs
\* (syncStripeRefund).
NoSilentRefund ==
  \A id \in Ids : stripe[id].status \in Reserving =>
    \/ row[id].status \in Reserving
    \/ \E status \in Reserving : <<id, status>> \in events
    \/ id \in dropped

\* Only Stripe makes a refund it knows of fail: a timeout that races the event
\* of the same refund (markRefundFailedAfterStripeError) must not write failed
\* over what the event reported.
FailureOfLinkedRefundIsStripes ==
  \A id \in Ids : row[id].linked /\ row[id].status = "failed" =>
    stripe[id].status = "failed"

\* Requests that race for the same order never reserve more than was paid,
\* unless Stripe reports a refund the rows did not count: a dashboard refund, or
\* one whose answer was given up (prepareRefundRequest).
ReservedWithinPayment == ~surprised => Reserved <= Total

\* An amount reserved for a request that Stripe has not answered is released or
\* linked in the end, whatever Stripe does, unless the process died
\* (createStripeRefund, which only answers an error after it marked the row).
ReservationIsSettled ==
  \A k \in Requests :
    (row[k].status = "pending" /\ ~row[k].linked) ~>
      (row[k].linked \/ row[k].status = "failed" \/ k \in lost)

\* README.md:413 « Les evenements refund.created, refund.updated et
\* refund.failed synchronisent les remboursements Stripe »: once every event is
\* handled and every request is over, the rows say what Stripe says.
BooksAgreeWhenQuiet ==
  (events = {} /\ wire = {} /\ \A k \in Requests : call[k] = "idle") =>
    \A id \in Ids : stripe[id].status # "none" => row[id].status = stripe[id].status
=============================================================================
