------------------------------- MODULE Checkout -------------------------------
(***************************************************************************)
(* The life of an order from the checkout on: the request that creates it, *)
(* its Stripe session, the webhook that settles it, the cleanup of         *)
(* abandoned orders and the staff, all acting on the same row, each in     *)
(* several transactions with calls to Stripe in between, and each able to  *)
(* stop after any of them (commandes.service.ts).                          *)
(*                                                                         *)
(* A transaction that begins by SELECT ... FOR UPDATE on the order is one  *)
(* action.  The order of a session is found by its stripeId or by the      *)
(* metadata the checkout wrote into it, and a checkout uses one            *)
(* idempotency key: an order has at most one session and a session leads   *)
(* to its order, so both have the name of the order here.  A session ends  *)
(* once, so an order has one event, "completed" or "expired" by the state  *)
(* of its session.                                                         *)
(***************************************************************************)
EXTENDS Naturals, OrderStatus

CONSTANTS
  Orders,        \* the orders that may be created
  LegacyOrders,  \* those stored as paiement_a_verifier, which nothing sets now
  Handlers,      \* webhook requests in progress at once
  Cleaners,      \* cleanup runs in progress at once (scheduler, endpoint)
  NoOrder,       \* the order of a handler or cleaner that has none
  MaxFaults      \* bound on crashes, failed calls and stalled requests

ASSUME CheckoutAssumption ==
  /\ LegacyOrders \subseteq Orders
  /\ NoOrder \notin Orders
  /\ MaxFaults \in Nat

VARIABLES
  (* the database *)
  status,          \* Commande.statut, "absent" before the order exists
  confirmedAt,     \* the orders that have a confirmedAt
  stripeId,        \* the orders that have a stripeId
  paymentIntent,   \* the orders that have a stripePaymentIntentId
  released,        \* the orders with a CommandeReservationRelease row
  restores,        \* how often the stock of an order has been put back
  motif,           \* the reason recorded in the history for a cancellation
  reconciliations, \* the operations recorded in StripeCheckoutReconciliation
  row,             \* the StripeWebhookEvent row of the order's event
  (* Stripe and the outside *)
  session,         \* the Checkout session of each order
  url,             \* the orders whose customer got the URL of the session
  old,             \* the orders older than the abandonment delay
  emails,          \* how many confirmation e-mails have been sent
  misread,         \* history: complete sessions answered already_expired
  (* the processes *)
  request,         \* the checkout request of each order
  handler,         \* the webhook requests
  cleaner,         \* the cleanup runs
  faults           \* how many faults have happened

orderVars   == <<status, confirmedAt, stripeId, paymentIntent, released,
                 restores, motif, reconciliations>>
claimVars   == <<row, handler, faults>>
outsideVars == <<session, url, old, emails, misread>>
vars == <<orderVars, row, outsideVars, request, handler, cleaner, faults>>

Claims == INSTANCE WebhookClaims WITH Events <- Orders, NoEvent <- NoOrder

Motifs ==
  { "none", "annulation", "commande_abandonnee", "checkout_expire",
    "checkout_stripe_creation_echec", "checkout_session_sans_url",
    "checkout_stripe_id_update_echec" }

Operations ==
  { "expire_checkout_session", "review_missing_checkout_session",
    "review_paid_pending_checkout", "review_paid_cancelled_checkout",
    "review_checkout_payment_mismatch" }

SessionState == {"none", "open", "paid", "unpaid", "expired"}
RequestStep == { "none", "creating", "refused", "withoutUrl", "persisting",
                 "unpersisted", "expiring", "neutralised", "unneutralised",
                 "done" }
CleanerStep == {"idle", "retrieving", "expiring", "releasing", "recording"}
CleanerState == [at : CleanerStep, order : Orders \cup {NoOrder},
                 op : Operations \cup {"none"}]
Resting == [at |-> "idle", order |-> NoOrder, op |-> "none"]

TypeOK ==
  /\ status \in [Orders -> OrderStatuses \cup {"absent"}]
  /\ confirmedAt \subseteq Orders
  /\ stripeId \subseteq Orders
  /\ paymentIntent \subseteq Orders
  /\ released \subseteq Orders
  /\ restores \in [Orders -> Nat]
  /\ motif \in [Orders -> Motifs]
  /\ reconciliations \in [Orders -> SUBSET Operations]
  /\ session \in [Orders -> SessionState]
  /\ url \subseteq Orders
  /\ old \subseteq Orders
  /\ emails \in [Orders -> Nat]
  /\ misread \subseteq Orders
  /\ request \in [Orders -> RequestStep]
  /\ cleaner \in [Cleaners -> CleanerState]
  /\ Claims!ClaimsTypeOK

Init ==
  /\ status = [o \in Orders |->
                 IF o \in LegacyOrders THEN "paiement_a_verifier" ELSE "absent"]
  /\ confirmedAt = {} /\ stripeId = {} /\ paymentIntent = {} /\ released = {}
  /\ restores = [o \in Orders |-> 0]
  /\ motif = [o \in Orders |-> "none"]
  /\ reconciliations = [o \in Orders |-> {}]
  /\ session = [o \in Orders |-> "none"]
  /\ url = {} /\ old = {} /\ misread = {}
  /\ emails = [o \in Orders |-> 0]
  /\ request = [o \in Orders |-> "none"]
  /\ cleaner = [c \in Cleaners |-> Resting]
  /\ Claims!ClaimsInit

------------------------------------------------------------------------------
(* Helpers shared by the actions *)

Record(o, ops) ==
  reconciliations' = [reconciliations EXCEPT ![o] = @ \cup ops]

\* Variants (here and below): the mistakes the properties must catch.  A
\* release that gives back the stock of a cancelled order again.
ReleaseWithoutGate(o, reason, releasable, ops) ==
  /\ IF status[o] \in releasable \cup {"annulee"}
       THEN /\ released' = released \cup {o}
            /\ restores' = [restores EXCEPT ![o] = @ + 1]
            /\ status' = [status EXCEPT ![o] = "annulee"]
            /\ motif' = [motif EXCEPT ![o] = reason]
            /\ Record(o, ops)
       ELSE UNCHANGED <<status, released, restores, motif, reconciliations>>
  /\ UNCHANGED <<confirmedAt, stripeId, paymentIntent>>

(***************************************************************************)
(* releaseOrderReservation.  The insert into CommandeReservationRelease is *)
(* the gate before the stock is put back.  A reconciliation that comes     *)
(* with the release is recorded even when the order was cancelled before,  *)
(* and dropped when the order can no longer be released.                   *)
(***************************************************************************)
ReleaseOrderReservation(o, reason, releasable, ops) ==
  /\ \/ /\ status[o] \in releasable
        /\ CanTransition(status[o], "annulee")
        /\ released' = released \cup {o}
        /\ restores' = IF o \in released THEN restores
                       ELSE [restores EXCEPT ![o] = @ + 1]
        /\ status' = [status EXCEPT ![o] = "annulee"]
        /\ motif' = [motif EXCEPT ![o] = reason]
        /\ Record(o, ops)
     \/ /\ status[o] \notin releasable
        /\ status[o] = "annulee"
        /\ Record(o, ops)
        /\ UNCHANGED <<status, released, restores, motif>>
     \/ /\ status[o] \notin releasable \cup {"annulee"}
        /\ UNCHANGED <<status, released, restores, motif, reconciliations>>
  /\ UNCHANGED <<confirmedAt, stripeId, paymentIntent>>

(***************************************************************************)
(* StripeCheckoutGateway.expireCheckoutSession is two calls, and a session *)
(* that the first one found open may have ended before the second.  Here,  *)
(* retrieveCheckoutSession.  "failed" also stands for the answer not_found *)
(* of either call, which leads to the same reconciliation.                 *)
(***************************************************************************)
RetrieveCheckoutSession(o, answer) ==
  \/ /\ answer = CASE session[o] = "open"    -> "open"
                    [] session[o] = "expired" -> "already_expired"
                    [] OTHER                  -> "already_paid"
     /\ UNCHANGED faults
  \/ answer = "failed" /\ Claims!Fault

IsComplete(o) == session[o] \in {"paid", "unpaid"}

(***************************************************************************)
(* sessions.expire and its catch.  Stripe refuses a session that is no     *)
(* longer open, and the catch goes by the words of the message: "expired"  *)
(* is looked for first, then "complete" and "paid".  The words are         *)
(* Stripe's, and a refusal may well speak of both ("only open sessions can *)
(* be expired, this one is complete"), so any of the answers may come.  A  *)
(* call that fails may have had its effect.                                *)
(***************************************************************************)
ExpireCheckoutSession(o, answer) ==
  /\ \/ /\ session[o] = "open"
        /\ answer = "expired"
        /\ session' = [session EXCEPT ![o] = "expired"]
        /\ UNCHANGED faults
     \/ /\ session[o] # "open"
        /\ answer \in {"already_expired", "already_paid", "failed"}
        /\ UNCHANGED <<session, faults>>
     \/ /\ answer = "failed"
        /\ Claims!Fault
        /\ \/ UNCHANGED session
           \/ session[o] = "open" /\ session' = [session EXCEPT ![o] = "expired"]
  /\ misread' = IF answer = "already_expired" /\ IsComplete(o)
                  THEN misread \cup {o} ELSE misread

Answers == {"open", "already_paid", "already_expired", "expired", "failed"}

\* Variants: a failed call, or a complete session, taken for a closed one.
NeutralisedOrFailed == {"expired", "already_expired", "failed"}
NeutralisedOrPaid == {"expired", "already_expired", "already_paid"}

Neutralised == {"expired", "already_expired"}

------------------------------------------------------------------------------
(* Creation of an order *)

\* CommandesService.create: a staff order is confirmed at once.
CreateDirect(o) ==
  /\ status[o] = "absent"
  /\ status' = [status EXCEPT ![o] = "nouvelle"]
  /\ confirmedAt' = confirmedAt \cup {o}
  /\ request' = [request EXCEPT ![o] = "done"]
  /\ UNCHANGED <<stripeId, paymentIntent, released, restores, motif,
                 reconciliations, claimVars, outsideVars, cleaner>>

\* createCheckout, first transaction: the order and its reservation.
PlaceCheckout(o) ==
  /\ status[o] = "absent"
  /\ status' = [status EXCEPT ![o] = "paiement_en_attente"]
  /\ request' = [request EXCEPT ![o] = "creating"]
  /\ UNCHANGED <<confirmedAt, stripeId, paymentIntent, released, restores,
                 motif, reconciliations, claimVars, outsideVars, cleaner>>

\* createCheckout, the call to Stripe.  A call that fails may have created the
\* session; a session may come without a URL.
CreateSession(o) ==
  /\ request[o] = "creating"
  /\ \/ /\ session' = [session EXCEPT ![o] = "open"]
        /\ request' = [request EXCEPT ![o] = "persisting"]
        /\ UNCHANGED faults
     \/ /\ Claims!Fault
        /\ session' = [session EXCEPT ![o] = "open"]
        /\ request' = [request EXCEPT ![o] = "withoutUrl"]
     \/ /\ Claims!Fault
        /\ \/ UNCHANGED session
           \/ session' = [session EXCEPT ![o] = "open"]
        /\ request' = [request EXCEPT ![o] = "refused"]
  /\ UNCHANGED <<orderVars, row, handler, url, old, emails, misread, cleaner>>

\* createCheckout, cancelCheckoutBeforePayment without a usable session.
CancelWithoutSession(o) ==
  /\ request[o] \in {"refused", "withoutUrl"}
  /\ ReleaseOrderReservation(o,
       IF request[o] = "refused" THEN "checkout_stripe_creation_echec"
                                 ELSE "checkout_session_sans_url",
       {"paiement_en_attente"}, {})
  /\ request' = [request EXCEPT ![o] = "done"]
  /\ UNCHANGED <<claimVars, outsideVars, cleaner>>

\* createCheckout, the update of stripeId (guarded by nothing but the id) and
\* the answer with the URL.
PersistSession(o) ==
  /\ request[o] = "persisting"
  /\ stripeId' = stripeId \cup {o}
  /\ url' = url \cup {o}
  /\ request' = [request EXCEPT ![o] = "done"]
  /\ UNCHANGED <<status, confirmedAt, paymentIntent, released, restores, motif,
                 reconciliations, claimVars, session, old, emails, misread,
                 cleaner>>

\* The update throws, before or after its commit.
PersistFails(o) ==
  /\ request[o] = "persisting"
  /\ Claims!Fault
  /\ \/ UNCHANGED stripeId
     \/ stripeId' = stripeId \cup {o}
  /\ request' = [request EXCEPT ![o] = "unpersisted"]
  /\ UNCHANGED <<status, confirmedAt, paymentIntent, released, restores, motif,
                 reconciliations, row, handler, outsideVars, cleaner>>

\* expireUnpersistedCheckoutSession, the two calls of the gateway.
UnpersistedGoesOn(o, answer) ==
  request' = [request EXCEPT ![o] = CASE answer = "open"          -> "expiring"
                                      [] answer \in Neutralised   -> "neutralised"
                                      [] OTHER                    -> "unneutralised"]

RetrieveUnpersisted(o) ==
  /\ request[o] = "unpersisted"
  /\ \E answer \in Answers :
       RetrieveCheckoutSession(o, answer) /\ UnpersistedGoesOn(o, answer)
  /\ UNCHANGED <<orderVars, row, handler, outsideVars, cleaner>>

ExpireUnpersisted(o) ==
  /\ request[o] = "expiring"
  /\ \E answer \in Answers :
       ExpireCheckoutSession(o, answer) /\ UnpersistedGoesOn(o, answer)
  /\ UNCHANGED <<orderVars, row, handler, url, old, emails, cleaner>>

\* createCheckout, cancelCheckoutBeforePayment after the failed update.
CancelUnpersisted(o) ==
  /\ request[o] \in {"neutralised", "unneutralised"}
  /\ ReleaseOrderReservation(o, "checkout_stripe_id_update_echec",
       {"paiement_en_attente"},
       IF request[o] = "unneutralised" THEN {"expire_checkout_session"} ELSE {})
  /\ request' = [request EXCEPT ![o] = "done"]
  /\ UNCHANGED <<claimVars, outsideVars, cleaner>>

\* The instance that runs the request dies, or its next transaction throws.
AbandonRequest(o) ==
  /\ request[o] \notin {"none", "done"}
  /\ Claims!Fault
  /\ request' = [request EXCEPT ![o] = "done"]
  /\ UNCHANGED <<orderVars, row, handler, outsideVars, cleaner>>

------------------------------------------------------------------------------
(* Stripe, the customer and the clock *)

\* The customer completes the session: paid, or with a method that pays later.
Pay(o) ==
  /\ o \in url
  /\ session[o] = "open"
  /\ \E s \in {"paid", "unpaid"} : session' = [session EXCEPT ![o] = s]
  /\ UNCHANGED <<orderVars, claimVars, url, old, emails, misread, request,
                 cleaner>>

\* The session reaches its end of life, or the reconciliation worker retries
\* its expiration.
SessionExpires(o) ==
  /\ session[o] = "open"
  /\ session' = [session EXCEPT ![o] = "expired"]
  /\ UNCHANGED <<orderVars, claimVars, url, old, emails, misread, request,
                 cleaner>>

\* ABANDONED_ORDER_DELAY_MINUTES passes since the order was created.
Age(o) ==
  /\ status[o] = "paiement_en_attente"
  /\ o \notin old
  /\ old' = old \cup {o}
  /\ UNCHANGED <<orderVars, claimVars, session, url, emails, misread, request,
                 cleaner>>

------------------------------------------------------------------------------
(* Webhooks *)

\* Stripe sends an event once the session has ended.
Emitted(o) == session[o] \in {"paid", "unpaid", "expired"}

ClaimEvent(h, o) ==
  /\ Emitted(o)
  /\ Claims!Claim(h, o)
  /\ UNCHANGED <<orderVars, outsideVars, request, cleaner>>

\* Variant: a payment for a cancelled order raises nothing.
AnomalyIgnoringCancelled(o) ==
  IF session[o] # "paid" THEN {"review_checkout_payment_mismatch"} ELSE {}

\* validateCheckoutSessionForCommande, for a session this checkout created:
\* its currency, amount, stripeId and references agree with the order.
Anomaly(o) ==
  IF session[o] = "paid" /\ status[o] \in {"paiement_en_attente", "nouvelle"}
    THEN {}
  ELSE IF session[o] = "paid" /\ status[o] = "annulee"
    THEN {"review_paid_cancelled_checkout"}
    ELSE {"review_checkout_payment_mismatch"}

\* Variant: the order is returned, and mailed, even when it was confirmed before.
ConfirmPaidAlwaysMails(h) ==
  LET o == handler[h].event IN
  /\ handler[h].at = "claimed"
  /\ session[o] = "paid"
  /\ status[o] \in {"paiement_en_attente", "nouvelle"}
  /\ status' = [status EXCEPT ![o] = "nouvelle"]
  /\ confirmedAt' = confirmedAt \cup {o}
  /\ stripeId' = stripeId \cup {o}
  /\ paymentIntent' = paymentIntent \cup {o}
  /\ Claims!Handle(h, "notifying")
  /\ UNCHANGED <<reconciliations, released, restores, motif, outsideVars,
                 request, cleaner>>

\* confirmPaidCommande.  Only the transaction that confirms the order returns
\* it, and so leads to an e-mail.
ConfirmPaidCommande(h) ==
  LET o == handler[h].event IN
  /\ handler[h].at = "claimed"
  /\ session[o] \in {"paid", "unpaid"}
  /\ \/ /\ Anomaly(o) # {}
        /\ Record(o, Anomaly(o))
        /\ Claims!Handle(h, "handled")
        /\ UNCHANGED <<status, confirmedAt, stripeId, paymentIntent>>
     \/ /\ Anomaly(o) = {}
        /\ status[o] # "paiement_en_attente"
        /\ Claims!Handle(h, "handled")
        /\ UNCHANGED <<status, confirmedAt, stripeId, paymentIntent,
                       reconciliations>>
     \/ /\ Anomaly(o) = {}
        /\ status[o] = "paiement_en_attente"
        /\ status' = [status EXCEPT ![o] = "nouvelle"]
        /\ confirmedAt' = confirmedAt \cup {o}
        /\ stripeId' = stripeId \cup {o}
        /\ paymentIntent' = paymentIntent \cup {o}
        /\ Claims!Handle(h, "notifying")
        /\ UNCHANGED reconciliations
  /\ UNCHANGED <<released, restores, motif, outsideVars, request, cleaner>>

\* Variant: the order of an expired session is looked up by stripeId alone.
ExpirePendingByStripeId(h) ==
  LET o == handler[h].event IN
  /\ handler[h].at = "claimed"
  /\ session[o] = "expired"
  /\ ReleaseOrderReservation(o, "checkout_expire",
       IF o \in stripeId THEN {"paiement_en_attente"} ELSE {}, {})
  /\ Claims!Handle(h, "handled")
  /\ UNCHANGED <<outsideVars, request, cleaner>>

\* expirePendingCommande.
ExpirePendingCommande(h) ==
  LET o == handler[h].event IN
  /\ handler[h].at = "claimed"
  /\ session[o] = "expired"
  /\ ReleaseOrderReservation(o, "checkout_expire", {"paiement_en_attente"}, {})
  /\ Claims!Handle(h, "handled")
  /\ UNCHANGED <<outsideVars, request, cleaner>>

\* sendOrderConfirmationBestEffort: an error is logged and forgotten.
SendOrderConfirmation(h) ==
  /\ Claims!Notified(h)
  /\ \/ emails' = [emails EXCEPT ![handler[h].event] = @ + 1]
     \/ UNCHANGED emails
  /\ UNCHANGED <<orderVars, session, url, old, misread, request, cleaner>>

SettleEvent(h) ==
  /\ Claims!Settle(h)
  /\ UNCHANGED <<orderVars, outsideVars, request, cleaner>>

HandlerMishap(h) ==
  /\ Claims!Mishap(h)
  /\ UNCHANGED <<orderVars, outsideVars, request, cleaner>>

EventTimesOut(o) ==
  /\ Claims!TimeOut(o)
  /\ UNCHANGED <<orderVars, outsideVars, request, cleaner>>

------------------------------------------------------------------------------
(* Cleanup of abandoned orders *)

CleanerGoesTo(c, at, o, op) ==
  cleaner' = [cleaner EXCEPT ![c] = [at |-> at, order |-> o, op |-> op]]

\* Variant: orders without a stripeId are passed over.
PrepareCleanupWithSession(c, o) ==
  /\ cleaner[c] = Resting
  /\ status[o] = "paiement_en_attente"
  /\ o \in old \cap stripeId
  /\ CleanerGoesTo(c, "retrieving", o, "none")
  /\ UNCHANGED <<orderVars, claimVars, outsideVars, request>>

\* cleanupAbandonedCommandes picks a candidate, and
\* prepareAbandonedCommandeCleanup reads it again under its lock.
PrepareCleanup(c, o) ==
  /\ cleaner[c] = Resting
  /\ status[o] = "paiement_en_attente"
  /\ o \in old
  /\ IF o \in stripeId
       THEN CleanerGoesTo(c, "retrieving", o, "none")
       ELSE CleanerGoesTo(c, "recording", o, "review_missing_checkout_session")
  /\ UNCHANGED <<orderVars, claimVars, outsideVars, request>>

\* cleanupAbandonedCommande, the two calls of the gateway, outside any
\* transaction.
AbandonedGoesOn(c, o, answer) ==
  CASE answer = "open"         -> CleanerGoesTo(c, "expiring", o, "none")
    [] answer \in Neutralised  -> CleanerGoesTo(c, "releasing", o, "none")
    [] answer = "already_paid" ->
         CleanerGoesTo(c, "recording", o, "review_paid_pending_checkout")
    [] OTHER ->
         CleanerGoesTo(c, "recording", o, "expire_checkout_session")

RetrieveAbandoned(c) ==
  LET o == cleaner[c].order IN
  /\ cleaner[c].at = "retrieving"
  /\ \E answer \in Answers :
       RetrieveCheckoutSession(o, answer) /\ AbandonedGoesOn(c, o, answer)
  /\ UNCHANGED <<orderVars, row, handler, outsideVars, request>>

ExpireAbandoned(c) ==
  LET o == cleaner[c].order IN
  /\ cleaner[c].at = "expiring"
  /\ \E answer \in Answers :
       ExpireCheckoutSession(o, answer) /\ AbandonedGoesOn(c, o, answer)
  /\ UNCHANGED <<orderVars, row, handler, url, old, emails, request>>

\* cleanupAbandonedCommande, the second transaction: age, session and status
\* are checked again under the lock.
ReleaseAbandoned(c) ==
  LET o == cleaner[c].order IN
  /\ cleaner[c].at = "releasing"
  /\ ReleaseOrderReservation(o, "commande_abandonnee",
       IF o \in old \cap stripeId THEN {"paiement_en_attente"} ELSE {}, {})
  /\ cleaner' = [cleaner EXCEPT ![c] = Resting]
  /\ UNCHANGED <<claimVars, outsideVars, request>>

\* recordStripeCheckoutCleanupReconciliation.
RecordCleanupReconciliation(c) ==
  LET o  == cleaner[c].order
      op == IF /\ cleaner[c].op = "review_paid_pending_checkout"
               /\ status[o] = "annulee"
              THEN "review_paid_cancelled_checkout"
              ELSE cleaner[c].op
  IN
  /\ cleaner[c].at = "recording"
  /\ Record(o, IF status[o] = "nouvelle" THEN {} ELSE {op})
  /\ cleaner' = [cleaner EXCEPT ![c] = Resting]
  /\ UNCHANGED <<status, confirmedAt, stripeId, paymentIntent, released,
                 restores, motif, claimVars, outsideVars, request>>

\* The cleanup run dies, or its next transaction throws.
AbandonCleanup(c) ==
  /\ cleaner[c] # Resting
  /\ Claims!Fault
  /\ cleaner' = [cleaner EXCEPT ![c] = Resting]
  /\ UNCHANGED <<orderVars, row, handler, outsideVars, request>>

------------------------------------------------------------------------------
(* Staff *)

\* cancelCommande: the session, if there is one, is left as it is.
CancelCommande(o) ==
  /\ status[o] \in CancellableStockReleaseStatuses
  /\ ReleaseOrderReservation(o, "annulation",
                             CancellableStockReleaseStatuses, {})
  /\ UNCHANGED <<claimVars, outsideVars, request, cleaner>>

\* Variant: the status table is not consulted.
TransitionAnywhere(o, s) ==
  /\ status[o] # "absent"
  /\ status' = [status EXCEPT ![o] = s]
  /\ confirmedAt' = confirmedAt \cup {o}
  /\ UNCHANGED <<stripeId, paymentIntent, released, restores, motif,
                 reconciliations, claimVars, outsideVars, request, cleaner>>

\* transitionCommandeStatus, for a status the endpoint accepts.
TransitionCommandeStatus(o, s) ==
  /\ CanTransition(status[o], s)
  /\ status' = [status EXCEPT ![o] = s]
  /\ confirmedAt' = IF IsEligibleOrderStatus(s) THEN confirmedAt \cup {o}
                                                ELSE confirmedAt
  /\ UNCHANGED <<stripeId, paymentIntent, released, restores, motif,
                 reconciliations, claimVars, outsideVars, request, cleaner>>

------------------------------------------------------------------------------
RequestProgress(o) ==
  \/ CreateSession(o)
  \/ CancelWithoutSession(o)
  \/ PersistSession(o)
  \/ RetrieveUnpersisted(o)
  \/ ExpireUnpersisted(o)
  \/ CancelUnpersisted(o)

HandlerProgress(h) ==
  \/ ConfirmPaidCommande(h)
  \/ ExpirePendingCommande(h)
  \/ SendOrderConfirmation(h)
  \/ SettleEvent(h)

CleanerProgress(c) ==
  \/ RetrieveAbandoned(c)
  \/ ExpireAbandoned(c)
  \/ ReleaseAbandoned(c)
  \/ RecordCleanupReconciliation(c)

OrderStep(o) ==
  \/ CreateDirect(o)
  \/ PlaceCheckout(o)
  \/ RequestProgress(o)
  \/ PersistFails(o)
  \/ AbandonRequest(o)
  \/ Pay(o)
  \/ SessionExpires(o)
  \/ Age(o)
  \/ EventTimesOut(o)
  \/ CancelCommande(o)
  \/ \E s \in StaffStatuses : TransitionCommandeStatus(o, s)

HandlerStep(h) ==
  \/ \E o \in Orders : ClaimEvent(h, o)
  \/ HandlerProgress(h)
  \/ HandlerMishap(h)

CleanerStepOf(c) ==
  \/ \E o \in Orders : PrepareCleanup(c, o)
  \/ CleanerProgress(c)
  \/ AbandonCleanup(c)

Next ==
  \/ \E o \in Orders : OrderStep(o)
  \/ \E h \in Handlers : HandlerStep(h)
  \/ \E c \in Cleaners : CleanerStepOf(c)

Spec == Init /\ [][Next]_vars

(***************************************************************************)
(* Fairness: requests, webhook handlers and cleanup runs that have begun   *)
(* go on; Stripe delivers until it gets a success; every run of the        *)
(* scheduler goes through all the candidates, so an order that is a        *)
(* candidate again and again is taken up.  Customers, staff and sessions   *)
(* owe nothing.                                                            *)
(***************************************************************************)
Fairness ==
  /\ \A o \in Orders :
       /\ WF_vars(RequestProgress(o))
       /\ WF_vars(EventTimesOut(o))
       /\ SF_vars(\E h \in Handlers : ClaimEvent(h, o))
       /\ SF_vars(\E c \in Cleaners : PrepareCleanup(c, o))
  /\ \A h \in Handlers : WF_vars(HandlerProgress(h))
  /\ \A c \in Cleaners : WF_vars(CleanerProgress(c))

FairSpec == Spec /\ Fairness
==============================================================================
