-------------------------- MODULE CheckoutProperties --------------------------
(***************************************************************************)
(* What Checkout is checked and proved against.                            *)
(***************************************************************************)
EXTENDS Checkout

(***************************************************************************)
(* The reservation of an order, as the database shows it: the stock put    *)
(* back by one release, or by more than one.                               *)
(***************************************************************************)
ReservationOf(s, n) ==
  IF s = "absent" THEN "none"
  ELSE IF n = 0 THEN "held"
  ELSE IF n = 1 THEN "released" ELSE "released twice"

Reservation == [o \in Orders |-> ReservationOf(status[o], restores[o])]

Lifecycle == INSTANCE OrderLifecycle WITH reservation <- Reservation

(***************************************************************************)
(* The checkout, its webhooks, its cleaners and the staff, with all their  *)
(* crashes, take every order through the life OrderLifecycle promises.     *)
(***************************************************************************)
ImplementsLifecycle == Lifecycle!LifecycleSpec

(***************************************************************************)
(* The stock of an order is put back exactly once, in the transaction that *)
(* cancels it, and never for an order that is alive, whichever of the      *)
(* cleanup runs, the expired webhook, the failing checkout and the staff   *)
(* get to releaseOrderReservation, together or one after the other.        *)
(***************************************************************************)
ReleasedExactlyWhenCancelled ==
  \A o \in Orders :
    /\ status[o] = "annulee" <=> o \in released
    /\ restores[o] = IF status[o] = "annulee" THEN 1 ELSE 0

(***************************************************************************)
(* The stock of an abandoned order goes back on sale only once its session *)
(* can no longer be paid: what a cleanup run or an expired webhook cancels *)
(* has an expired session.  A session paid between the two calls of the    *)
(* gateway is the one exception (RacedPaymentIsReported, below), and even  *)
(* then it is no session that is still open (cleanupAbandonedCommande).    *)
(***************************************************************************)
AbandonedOnlyOnceNeutralised ==
  \A o \in Orders :
    /\ motif[o] = "checkout_expire" => session[o] = "expired"
    /\ motif[o] = "commande_abandonnee" =>
         \/ session[o] = "expired"
         \/ o \in misread /\ IsComplete(o)

(***************************************************************************)
(* No automatic cancellation takes an order from under a customer who has  *)
(* paid or still can: only the staff can cancel such an order, and the     *)
(* cleanup that was told a session just paid had expired.                  *)
(***************************************************************************)
OnlyStaffCancelsPayableOrders ==
  \A o \in Orders :
    /\ status[o] = "annulee"
    /\ o \in url
    /\ session[o] # "expired"
    => \/ motif[o] = "annulation"
       \/ motif[o] = "commande_abandonnee" /\ o \in misread

(***************************************************************************)
(* A payment is never forgotten: once the completed event of a session is  *)
(* processed, and will not be delivered again, the order is confirmed or a *)
(* reconciliation tells the staff (confirmPaidCommande).                   *)
(***************************************************************************)
PaymentNeverForgotten ==
  \A o \in Orders :
    row[o].status = "processed" =>
      /\ session[o] = "paid" =>
           \/ o \in confirmedAt
           \/ "review_paid_cancelled_checkout" \in reconciliations[o]
      /\ session[o] = "unpaid" =>
           "review_checkout_payment_mismatch" \in reconciliations[o]

(***************************************************************************)
(* A customer gets at most one confirmation e-mail per order, and only for *)
(* an order its payment confirmed, however often the event is delivered,   *)
(* taken over or replayed (sendOrderConfirmationBestEffort).               *)
(***************************************************************************)
OneConfirmationEmail ==
  \A o \in Orders :
    /\ emails[o] <= 1
    /\ emails[o] = 1 => o \in paymentIntent

(***************************************************************************)
(* An expired event is not lost either: once it is processed the order no  *)
(* longer waits for its payment (expirePendingCommande).                   *)
(***************************************************************************)
ExpiryNeverForgotten ==
  \A o \in Orders :
    row[o].status = "processed" /\ session[o] = "expired"
      => status[o] # "paiement_en_attente"

------------------------------------------------------------------------------
(* Liveness, under FairSpec *)

(***************************************************************************)
(* A payment ends up with a confirmed order, or in front of the staff.     *)
(***************************************************************************)
PaymentSettled ==
  \A o \in Orders :
    session[o] = "paid" ~> (o \in confirmedAt \/ reconciliations[o] # {})

(***************************************************************************)
(* An expired session does not hold stock for ever, even when the checkout *)
(* request died before it stored the session.                              *)
(***************************************************************************)
ExpiredSessionReleases ==
  \A o \in Orders :
    session[o] = "expired" ~> status[o] # "paiement_en_attente"

(***************************************************************************)
(* No reservation is blocked in silence: an order that is still unpaid     *)
(* after the delay is settled, or a reconciliation points to it.  It need  *)
(* not be settled: an order whose checkout died before stripeId was stored *)
(* only ever gets review_missing_checkout_session.                         *)
(***************************************************************************)
AbandonedNotSilent ==
  \A o \in Orders :
    o \in old ~> (status[o] # "paiement_en_attente" \/ reconciliations[o] # {})

------------------------------------------------------------------------------
(* Statements of the documentation and the tests that the code does not keep *)

(***************************************************************************)
(* analytics.md: the replay of a webhook is idempotent.  Replaying the     *)
(* event that confirmed an order would then leave no anomaly behind.       *)
(***************************************************************************)
ReplayIsIdempotent ==
  \A o \in Orders :
    o \in paymentIntent
      => "review_checkout_payment_mismatch" \notin reconciliations[o]

(***************************************************************************)
(* stripe-checkout.gateway.spec.ts: the gateway "reports paid session if   *)
(* expiration races with payment".  A cleanup run would then never go on   *)
(* to release an order whose customer has paid.                            *)
(***************************************************************************)
RacedPaymentIsReported ==
  \A c \in Cleaners :
    cleaner[c].at = "releasing" => session[cleaner[c].order] # "paid"
==============================================================================
