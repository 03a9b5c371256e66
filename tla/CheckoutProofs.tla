---------------------------- MODULE CheckoutProofs ----------------------------
(***************************************************************************)
(* The safety properties of Checkout and its refinement of OrderLifecycle, *)
(* for any orders, webhook requests, cleanup runs and number of faults.    *)
(* The inductive invariant CheckoutInv relates what the processes remember *)
(* between two transactions to the rows, and the rows to the sessions.     *)
(***************************************************************************)
EXTENDS CheckoutProperties, TLAPS

(***************************************************************************)
(* What it takes for the event of an order to be dealt with.               *)
(***************************************************************************)
Settled(o) ==
  /\ session[o] = "paid" =>
       \/ o \in confirmedAt
       \/ "review_paid_cancelled_checkout" \in reconciliations[o]
  /\ session[o] = "unpaid" =>
       "review_checkout_payment_mismatch" \in reconciliations[o]
  /\ session[o] = "expired" => status[o] # "paiement_en_attente"

\* Only an order a checkout created has a request, and no session exists before
\* its request has asked for one.
RequestInv ==
  \A o \in Orders :
    /\ status[o] \in {"absent", "paiement_a_verifier"} => request[o] = "none"
    /\ request[o] \in {"none", "creating"} => session[o] = "none"
    /\ o \in url => request[o] = "done"

\* A confirmed order has its date.
ConfirmedInv ==
  \A o \in Orders : IsEligibleOrderStatus(status[o]) => o \in confirmedAt

\* The session can not be paid any more, or was paid just before the gateway
\* answered that it had expired.
Closed(o) == session[o] = "expired" \/ (o \in misread /\ IsComplete(o))
USE DEF Closed, IsComplete

\* A cleanup run about to release an order was told that its session is closed,
\* and one about to record a reconciliation knows which.
CleanerInv ==
  \A c \in Cleaners :
    /\ cleaner[c].at # "idle" => cleaner[c].order \in Orders
    /\ cleaner[c].at = "expiring" => session[cleaner[c].order] # "none"
    /\ cleaner[c].at = "releasing" => Closed(cleaner[c].order)
    /\ cleaner[c].at = "recording" => cleaner[c].op # "none"

\* A webhook request works on an event Stripe has emitted, and past its
\* transaction the event is dealt with.
HandlerInv ==
  \A h \in Handlers :
    /\ handler[h].at # "idle" =>
         handler[h].event \in Orders /\ Emitted(handler[h].event)
    /\ handler[h].at \in {"notifying", "handled"} => Settled(handler[h].event)

RowInv ==
  \A o \in Orders :
    /\ row[o].status # "absent" => Emitted(o)
    /\ row[o].status = "processed" => Settled(o)

CheckoutMotifs ==
  { "checkout_stripe_creation_echec", "checkout_session_sans_url",
    "checkout_stripe_id_update_echec" }

\* The reason of a cancellation tells what was known of the session.
MotifInv ==
  \A o \in Orders :
    /\ status[o] = "annulee" => motif[o] # "none"
    /\ motif[o] = "checkout_expire" => session[o] = "expired"
    /\ motif[o] = "commande_abandonnee" => Closed(o)
    /\ motif[o] \in CheckoutMotifs => o \notin url /\ request[o] = "done"

\* At most one request is about to mail an order, and only before any mail.
EmailInv ==
  /\ \A o \in Orders :
       /\ emails[o] <= 1
       /\ emails[o] = 1 => o \in paymentIntent
       /\ o \in paymentIntent => status[o] \notin {"absent", "paiement_en_attente"}
  /\ \A h \in Handlers :
       handler[h].at = "notifying" =>
         /\ handler[h].event \in paymentIntent
         /\ emails[handler[h].event] = 0
  /\ \A g, h \in Handlers :
       /\ handler[g].at = "notifying" /\ handler[h].at = "notifying"
       /\ handler[g].event = handler[h].event
       => g = h

CheckoutInv ==
  /\ TypeOK
  /\ ReleasedExactlyWhenCancelled
  /\ RequestInv
  /\ ConfirmedInv
  /\ CleanerInv
  /\ HandlerInv
  /\ RowInv
  /\ MotifInv
  /\ EmailInv

LEMMA CheckoutInitInv == Init => CheckoutInv
  BY CheckoutAssumption
     DEF Init, CheckoutInv, TypeOK, ReleasedExactlyWhenCancelled, RequestInv,
         ConfirmedInv, CleanerInv, HandlerInv, RowInv, MotifInv, EmailInv,
         Claims!ClaimsInit, Claims!ClaimsTypeOK, Claims!Idle, Claims!Row,
         Claims!RowStatus, Claims!HandlerState, Claims!HandlerStep, Resting,
         CleanerState, CleanerStep, SessionState, RequestStep, OrderStatuses,
         IsEligibleOrderStatus, Motifs, CheckoutMotifs

------------------------------------------------------------------------------
(* Facts about the steps, used by the proofs of several actions *)

LEMMA FaultCounted ==
  ASSUME TypeOK, Claims!Fault
  PROVE  faults' \in 0..MaxFaults
  BY CheckoutAssumption DEF TypeOK, Claims!ClaimsTypeOK, Claims!Fault

\* What has been emitted and dealt with stays so: sessions end once, nothing
\* takes back a confirmation or a reconciliation, and an order never waits
\* for its payment again.
LEMMA SettledStays ==
  ASSUME CheckoutInv,
         UNCHANGED <<handler, row>>,
         confirmedAt \subseteq confirmedAt',
         \A o \in Orders :
           /\ Emitted(o) => session'[o] = session[o]
           /\ reconciliations[o] \subseteq reconciliations'[o]
           /\ status'[o] = "paiement_en_attente"
                => status[o] \in {"absent", "paiement_en_attente"}
  PROVE  HandlerInv' /\ RowInv'
<1>1. \A o \in Orders : Emitted(o) => status[o] # "absent"
  BY DEF CheckoutInv, RequestInv, Emitted
<1>2. \A o \in Orders : Emitted(o) => Emitted(o)' /\ (Settled(o) => Settled(o)')
  BY <1>1 DEF Emitted, Settled
<1> QED
  BY <1>2 DEF CheckoutInv, HandlerInv, RowInv

\* What releaseOrderReservation does at most: the stock of one order goes back,
\* once, with the reason given, and a reconciliation may be added.
ReleaseEffect(o, reason, releasable) ==
  /\ UNCHANGED <<confirmedAt, stripeId, paymentIntent>>
  /\ status' \in [Orders -> OrderStatuses \cup {"absent"}]
  /\ released' \subseteq Orders
  /\ restores' \in [Orders -> Nat]
  /\ motif' \in [Orders -> Motifs]
  /\ reconciliations' \in [Orders -> SUBSET Operations]
  /\ ReleasedExactlyWhenCancelled'
  /\ \A p \in Orders : reconciliations[p] \subseteq reconciliations'[p]
  /\ \A p \in Orders :
       \/ status'[p] = status[p] /\ motif'[p] = motif[p]
       \/ /\ p = o
          /\ status[p] \in releasable
          /\ status'[p] = "annulee"
          /\ motif'[p] = reason
  /\ status'[o] \notin releasable

LEMMA ReleaseFacts ==
  ASSUME TypeOK, ReleasedExactlyWhenCancelled,
         NEW o \in Orders, NEW reason \in Motifs,
         NEW releasable \in SUBSET CancellableStockReleaseStatuses,
         NEW ops \in SUBSET Operations,
         ReleaseOrderReservation(o, reason, releasable, ops)
  PROVE  ReleaseEffect(o, reason, releasable)
<1> USE DEF TypeOK, ReleaseOrderReservation, ReleaseEffect, Record,
            OrderStatuses
<1>1. CASE status[o] \in releasable
  <2>1. /\ o \notin released
        /\ status[o] # "annulee"
        /\ restores[o] = 0
    BY <1>1 DEF ReleasedExactlyWhenCancelled, CancellableStockReleaseStatuses
  <2>2. /\ released' = released \cup {o}
        /\ restores' = [restores EXCEPT ![o] = @ + 1]
        /\ status' = [status EXCEPT ![o] = "annulee"]
        /\ motif' = [motif EXCEPT ![o] = reason]
        /\ reconciliations' = [reconciliations EXCEPT ![o] = @ \cup ops]
    BY <1>1, <2>1
  <2>3. ReleasedExactlyWhenCancelled'
    BY <2>1, <2>2 DEF ReleasedExactlyWhenCancelled
  <2> QED
    BY <1>1, <2>2, <2>3 DEF CancellableStockReleaseStatuses
<1>2. CASE status[o] \notin releasable
  <2>1. /\ UNCHANGED <<status, released, restores, motif>>
        /\ \/ reconciliations' = [reconciliations EXCEPT ![o] = @ \cup ops]
           \/ reconciliations' = reconciliations
    BY <1>2
  <2> QED
    BY <1>2, <2>1 DEF ReleasedExactlyWhenCancelled
<1> QED
  BY <1>1, <1>2

\* Sessions end once, and those read as expired by mistake stay complete.
LEMMA ClosedStays ==
  ASSUME misread \subseteq misread',
         \A o \in Orders : session'[o] = session[o] \/ session[o] \in {"none", "open"}
  PROVE  \A o \in Orders : Closed(o) => Closed(o)'
  OBVIOUS

\* The first call of the gateway only reads.
LEMMA RetrieveFacts ==
  ASSUME TypeOK, NEW o \in Orders, NEW answer, RetrieveCheckoutSession(o, answer)
  PROVE  /\ faults' \in 0..MaxFaults
         /\ answer \in Neutralised => session[o] = "expired"
         /\ answer = "open" => session[o] = "open"
<1>1. faults' \in 0..MaxFaults
  BY FaultCounted DEF TypeOK, Claims!ClaimsTypeOK, RetrieveCheckoutSession
<1> QED
  BY <1>1 DEF TypeOK, RetrieveCheckoutSession, SessionState, Neutralised

\* Expiring a session at Stripe closes at most that one, and an answer that
\* counts as neutralised leaves it closed.
LEMMA ExpireFacts ==
  ASSUME TypeOK, NEW o \in Orders, NEW answer, ExpireCheckoutSession(o, answer)
  PROVE  /\ session' \in [Orders -> SessionState]
         /\ faults' \in 0..MaxFaults
         /\ misread \subseteq misread' /\ misread' \subseteq Orders
         /\ \A p \in Orders :
              \/ session'[p] = session[p]
              \/ p = o /\ session[p] = "open" /\ session'[p] = "expired"
         /\ answer \in Neutralised /\ session[o] # "none" => Closed(o)'
<1>1. faults' \in 0..MaxFaults
  BY FaultCounted DEF TypeOK, Claims!ClaimsTypeOK, ExpireCheckoutSession
<1>2. /\ session' \in [Orders -> SessionState]
      /\ misread \subseteq misread' /\ misread' \subseteq Orders
      /\ \A p \in Orders :
           \/ session'[p] = session[p]
           \/ p = o /\ session[p] = "open" /\ session'[p] = "expired"
  BY DEF TypeOK, ExpireCheckoutSession, SessionState
<1>3. ASSUME answer \in Neutralised, session[o] # "none"
      PROVE  Closed(o)'
  <2>1. CASE session'[o] = "expired"
    BY <2>1
  <2>2. CASE session'[o] # "expired"
    <3>1. answer = "already_expired" /\ session' = session /\ session[o] # "open"
      BY <1>3, <2>2 DEF TypeOK, ExpireCheckoutSession, Neutralised
    <3>2. IsComplete(o) /\ IsComplete(o)'
      BY <1>3, <2>2, <3>1 DEF TypeOK, SessionState
    <3> QED
      BY <3>1, <3>2 DEF ExpireCheckoutSession
  <2> QED
    BY <2>1, <2>2
<1> QED
  BY <1>1, <1>2, <1>3

\* A webhook request that fails or is done leaves the others as they are.
LEMMA HandlerStops ==
  ASSUME CheckoutInv, NEW h \in Handlers, handler[h].at # "idle",
         \/ handler' = [handler EXCEPT ![h] = Claims!Idle]
         \/ handler' = [handler EXCEPT ![h].at = "failing"],
         UNCHANGED <<orderVars, outsideVars>>
  PROVE  /\ handler' \in [Handlers -> Claims!HandlerState]
         /\ HandlerInv'
         /\ EmailInv'
<1> USE DEF CheckoutInv, TypeOK, Claims!ClaimsTypeOK
<1>1. handler' \in [Handlers -> Claims!HandlerState]
  <2>1. CASE handler' = [handler EXCEPT ![h] = Claims!Idle]
    BY <2>1 DEF Claims!HandlerState, Claims!HandlerStep, Claims!Idle
  <2>2. CASE handler' = [handler EXCEPT ![h].at = "failing"]
    BY <2>2 DEF Claims!HandlerState, Claims!HandlerStep
  <2> QED
    BY <2>1, <2>2
<1>2. \A g \in Handlers :
        \/ handler'[g] = handler[g]
        \/ /\ handler'[g].at \in {"idle", "failing"}
           /\ handler'[g].at = "failing" =>
                handler[g].at # "idle" /\ handler'[g].event = handler[g].event
  BY DEF Claims!HandlerState, Claims!Idle
<1>3. \A o \in Orders : Emitted(o)' = Emitted(o) /\ Settled(o)' = Settled(o)
  BY DEF Emitted, Settled, orderVars, outsideVars
<1>4. HandlerInv'
  BY <1>2, <1>3 DEF HandlerInv
<1>5. EmailInv'
  BY <1>2 DEF EmailInv, orderVars, outsideVars
<1> QED
  BY <1>1, <1>4, <1>5

\* A webhook request that goes on keeps its event, and so do the others.
LEMMA HandlerAdvances ==
  ASSUME TypeOK, NEW h \in Handlers, NEW step \in Claims!HandlerStep,
         handler' = [handler EXCEPT ![h].at = step]
  PROVE  /\ handler' \in [Handlers -> Claims!HandlerState]
         /\ \A g \in Handlers :
              /\ handler'[g].event = handler[g].event
              /\ handler'[g].at = IF g = h THEN step ELSE handler[g].at
  BY DEF TypeOK, Claims!ClaimsTypeOK, Claims!HandlerState, Claims!HandlerStep

------------------------------------------------------------------------------
(* The request that creates an order *)

LEMMA CreateDirectInv ==
  ASSUME CheckoutInv, NEW o \in Orders, CreateDirect(o)
  PROVE  CheckoutInv'
<1> USE DEF CreateDirect, CheckoutInv, claimVars, outsideVars
<1>1. TypeOK'
  BY DEF TypeOK, OrderStatuses, RequestStep, Claims!ClaimsTypeOK
<1>2. ReleasedExactlyWhenCancelled'
  BY DEF TypeOK, ReleasedExactlyWhenCancelled
<1>3. RequestInv'
  BY DEF TypeOK, RequestInv
<1>4. ConfirmedInv'
  BY DEF TypeOK, ConfirmedInv
<1>5. HandlerInv' /\ RowInv'
  BY SettledStays DEF TypeOK
<1>6. MotifInv'
  BY DEF TypeOK, MotifInv
<1>7. EmailInv'
  BY DEF TypeOK, EmailInv
<1>8. CleanerInv'
  BY DEF CleanerInv
<1> QED
  BY <1>1, <1>2, <1>3, <1>4, <1>5, <1>6, <1>7, <1>8

LEMMA PlaceCheckoutInv ==
  ASSUME CheckoutInv, NEW o \in Orders, PlaceCheckout(o)
  PROVE  CheckoutInv'
<1> USE DEF PlaceCheckout, CheckoutInv, claimVars, outsideVars
<1>1. TypeOK'
  BY DEF TypeOK, OrderStatuses, RequestStep, Claims!ClaimsTypeOK
<1>2. ReleasedExactlyWhenCancelled'
  BY DEF TypeOK, ReleasedExactlyWhenCancelled
<1>3. RequestInv'
  BY DEF TypeOK, RequestInv
<1>4. ConfirmedInv'
  BY DEF TypeOK, ConfirmedInv, IsEligibleOrderStatus
<1>5. HandlerInv' /\ RowInv'
  BY SettledStays DEF TypeOK
<1>6. MotifInv'
  BY DEF TypeOK, MotifInv, RequestInv, CheckoutMotifs
<1>7. EmailInv'
  BY DEF TypeOK, EmailInv
<1>8. CleanerInv'
  BY DEF CleanerInv
<1> QED
  BY <1>1, <1>2, <1>3, <1>4, <1>5, <1>6, <1>7, <1>8

LEMMA CreateSessionInv ==
  ASSUME CheckoutInv, NEW o \in Orders, CreateSession(o)
  PROVE  CheckoutInv'
<1> USE DEF CreateSession, CheckoutInv, orderVars
<1>1. /\ session[o] = "none" /\ status[o] # "absent"
      /\ \/ session' = session
         \/ session' = [session EXCEPT ![o] = "open"]
      /\ \E s \in {"persisting", "withoutUrl", "refused"} :
           request' = [request EXCEPT ![o] = s]
      /\ faults' = faults \/ Claims!Fault
  BY DEF RequestInv
<1>2. TypeOK'
  BY <1>1, FaultCounted DEF TypeOK, SessionState, RequestStep,
     Claims!ClaimsTypeOK
<1>3. RequestInv'
  BY <1>1 DEF TypeOK, RequestInv
<1>4. CleanerInv'
  BY <1>1 DEF TypeOK, CleanerInv
<1>5. HandlerInv' /\ RowInv'
  BY <1>1, SettledStays DEF TypeOK, Emitted
<1>6. MotifInv'
  BY <1>1 DEF TypeOK, MotifInv, RequestInv
<1>7. /\ ReleasedExactlyWhenCancelled'
      /\ ConfirmedInv'
      /\ EmailInv'
  BY DEF ReleasedExactlyWhenCancelled, ConfirmedInv, EmailInv
<1> QED
  BY <1>2, <1>3, <1>4, <1>5, <1>6, <1>7

LEMMA CancelWithoutSessionInv ==
  ASSUME CheckoutInv, NEW o \in Orders, CancelWithoutSession(o)
  PROVE  CheckoutInv'
<1> USE DEF CheckoutInv, claimVars, outsideVars
<1>1. ReleaseEffect(o,
        IF request[o] = "refused" THEN "checkout_stripe_creation_echec"
                                  ELSE "checkout_session_sans_url",
        {"paiement_en_attente"})
  BY ReleaseFacts DEF CancelWithoutSession, Motifs,
     CancellableStockReleaseStatuses, Operations
<1>2. UNCHANGED <<claimVars, outsideVars, cleaner>>
  BY DEF CancelWithoutSession
<1>3. TypeOK'
  BY <1>1, <1>2 DEF CancelWithoutSession, ReleaseEffect, TypeOK, RequestStep,
     Claims!ClaimsTypeOK
<1>4. ReleasedExactlyWhenCancelled'
  BY <1>1 DEF ReleaseEffect
<1>5. RequestInv'
  BY <1>1, <1>2 DEF CancelWithoutSession, ReleaseEffect, TypeOK, RequestInv
<1>6. ConfirmedInv'
  BY <1>1 DEF ReleaseEffect, TypeOK, ConfirmedInv, IsEligibleOrderStatus
<1>7. CleanerInv'
  BY <1>2 DEF CleanerInv
<1>8. HandlerInv' /\ RowInv'
  BY <1>1, <1>2, SettledStays DEF ReleaseEffect
<1>9. MotifInv'
  BY <1>1, <1>2 DEF CancelWithoutSession, ReleaseEffect, TypeOK, MotifInv,
     RequestInv, CheckoutMotifs
<1>10. EmailInv'
  BY <1>1, <1>2 DEF ReleaseEffect, TypeOK, EmailInv
<1> QED
  BY <1>3, <1>4, <1>5, <1>6, <1>7, <1>8, <1>9, <1>10

LEMMA PersistSessionInv ==
  ASSUME CheckoutInv, NEW o \in Orders, PersistSession(o)
  PROVE  CheckoutInv'
<1> USE DEF PersistSession, CheckoutInv, claimVars
<1>1. TypeOK'
  BY DEF TypeOK, RequestStep, Claims!ClaimsTypeOK
<1>2. RequestInv'
  BY DEF TypeOK, RequestInv
<1>3. HandlerInv' /\ RowInv'
  BY SettledStays
<1>4. MotifInv'
  BY DEF TypeOK, MotifInv, CheckoutMotifs
<1>5. /\ ReleasedExactlyWhenCancelled'
      /\ ConfirmedInv'
      /\ CleanerInv'
      /\ EmailInv'
  BY DEF ReleasedExactlyWhenCancelled, ConfirmedInv, CleanerInv, EmailInv
<1> QED
  BY <1>1, <1>2, <1>3, <1>4, <1>5

LEMMA PersistFailsInv ==
  ASSUME CheckoutInv, NEW o \in Orders, PersistFails(o)
  PROVE  CheckoutInv'
<1> USE DEF PersistFails, CheckoutInv, outsideVars
<1>1. TypeOK'
  BY FaultCounted DEF TypeOK, RequestStep, Claims!ClaimsTypeOK
<1>2. RequestInv'
  BY DEF TypeOK, RequestInv
<1>3. HandlerInv' /\ RowInv'
  BY SettledStays
<1>4. MotifInv'
  BY DEF TypeOK, MotifInv
<1>5. /\ ReleasedExactlyWhenCancelled'
      /\ ConfirmedInv'
      /\ CleanerInv'
      /\ EmailInv'
  BY DEF ReleasedExactlyWhenCancelled, ConfirmedInv, CleanerInv, EmailInv
<1> QED
  BY <1>1, <1>2, <1>3, <1>4, <1>5

LEMMA RetrieveUnpersistedInv ==
  ASSUME CheckoutInv, NEW o \in Orders, RetrieveUnpersisted(o)
  PROVE  CheckoutInv'
<1> USE DEF CheckoutInv, orderVars, outsideVars
<1>1. /\ request[o] = "unpersisted"
      /\ faults' \in 0..MaxFaults
      /\ \E s \in {"expiring", "neutralised", "unneutralised"} :
           request' = [request EXCEPT ![o] = s]
      /\ UNCHANGED <<orderVars, row, handler, outsideVars, cleaner>>
  BY RetrieveFacts DEF RetrieveUnpersisted, UnpersistedGoesOn
<1>2. TypeOK'
  BY <1>1 DEF TypeOK, RequestStep, Claims!ClaimsTypeOK
<1>3. RequestInv'
  BY <1>1 DEF TypeOK, RequestInv
<1>4. HandlerInv' /\ RowInv'
  BY <1>1, SettledStays
<1>5. MotifInv'
  BY <1>1 DEF TypeOK, MotifInv
<1>6. /\ ReleasedExactlyWhenCancelled'
      /\ ConfirmedInv'
      /\ CleanerInv'
      /\ EmailInv'
  BY <1>1 DEF ReleasedExactlyWhenCancelled, ConfirmedInv, CleanerInv, EmailInv
<1> QED
  BY <1>2, <1>3, <1>4, <1>5, <1>6

LEMMA ExpireUnpersistedInv ==
  ASSUME CheckoutInv, NEW o \in Orders, ExpireUnpersisted(o)
  PROVE  CheckoutInv'
<1> USE DEF CheckoutInv, orderVars
<1>1. /\ session' \in [Orders -> SessionState]
      /\ faults' \in 0..MaxFaults
      /\ misread \subseteq misread' /\ misread' \subseteq Orders
      /\ \A p \in Orders :
           \/ session'[p] = session[p]
           \/ p = o /\ session[p] = "open" /\ session'[p] = "expired"
  BY ExpireFacts DEF ExpireUnpersisted
<1>2. /\ request[o] = "expiring"
      /\ \E s \in {"expiring", "neutralised", "unneutralised"} :
           request' = [request EXCEPT ![o] = s]
      /\ UNCHANGED <<orderVars, row, handler, url, old, emails, cleaner>>
  BY DEF ExpireUnpersisted, UnpersistedGoesOn
<1>3. TypeOK'
  BY <1>1, <1>2 DEF TypeOK, RequestStep, Claims!ClaimsTypeOK
<1>4. ReleasedExactlyWhenCancelled'
  BY <1>2 DEF ReleasedExactlyWhenCancelled
<1>5. RequestInv'
  BY <1>1, <1>2 DEF TypeOK, RequestInv
<1>6. ConfirmedInv'
  BY <1>2 DEF ConfirmedInv
<1>7. \A p \in Orders : Closed(p) => Closed(p)'
  BY <1>1, ClosedStays
<1>8. CleanerInv'
  BY <1>1, <1>2, <1>7 DEF CleanerInv
<1>9. HandlerInv' /\ RowInv'
  BY <1>1, <1>2, SettledStays DEF Emitted
<1>10. MotifInv'
  BY <1>1, <1>2, <1>7 DEF TypeOK, MotifInv, RequestInv
<1>11. EmailInv'
  BY <1>2 DEF EmailInv
<1> QED
  BY <1>3, <1>4, <1>5, <1>6, <1>8, <1>9, <1>10, <1>11

LEMMA CancelUnpersistedInv ==
  ASSUME CheckoutInv, NEW o \in Orders, CancelUnpersisted(o)
  PROVE  CheckoutInv'
<1> USE DEF CheckoutInv, claimVars, outsideVars
<1>1. ReleaseEffect(o, "checkout_stripe_id_update_echec", {"paiement_en_attente"})
  BY ReleaseFacts DEF CancelUnpersisted, Motifs,
     CancellableStockReleaseStatuses, Operations
<1>2. UNCHANGED <<claimVars, outsideVars, cleaner>>
  BY DEF CancelUnpersisted
<1>3. TypeOK'
  BY <1>1, <1>2 DEF CancelUnpersisted, ReleaseEffect, TypeOK, RequestStep,
     Claims!ClaimsTypeOK
<1>4. ReleasedExactlyWhenCancelled'
  BY <1>1 DEF ReleaseEffect
<1>5. RequestInv'
  BY <1>1, <1>2 DEF CancelUnpersisted, ReleaseEffect, TypeOK, RequestInv
<1>6. ConfirmedInv'
  BY <1>1 DEF ReleaseEffect, TypeOK, ConfirmedInv, IsEligibleOrderStatus
<1>7. CleanerInv'
  BY <1>2 DEF CleanerInv
<1>8. HandlerInv' /\ RowInv'
  BY <1>1, <1>2, SettledStays DEF ReleaseEffect
<1>9. MotifInv'
  BY <1>1, <1>2 DEF CancelUnpersisted, ReleaseEffect, TypeOK, MotifInv,
     RequestInv, CheckoutMotifs
<1>10. EmailInv'
  BY <1>1, <1>2 DEF ReleaseEffect, TypeOK, EmailInv
<1> QED
  BY <1>3, <1>4, <1>5, <1>6, <1>7, <1>8, <1>9, <1>10

LEMMA AbandonRequestInv ==
  ASSUME CheckoutInv, NEW o \in Orders, AbandonRequest(o)
  PROVE  CheckoutInv'
<1> USE DEF AbandonRequest, CheckoutInv, orderVars, outsideVars
<1>1. TypeOK'
  BY FaultCounted DEF TypeOK, RequestStep, Claims!ClaimsTypeOK
<1>2. RequestInv'
  BY DEF TypeOK, RequestInv
<1>3. HandlerInv' /\ RowInv'
  BY SettledStays
<1>4. MotifInv'
  BY DEF TypeOK, MotifInv
<1>5. /\ ReleasedExactlyWhenCancelled'
      /\ ConfirmedInv'
      /\ CleanerInv'
      /\ EmailInv'
  BY DEF ReleasedExactlyWhenCancelled, ConfirmedInv, CleanerInv, EmailInv
<1> QED
  BY <1>1, <1>2, <1>3, <1>4, <1>5

------------------------------------------------------------------------------
(* Stripe, the customer and the clock *)

LEMMA PayInv ==
  ASSUME CheckoutInv, NEW o \in Orders, Pay(o)
  PROVE  CheckoutInv'
<1> USE DEF Pay, CheckoutInv, orderVars, claimVars
<1>1. TypeOK'
  BY DEF TypeOK, SessionState, Claims!ClaimsTypeOK
<1>2. RequestInv'
  BY DEF TypeOK, RequestInv
<1>3. CleanerInv'
  BY DEF TypeOK, CleanerInv
<1>4. HandlerInv' /\ RowInv'
  BY SettledStays DEF TypeOK, Emitted
<1>5. MotifInv'
  BY DEF TypeOK, MotifInv
<1>6. /\ ReleasedExactlyWhenCancelled'
      /\ ConfirmedInv'
      /\ EmailInv'
  BY DEF ReleasedExactlyWhenCancelled, ConfirmedInv, EmailInv
<1> QED
  BY <1>1, <1>2, <1>3, <1>4, <1>5, <1>6

LEMMA SessionExpiresInv ==
  ASSUME CheckoutInv, NEW o \in Orders, SessionExpires(o)
  PROVE  CheckoutInv'
<1> USE DEF SessionExpires, CheckoutInv, orderVars, claimVars
<1>1. TypeOK'
  BY DEF TypeOK, SessionState, Claims!ClaimsTypeOK
<1>2. RequestInv'
  BY DEF TypeOK, RequestInv
<1>3. CleanerInv'
  BY DEF TypeOK, CleanerInv
<1>4. HandlerInv' /\ RowInv'
  BY SettledStays DEF TypeOK, Emitted
<1>5. MotifInv'
  BY DEF TypeOK, MotifInv
<1>6. /\ ReleasedExactlyWhenCancelled'
      /\ ConfirmedInv'
      /\ EmailInv'
  BY DEF ReleasedExactlyWhenCancelled, ConfirmedInv, EmailInv
<1> QED
  BY <1>1, <1>2, <1>3, <1>4, <1>5, <1>6

LEMMA AgeInv ==
  ASSUME CheckoutInv, NEW o \in Orders, Age(o)
  PROVE  CheckoutInv'
<1> USE DEF Age, CheckoutInv, orderVars, claimVars
<1>1. TypeOK'
  BY DEF TypeOK, Claims!ClaimsTypeOK
<1>2. HandlerInv' /\ RowInv'
  BY SettledStays
<1>3. /\ ReleasedExactlyWhenCancelled'
      /\ RequestInv'
      /\ ConfirmedInv'
      /\ CleanerInv'
      /\ MotifInv'
      /\ EmailInv'
  BY DEF ReleasedExactlyWhenCancelled, RequestInv, ConfirmedInv, CleanerInv,
     MotifInv, EmailInv
<1> QED
  BY <1>1, <1>2, <1>3

------------------------------------------------------------------------------
(* Webhooks *)

LEMMA ClaimEventInv ==
  ASSUME CheckoutInv, NEW h \in Handlers, NEW o \in Orders, ClaimEvent(h, o)
  PROVE  CheckoutInv'
<1> USE DEF ClaimEvent, Claims!Claim, Claims!Running, CheckoutInv, orderVars,
            outsideVars
<1>1. TypeOK'
  BY DEF TypeOK, Claims!ClaimsTypeOK, Claims!Row, Claims!RowStatus,
     Claims!HandlerState, Claims!HandlerStep
<1>2. HandlerInv'
  BY DEF TypeOK, Claims!ClaimsTypeOK, HandlerInv, Emitted, Settled
<1>3. RowInv'
  BY DEF TypeOK, Claims!ClaimsTypeOK, Claims!Claimable, RowInv, Emitted,
     Settled
<1>4. EmailInv'
  BY DEF TypeOK, Claims!ClaimsTypeOK, EmailInv
<1>5. /\ ReleasedExactlyWhenCancelled'
      /\ RequestInv'
      /\ ConfirmedInv'
      /\ CleanerInv'
      /\ MotifInv'
  BY DEF ReleasedExactlyWhenCancelled, RequestInv, ConfirmedInv, CleanerInv,
     MotifInv
<1> QED
  BY <1>1, <1>2, <1>3, <1>4, <1>5

LEMMA ConfirmPaidCommandeInv ==
  ASSUME CheckoutInv, NEW h \in Handlers, ConfirmPaidCommande(h)
  PROVE  CheckoutInv'
<1> USE DEF CheckoutInv
<1>0. PICK o \in Orders : handler[h].event = o
  BY DEF ConfirmPaidCommande, HandlerInv
<1>1. /\ Emitted(o)
      /\ handler[h].at = "claimed"
      /\ session[o] \in {"paid", "unpaid"}
      /\ UNCHANGED <<released, restores, motif, outsideVars, request, cleaner,
                     row, faults>>
  BY <1>0 DEF ConfirmPaidCommande, Claims!Handle, HandlerInv
<1>2. \/ /\ handler' = [handler EXCEPT ![h].at = "handled"]
         /\ UNCHANGED <<status, confirmedAt, stripeId, paymentIntent>>
         /\ \/ Anomaly(o) # {} /\ Record(o, Anomaly(o))
            \/ Anomaly(o) = {} /\ UNCHANGED reconciliations
         /\ Anomaly(o) = {} => status[o] # "paiement_en_attente"
      \/ /\ Anomaly(o) = {}
         /\ status[o] = "paiement_en_attente"
         /\ handler' = [handler EXCEPT ![h].at = "notifying"]
         /\ status' = [status EXCEPT ![o] = "nouvelle"]
         /\ confirmedAt' = confirmedAt \cup {o}
         /\ stripeId' = stripeId \cup {o}
         /\ paymentIntent' = paymentIntent \cup {o}
         /\ UNCHANGED reconciliations
  BY <1>0 DEF ConfirmPaidCommande, Claims!Handle
<1>3. /\ Anomaly(o) \subseteq Operations
      /\ session[o] = "unpaid" => "review_checkout_payment_mismatch" \in Anomaly(o)
      /\ session[o] = "paid" /\ status[o] = "annulee" =>
           "review_paid_cancelled_checkout" \in Anomaly(o)
  BY DEF Anomaly, Operations
<1>4. /\ confirmedAt \subseteq confirmedAt' /\ confirmedAt' \subseteq Orders
      /\ stripeId' \subseteq Orders
      /\ paymentIntent \subseteq paymentIntent' /\ paymentIntent' \subseteq Orders
      /\ status' \in [Orders -> OrderStatuses \cup {"absent"}]
      /\ reconciliations' \in [Orders -> SUBSET Operations]
      /\ \A p \in Orders :
           /\ reconciliations[p] \subseteq reconciliations'[p]
           /\ \/ status'[p] = status[p]
              \/ /\ p = o
                 /\ status[p] = "paiement_en_attente" /\ status'[p] = "nouvelle"
                 /\ p \in confirmedAt'
  BY <1>1, <1>2, <1>3 DEF TypeOK, Record, OrderStatuses
<1>5. \A p \in Orders :
        /\ Emitted(p)' = Emitted(p)
        /\ Settled(p) => Settled(p)'
  BY <1>1, <1>4 DEF Emitted, Settled, outsideVars
<1>6. Settled(o)'
  <2>1. session'[o] = session[o]
    BY <1>1 DEF outsideVars
  <2>2. CASE Anomaly(o) # {}
    <3>1. reconciliations' = [reconciliations EXCEPT ![o] = @ \cup Anomaly(o)]
      BY <1>2, <2>2 DEF Record
    <3>2. session[o] = "paid" => status[o] = "annulee" \/ o \in confirmedAt
      BY <1>1, <2>2 DEF TypeOK, Anomaly, OrderStatuses, ConfirmedInv,
         RequestInv, IsEligibleOrderStatus
    <3> QED
      BY <1>1, <1>3, <1>4, <2>1, <3>1, <3>2 DEF TypeOK, Settled
  <2>3. CASE Anomaly(o) = {}
    <3>1. session[o] = "paid" /\ status[o] \in {"paiement_en_attente", "nouvelle"}
      BY <1>1, <2>3 DEF Anomaly
    <3>2. o \in confirmedAt'
      BY <1>1, <1>2, <1>4, <2>3, <3>1 DEF ConfirmedInv, IsEligibleOrderStatus
    <3> QED
      BY <2>1, <3>1, <3>2 DEF Settled
  <2> QED
    BY <2>2, <2>3
<1>7. /\ handler' \in [Handlers -> Claims!HandlerState]
      /\ \A g \in Handlers :
           /\ handler'[g].event = handler[g].event
           /\ handler'[g].at = handler[g].at \/ g = h
  BY <1>2, HandlerAdvances DEF Claims!HandlerStep
<1>8. TypeOK'
  BY <1>1, <1>4, <1>7 DEF TypeOK, Claims!ClaimsTypeOK, outsideVars
<1>9. ReleasedExactlyWhenCancelled'
  BY <1>1, <1>4 DEF ReleasedExactlyWhenCancelled
<1>10. RequestInv'
  BY <1>1, <1>4 DEF RequestInv, outsideVars
<1>11. ConfirmedInv'
  BY <1>4 DEF ConfirmedInv
<1>12. CleanerInv'
  BY <1>1 DEF CleanerInv, outsideVars
<1>13. HandlerInv'
  BY <1>0, <1>1, <1>5, <1>6, <1>7 DEF HandlerInv
<1>14. RowInv'
  BY <1>1, <1>5 DEF RowInv
<1>15. MotifInv'
  BY <1>1, <1>4 DEF MotifInv, outsideVars
<1>16. EmailInv'
  <2>1. CASE handler' = [handler EXCEPT ![h].at = "handled"]
    BY <1>1, <1>2, <2>1 DEF EmailInv, TypeOK, Claims!ClaimsTypeOK,
       Claims!HandlerState, outsideVars
  <2>2. CASE handler' = [handler EXCEPT ![h].at = "notifying"]
    <3>1. /\ status[o] = "paiement_en_attente"
          /\ paymentIntent' = paymentIntent \cup {o}
          /\ status' = [status EXCEPT ![o] = "nouvelle"]
      BY <1>2, <2>2 DEF TypeOK, Claims!ClaimsTypeOK, Claims!HandlerState
    <3>2. emails[o] = 0 /\ emails' = emails
      BY <1>1, <3>1 DEF EmailInv, TypeOK, outsideVars
    <3>3. \A g \in Handlers :
            handler'[g].at = "notifying" =>
              g = h \/ (handler[g].at = "notifying" /\ handler[g].event # o)
      BY <1>7, <3>1 DEF EmailInv
    <3> QED
      BY <1>0, <1>1, <1>4, <1>7, <3>1, <3>2, <3>3 DEF EmailInv, TypeOK
  <2> QED
    BY <1>2, <2>1, <2>2
<1> QED
  BY <1>8, <1>9, <1>10, <1>11, <1>12, <1>13, <1>14, <1>15, <1>16

LEMMA ExpirePendingCommandeInv ==
  ASSUME CheckoutInv, NEW h \in Handlers, ExpirePendingCommande(h)
  PROVE  CheckoutInv'
<1> USE DEF CheckoutInv, claimVars, outsideVars
<1>1. ReleaseEffect(handler[h].event, "checkout_expire", {"paiement_en_attente"})
  BY ReleaseFacts DEF ExpirePendingCommande, HandlerInv, Motifs,
     CancellableStockReleaseStatuses, Operations
<1>2. /\ handler[h].at = "claimed" /\ session[handler[h].event] = "expired"
      /\ handler[h].event \in Orders
      /\ handler' = [handler EXCEPT ![h].at = "handled"]
      /\ UNCHANGED <<row, faults, outsideVars, request, cleaner>>
  BY DEF ExpirePendingCommande, Claims!Handle, HandlerInv
<1>3. /\ \A p \in Orders : Emitted(p)' = Emitted(p) /\ (Settled(p) => Settled(p)')
      /\ Settled(handler[h].event)'
  BY <1>1, <1>2 DEF ReleaseEffect, TypeOK, Emitted, Settled
<1>4. TypeOK'
  BY <1>1, <1>2 DEF ReleaseEffect, TypeOK, Claims!ClaimsTypeOK, Claims!Row,
     Claims!RowStatus, Claims!HandlerState, Claims!HandlerStep
<1>5. ReleasedExactlyWhenCancelled'
  BY <1>1 DEF ReleaseEffect
<1>6. RequestInv'
  BY <1>1, <1>2 DEF ReleaseEffect, TypeOK, RequestInv
<1>7. ConfirmedInv'
  BY <1>1 DEF ReleaseEffect, TypeOK, ConfirmedInv, IsEligibleOrderStatus
<1>8. CleanerInv'
  BY <1>2 DEF CleanerInv
<1>9. HandlerInv'
  BY <1>1, <1>2, <1>3 DEF TypeOK, Claims!ClaimsTypeOK, HandlerInv
<1>10. RowInv'
  BY <1>2, <1>3 DEF RowInv
<1>11. MotifInv'
  BY <1>1, <1>2 DEF ReleaseEffect, TypeOK, MotifInv, CheckoutMotifs
<1>12. EmailInv'
  BY <1>1, <1>2 DEF ReleaseEffect, TypeOK, Claims!ClaimsTypeOK, EmailInv
<1> QED
  BY <1>4, <1>5, <1>6, <1>7, <1>8, <1>9, <1>10, <1>11, <1>12

LEMMA SendOrderConfirmationInv ==
  ASSUME CheckoutInv, NEW h \in Handlers, SendOrderConfirmation(h)
  PROVE  CheckoutInv'
<1> USE DEF CheckoutInv, orderVars
<1>1. /\ handler[h].at = "notifying" /\ handler[h].event \in Orders
      /\ handler' = [handler EXCEPT ![h].at = "handled"]
      /\ \/ emails' = [emails EXCEPT ![handler[h].event] = @ + 1]
         \/ emails' = emails
      /\ UNCHANGED <<orderVars, row, faults, session, url, old, misread, request,
                     cleaner>>
  BY DEF SendOrderConfirmation, Claims!Notified, HandlerInv
<1>2. /\ handler' \in [Handlers -> Claims!HandlerState]
      /\ \A g \in Handlers :
           /\ handler'[g].event = handler[g].event
           /\ handler'[g].at = IF g = h THEN "handled" ELSE handler[g].at
  BY <1>1, HandlerAdvances DEF Claims!HandlerStep
<1>3. TypeOK'
  BY <1>1, <1>2 DEF TypeOK, Claims!ClaimsTypeOK
<1>4. ReleasedExactlyWhenCancelled'
  BY <1>1 DEF ReleasedExactlyWhenCancelled
<1>5. RequestInv'
  BY <1>1 DEF RequestInv
<1>6. ConfirmedInv'
  BY <1>1 DEF ConfirmedInv
<1>7. CleanerInv'
  BY <1>1 DEF CleanerInv
<1>8. HandlerInv'
  BY <1>1, <1>2 DEF HandlerInv, Emitted, Settled
<1>9. RowInv'
  BY <1>1 DEF RowInv, Emitted, Settled
<1>10. MotifInv'
  BY <1>1 DEF MotifInv
<1>11. EmailInv'
  BY <1>1, <1>2 DEF TypeOK, EmailInv
<1> QED
  BY <1>3, <1>4, <1>5, <1>6, <1>7, <1>8, <1>9, <1>10, <1>11

LEMMA SettleEventInv ==
  ASSUME CheckoutInv, NEW h \in Handlers, SettleEvent(h)
  PROVE  CheckoutInv'
<1> USE DEF CheckoutInv
<1>1. /\ handler[h].at # "idle" /\ handler[h].event \in Orders
      /\ handler' \in [Handlers -> Claims!HandlerState] /\ HandlerInv' /\ EmailInv'
  BY HandlerStops DEF SettleEvent, Claims!Settle, Claims!MarkProcessed,
     Claims!MarkFailed, HandlerInv
<1>2. UNCHANGED <<orderVars, outsideVars, request, cleaner, faults>>
  BY DEF SettleEvent, Claims!Settle, Claims!MarkProcessed, Claims!MarkFailed
<1>3. \/ row' = row
      \/ \E s \in {"processed", "failed"} :
           /\ row' = [row EXCEPT ![handler[h].event].status = s]
           /\ s = "processed" => handler[h].at = "handled"
  BY DEF SettleEvent, Claims!Settle, Claims!MarkProcessed, Claims!MarkFailed
<1>4. row' \in [Orders -> Claims!Row]
  <2>1. row \in [Orders -> Claims!Row]
    BY DEF TypeOK, Claims!ClaimsTypeOK
  <2>2. ASSUME NEW s \in {"processed", "failed"},
               row' = [row EXCEPT ![handler[h].event].status = s]
        PROVE  row' \in [Orders -> Claims!Row]
    BY ONLY <1>1, <2>1, <2>2 DEF Claims!Row, Claims!RowStatus
  <2> QED
    BY <1>3, <2>1, <2>2
<1>5. \A p \in Orders :
        \/ row'[p].status = row[p].status
        \/ /\ p = handler[h].event
           /\ row'[p].status = "failed" \/ handler[h].at = "handled"
  BY <1>3 DEF TypeOK, Claims!ClaimsTypeOK, Claims!Row
<1>6. TypeOK'
  BY <1>1, <1>2, <1>4 DEF TypeOK, Claims!ClaimsTypeOK, orderVars, outsideVars
<1>7. ReleasedExactlyWhenCancelled'
  BY <1>2 DEF ReleasedExactlyWhenCancelled, orderVars
<1>8. RequestInv'
  BY <1>2 DEF RequestInv, orderVars, outsideVars
<1>9. ConfirmedInv'
  BY <1>2 DEF ConfirmedInv, orderVars
<1>10. CleanerInv'
  BY <1>2 DEF CleanerInv, outsideVars
<1>11. HandlerInv'
  BY <1>1
<1>12. RowInv'
  BY <1>1, <1>2, <1>5 DEF HandlerInv, RowInv, Emitted, Settled, orderVars,
     outsideVars
<1>13. MotifInv'
  BY <1>2 DEF MotifInv, orderVars, outsideVars
<1>14. EmailInv'
  BY <1>1
<1> QED
  BY <1>6, <1>7, <1>8, <1>9, <1>10, <1>11, <1>12, <1>13, <1>14

LEMMA HandlerMishapInv ==
  ASSUME CheckoutInv, NEW h \in Handlers, HandlerMishap(h)
  PROVE  CheckoutInv'
<1> USE DEF CheckoutInv, orderVars, outsideVars
<1>1. handler' \in [Handlers -> Claims!HandlerState] /\ HandlerInv' /\ EmailInv'
  BY HandlerStops DEF HandlerMishap, Claims!Mishap, Claims!HandlingFails,
     Claims!MarkProcessedFails, Claims!Abandon, Claims!Running
<1>2. /\ faults' \in 0..MaxFaults
      /\ UNCHANGED <<orderVars, row, outsideVars, request, cleaner>>
  BY FaultCounted DEF HandlerMishap, Claims!Mishap, Claims!HandlingFails,
     Claims!MarkProcessedFails, Claims!Abandon
<1>3. TypeOK'
  BY <1>1, <1>2 DEF TypeOK, Claims!ClaimsTypeOK
<1>4. ReleasedExactlyWhenCancelled'
  BY <1>2 DEF ReleasedExactlyWhenCancelled
<1>5. RequestInv'
  BY <1>2 DEF RequestInv
<1>6. ConfirmedInv'
  BY <1>2 DEF ConfirmedInv
<1>7. CleanerInv'
  BY <1>2 DEF CleanerInv
<1>8. HandlerInv'
  BY <1>1
<1>9. RowInv'
  BY <1>2 DEF RowInv, Emitted, Settled
<1>10. MotifInv'
  BY <1>2 DEF MotifInv
<1>11. EmailInv'
  BY <1>1
<1> QED
  BY <1>3, <1>4, <1>5, <1>6, <1>7, <1>8, <1>9, <1>10, <1>11

LEMMA EventTimesOutInv ==
  ASSUME CheckoutInv, NEW o \in Orders, EventTimesOut(o)
  PROVE  CheckoutInv'
<1> USE DEF CheckoutInv, orderVars, outsideVars
<1>1. /\ row[o].status = "processing"
      /\ row' = [row EXCEPT ![o].stale = TRUE]
      /\ faults' \in 0..MaxFaults
      /\ UNCHANGED <<orderVars, outsideVars, request, handler, cleaner>>
  BY FaultCounted DEF EventTimesOut, Claims!TimeOut, TypeOK,
     Claims!ClaimsTypeOK
<1>2. TypeOK'
  BY <1>1 DEF TypeOK, Claims!ClaimsTypeOK, Claims!Row, Claims!RowStatus,
     Claims!HandlerState, Claims!HandlerStep
<1>3. ReleasedExactlyWhenCancelled'
  BY <1>1 DEF ReleasedExactlyWhenCancelled
<1>4. RequestInv'
  BY <1>1 DEF RequestInv
<1>5. ConfirmedInv'
  BY <1>1 DEF ConfirmedInv
<1>6. CleanerInv'
  BY <1>1 DEF CleanerInv
<1>7. HandlerInv'
  BY <1>1 DEF HandlerInv, Emitted, Settled
<1>8. RowInv'
  BY <1>1 DEF TypeOK, Claims!ClaimsTypeOK, RowInv, Emitted, Settled
<1>9. MotifInv'
  BY <1>1 DEF MotifInv
<1>10. EmailInv'
  BY <1>1 DEF EmailInv
<1> QED
  BY <1>2, <1>3, <1>4, <1>5, <1>6, <1>7, <1>8, <1>9, <1>10

------------------------------------------------------------------------------
(* Cleanup of abandoned orders *)

LEMMA PrepareCleanupInv ==
  ASSUME CheckoutInv, NEW c \in Cleaners, NEW o \in Orders, PrepareCleanup(c, o)
  PROVE  CheckoutInv'
<1> USE DEF PrepareCleanup, CleanerGoesTo, CheckoutInv, orderVars, claimVars,
            outsideVars
<1>1. TypeOK'
  BY DEF TypeOK, CleanerState, CleanerStep, Operations, Claims!ClaimsTypeOK
<1>2. CleanerInv'
  BY DEF TypeOK, CleanerInv, Operations
<1>3. HandlerInv' /\ RowInv'
  BY SettledStays
<1>4. /\ ReleasedExactlyWhenCancelled'
      /\ RequestInv'
      /\ ConfirmedInv'
      /\ MotifInv'
      /\ EmailInv'
  BY DEF ReleasedExactlyWhenCancelled, RequestInv, ConfirmedInv, MotifInv,
     EmailInv
<1> QED
  BY <1>1, <1>2, <1>3, <1>4

LEMMA RetrieveAbandonedInv ==
  ASSUME CheckoutInv, NEW c \in Cleaners, RetrieveAbandoned(c)
  PROVE  CheckoutInv'
<1> USE DEF CheckoutInv, orderVars, outsideVars
<1>1. /\ cleaner[c].order \in Orders
      /\ UNCHANGED <<orderVars, row, handler, outsideVars, request>>
  BY DEF RetrieveAbandoned, CleanerInv
<1>2. PICK answer \in Answers :
        /\ RetrieveCheckoutSession(cleaner[c].order, answer)
        /\ AbandonedGoesOn(c, cleaner[c].order, answer)
  BY DEF RetrieveAbandoned
<1>3. faults' \in 0..MaxFaults
  BY <1>1, <1>2, RetrieveFacts
<1>4. \E at \in {"expiring", "releasing", "recording"}, op \in Operations \cup {"none"} :
        /\ cleaner' = [cleaner EXCEPT ![c] =
                         [at |-> at, order |-> cleaner[c].order, op |-> op]]
        /\ at = "recording" => op # "none"
        /\ at = "expiring" => session[cleaner[c].order] = "open"
        /\ at = "releasing" => session[cleaner[c].order] = "expired"
  BY <1>1, <1>2, RetrieveFacts DEF AbandonedGoesOn, CleanerGoesTo, Operations
<1>5. TypeOK'
  BY <1>1, <1>3, <1>4 DEF TypeOK, CleanerState, CleanerStep, Operations,
     Claims!ClaimsTypeOK
<1>6. CleanerInv'
  BY <1>1, <1>4 DEF TypeOK, CleanerInv
<1>7. HandlerInv' /\ RowInv'
  BY <1>1, SettledStays
<1>8. /\ ReleasedExactlyWhenCancelled'
      /\ RequestInv'
      /\ ConfirmedInv'
      /\ MotifInv'
      /\ EmailInv'
  BY <1>1 DEF ReleasedExactlyWhenCancelled, RequestInv, ConfirmedInv, MotifInv, EmailInv
<1> QED
  BY <1>5, <1>6, <1>7, <1>8

LEMMA ExpireAbandonedInv ==
  ASSUME CheckoutInv, NEW c \in Cleaners, ExpireAbandoned(c)
  PROVE  CheckoutInv'
<1> USE DEF CheckoutInv, orderVars
<1>1. /\ cleaner[c].order \in Orders
      /\ session[cleaner[c].order] # "none"
      /\ UNCHANGED <<orderVars, row, handler, url, old, emails, request>>
  BY DEF ExpireAbandoned, CleanerInv
<1>2. PICK answer \in Answers :
        /\ ExpireCheckoutSession(cleaner[c].order, answer)
        /\ AbandonedGoesOn(c, cleaner[c].order, answer)
  BY DEF ExpireAbandoned
<1>3. /\ session' \in [Orders -> SessionState]
      /\ faults' \in 0..MaxFaults
      /\ misread \subseteq misread' /\ misread' \subseteq Orders
      /\ \A p \in Orders :
           \/ session'[p] = session[p]
           \/ p = cleaner[c].order /\ session[p] = "open" /\ session'[p] = "expired"
  BY <1>1, <1>2, ExpireFacts
<1>4. /\ answer # "open"
      /\ answer \in Neutralised => \E o \in Orders : o = cleaner[c].order /\ Closed(o)'
  <2>1. PICK o \in Orders : o = cleaner[c].order
    BY <1>1
  <2>2. answer # "open"
    BY <1>2 DEF ExpireCheckoutSession
  <2>3. answer \in Neutralised => Closed(o)'
    BY <1>1, <1>2, <2>1, ExpireFacts
  <2> QED
    BY <2>1, <2>2, <2>3
<1>5. \E at \in {"releasing", "recording"}, op \in Operations \cup {"none"} :
        /\ cleaner' = [cleaner EXCEPT ![c] =
                         [at |-> at, order |-> cleaner[c].order, op |-> op]]
        /\ at = "recording" => op # "none"
        /\ at = "releasing" => Closed(cleaner[c].order)'
  BY <1>2, <1>4 DEF AbandonedGoesOn, CleanerGoesTo, Operations
<1>6. TypeOK'
  BY <1>1, <1>3, <1>5 DEF TypeOK, CleanerState, CleanerStep, Operations,
     Claims!ClaimsTypeOK
<1>7. \A p \in Orders : Closed(p) => Closed(p)'
  BY <1>3, ClosedStays
<1>8. RequestInv'
  BY <1>1, <1>3 DEF TypeOK, RequestInv
<1>9. CleanerInv'
  <2>1. ASSUME NEW d \in Cleaners, d # c, cleaner'[d].at # "idle"
        PROVE  /\ cleaner'[d] = cleaner[d] /\ cleaner[d].order \in Orders
               /\ cleaner[d].at = "expiring" => session'[cleaner[d].order] # "none"
               /\ cleaner[d].at = "releasing" => Closed(cleaner[d].order)'
               /\ cleaner[d].at = "recording" => cleaner[d].op # "none"
    <3>1. cleaner'[d] = cleaner[d]
      BY <1>5, <2>1 DEF TypeOK
    <3>2. /\ cleaner[d].order \in Orders
          /\ Closed(cleaner[d].order) => Closed(cleaner[d].order)'
      BY <1>3, <2>1, <3>1 DEF CleanerInv
    <3> QED
      BY <1>3, <2>1, <3>1, <3>2 DEF CleanerInv
  <2>2. /\ cleaner'[c].order = cleaner[c].order
        /\ cleaner'[c].at \in {"releasing", "recording"}
        /\ cleaner'[c].at = "releasing" => Closed(cleaner[c].order)'
        /\ cleaner'[c].at = "recording" => cleaner'[c].op # "none"
    BY <1>5 DEF TypeOK
  <2> QED
    BY <1>1, <2>1, <2>2 DEF CleanerInv
<1>10. HandlerInv' /\ RowInv'
  BY <1>1, <1>3, SettledStays DEF Emitted
<1>11. MotifInv'
  BY <1>1, <1>3, <1>7 DEF TypeOK, MotifInv
<1>12. /\ ReleasedExactlyWhenCancelled'
       /\ ConfirmedInv'
       /\ EmailInv'
  BY <1>1 DEF ReleasedExactlyWhenCancelled, ConfirmedInv, EmailInv
<1> QED
  BY <1>6, <1>8, <1>9, <1>10, <1>11, <1>12

LEMMA ReleaseAbandonedInv ==
  ASSUME CheckoutInv, NEW c \in Cleaners, ReleaseAbandoned(c)
  PROVE  CheckoutInv'
<1> USE DEF CheckoutInv, claimVars, outsideVars
<1>1. ReleaseEffect(cleaner[c].order, "commande_abandonnee",
                  IF cleaner[c].order \in old \cap stripeId
                    THEN {"paiement_en_attente"} ELSE {})
  BY ReleaseFacts DEF ReleaseAbandoned, Motifs,
     CancellableStockReleaseStatuses, Operations, CleanerInv
<1>2. UNCHANGED <<claimVars, outsideVars, request>>
  BY DEF ReleaseAbandoned
<1>3. TypeOK'
  BY <1>1, <1>2 DEF ReleaseAbandoned, ReleaseEffect, TypeOK, CleanerState,
     CleanerStep, Resting, Claims!ClaimsTypeOK
<1>4. ReleasedExactlyWhenCancelled'
  BY <1>1 DEF ReleaseEffect
<1>5. RequestInv'
  BY <1>1, <1>2 DEF ReleaseEffect, TypeOK, RequestInv
<1>6. ConfirmedInv'
  BY <1>1 DEF ReleaseEffect, TypeOK, ConfirmedInv, IsEligibleOrderStatus
<1>7. CleanerInv'
  BY <1>1, <1>2 DEF ReleaseAbandoned, TypeOK, CleanerInv, Resting
<1>8. HandlerInv' /\ RowInv'
  BY <1>1, <1>2, SettledStays DEF ReleaseEffect
<1>9. MotifInv'
  BY <1>1, <1>2 DEF ReleaseAbandoned, ReleaseEffect, TypeOK, MotifInv,
     CleanerInv, CheckoutMotifs
<1>10. EmailInv'
  BY <1>1, <1>2 DEF ReleaseEffect, TypeOK, EmailInv
<1> QED
  BY <1>3, <1>4, <1>5, <1>6, <1>7, <1>8, <1>9, <1>10

LEMMA RecordCleanupReconciliationInv ==
  ASSUME CheckoutInv, NEW c \in Cleaners, RecordCleanupReconciliation(c)
  PROVE  CheckoutInv'
<1> USE DEF CheckoutInv, claimVars, outsideVars, RecordCleanupReconciliation
<1>1. /\ reconciliations' \in [Orders -> SUBSET Operations]
      /\ \A p \in Orders : reconciliations[p] \subseteq reconciliations'[p]
  BY DEF Record, TypeOK, CleanerState, CleanerInv, Operations
<1>2. TypeOK'
  BY <1>1 DEF TypeOK, CleanerState, CleanerStep, Operations,
     Claims!ClaimsTypeOK, Resting
<1>3. CleanerInv'
  BY DEF TypeOK, CleanerInv, Resting
<1>4. HandlerInv' /\ RowInv'
  BY <1>1, SettledStays DEF TypeOK
<1>5. /\ ReleasedExactlyWhenCancelled'
      /\ RequestInv'
      /\ ConfirmedInv'
      /\ MotifInv'
      /\ EmailInv'
  BY DEF ReleasedExactlyWhenCancelled, RequestInv, ConfirmedInv, MotifInv,
     EmailInv
<1> QED
  BY <1>2, <1>3, <1>4, <1>5

LEMMA AbandonCleanupInv ==
  ASSUME CheckoutInv, NEW c \in Cleaners, AbandonCleanup(c)
  PROVE  CheckoutInv'
<1> USE DEF AbandonCleanup, CheckoutInv, orderVars, outsideVars
<1>1. TypeOK'
  BY FaultCounted DEF TypeOK, CleanerState, CleanerStep, Operations,
     Claims!ClaimsTypeOK, Resting
<1>2. CleanerInv'
  BY DEF TypeOK, CleanerInv, Resting
<1>3. HandlerInv' /\ RowInv'
  BY SettledStays
<1>4. /\ ReleasedExactlyWhenCancelled'
      /\ RequestInv'
      /\ ConfirmedInv'
      /\ MotifInv'
      /\ EmailInv'
  BY DEF ReleasedExactlyWhenCancelled, RequestInv, ConfirmedInv, MotifInv,
     EmailInv
<1> QED
  BY <1>1, <1>2, <1>3, <1>4

------------------------------------------------------------------------------
(* Staff *)

LEMMA CancelCommandeInv ==
  ASSUME CheckoutInv, NEW o \in Orders, CancelCommande(o)
  PROVE  CheckoutInv'
<1> USE DEF CheckoutInv, claimVars, outsideVars
<1>1. ReleaseEffect(o, "annulation", CancellableStockReleaseStatuses)
  BY ReleaseFacts DEF CancelCommande, Motifs, CancellableStockReleaseStatuses,
     Operations
<1>2. UNCHANGED <<claimVars, outsideVars, request, cleaner>>
  BY DEF CancelCommande
<1>3. TypeOK'
  BY <1>1, <1>2 DEF ReleaseEffect, TypeOK, Claims!ClaimsTypeOK
<1>4. ReleasedExactlyWhenCancelled'
  BY <1>1 DEF ReleaseEffect
<1>5. RequestInv'
  BY <1>1, <1>2 DEF ReleaseEffect, TypeOK, RequestInv
<1>6. ConfirmedInv'
  BY <1>1 DEF ReleaseEffect, TypeOK, ConfirmedInv, IsEligibleOrderStatus
<1>7. CleanerInv'
  BY <1>2 DEF CleanerInv
<1>8. HandlerInv' /\ RowInv'
  BY <1>1, <1>2, SettledStays DEF ReleaseEffect
<1>9. MotifInv'
  BY <1>1, <1>2 DEF ReleaseEffect, TypeOK, MotifInv, CheckoutMotifs
<1>10. EmailInv'
  BY <1>1, <1>2 DEF ReleaseEffect, TypeOK, EmailInv
<1> QED
  BY <1>3, <1>4, <1>5, <1>6, <1>7, <1>8, <1>9, <1>10

LEMMA TransitionCommandeStatusInv ==
  ASSUME CheckoutInv, NEW o \in Orders,
         NEW s \in StaffStatuses, TransitionCommandeStatus(o, s)
  PROVE  CheckoutInv'
<1> USE DEF CheckoutInv, claimVars, outsideVars
<1>1. /\ s \in {"nouvelle", "preparee", "traitee"}
      /\ status[o] \notin {"absent", "annulee"}
      /\ status' = [status EXCEPT ![o] = s]
      /\ confirmedAt' \in {confirmedAt, confirmedAt \cup {o}}
      /\ UNCHANGED <<stripeId, paymentIntent, released, restores, motif,
                     reconciliations, claimVars, outsideVars, request, cleaner>>
  BY DEF TransitionCommandeStatus, StaffStatuses, CanTransition, Transitions,
     OrderStatuses
<1>2. o \in confirmedAt'
  BY DEF TransitionCommandeStatus, StaffStatuses, IsEligibleOrderStatus
<1>3. TypeOK'
  BY <1>1 DEF TypeOK, OrderStatuses, Claims!ClaimsTypeOK
<1>4. ReleasedExactlyWhenCancelled'
  BY <1>1 DEF TypeOK, ReleasedExactlyWhenCancelled
<1>5. RequestInv'
  BY <1>1 DEF TypeOK, RequestInv
<1>6. ConfirmedInv'
  BY <1>1, <1>2 DEF TypeOK, ConfirmedInv
<1>7. CleanerInv'
  BY <1>1 DEF CleanerInv
<1>8. HandlerInv' /\ RowInv'
  BY <1>1, SettledStays DEF TypeOK
<1>9. MotifInv'
  BY <1>1 DEF TypeOK, MotifInv
<1>10. EmailInv'
  BY <1>1 DEF TypeOK, EmailInv
<1> QED
  BY <1>3, <1>4, <1>5, <1>6, <1>7, <1>8, <1>9, <1>10

------------------------------------------------------------------------------
(* The theorems *)

LEMMA CheckoutInvInductive == CheckoutInv /\ [Next]_vars => CheckoutInv'
<1> SUFFICES ASSUME CheckoutInv, [Next]_vars
             PROVE  CheckoutInv'
  OBVIOUS
<1>1. ASSUME NEW o \in Orders, OrderStep(o)
      PROVE  CheckoutInv'
  BY <1>1, CreateDirectInv, PlaceCheckoutInv, CreateSessionInv,
     CancelWithoutSessionInv, PersistSessionInv, PersistFailsInv,
     RetrieveUnpersistedInv, ExpireUnpersistedInv, CancelUnpersistedInv, AbandonRequestInv, PayInv,
     SessionExpiresInv, AgeInv, EventTimesOutInv, CancelCommandeInv,
     TransitionCommandeStatusInv
     DEF OrderStep, RequestProgress
<1>2. ASSUME NEW h \in Handlers, HandlerStep(h)
      PROVE  CheckoutInv'
  BY <1>2, ClaimEventInv, ConfirmPaidCommandeInv, ExpirePendingCommandeInv,
     SendOrderConfirmationInv, SettleEventInv, HandlerMishapInv
     DEF HandlerStep, HandlerProgress
<1>3. ASSUME NEW c \in Cleaners, CleanerStepOf(c)
      PROVE  CheckoutInv'
  BY <1>3, PrepareCleanupInv, RetrieveAbandonedInv, ExpireAbandonedInv, ReleaseAbandonedInv,
     RecordCleanupReconciliationInv, AbandonCleanupInv
     DEF CleanerStepOf, CleanerProgress
<1>4. CASE UNCHANGED vars
  <2> USE <1>4 DEF CheckoutInv, vars, orderVars, outsideVars
  <2>1. TypeOK'
    BY DEF TypeOK, Claims!ClaimsTypeOK
  <2>2. HandlerInv' /\ RowInv'
    BY SettledStays
  <2>3. /\ ReleasedExactlyWhenCancelled' /\ RequestInv' /\ ConfirmedInv'
        /\ CleanerInv' /\ MotifInv' /\ EmailInv'
    BY DEF ReleasedExactlyWhenCancelled, RequestInv, ConfirmedInv, CleanerInv,
       MotifInv, EmailInv
  <2> QED
    BY <2>1, <2>2, <2>3
<1> QED
  BY <1>1, <1>2, <1>3, <1>4 DEF Next

(***************************************************************************)
(* The inductive invariant holds throughout, whatever the numbers of       *)
(* orders, concurrent webhook requests, cleanup runs and faults.           *)
(***************************************************************************)
THEOREM CheckoutInvariant == Spec => []CheckoutInv
  BY CheckoutInitInv, CheckoutInvInductive, PTL DEF Spec

(***************************************************************************)
(* Type correctness of orders, events, sessions and processes.             *)
(***************************************************************************)
THEOREM CheckoutTypeCorrect == Spec => []TypeOK
<1>1. CheckoutInv => TypeOK
  BY DEF CheckoutInv
<1> QED
  BY <1>1, CheckoutInvariant, PTL

(***************************************************************************)
(* The stock of an order goes back exactly once, and exactly when the      *)
(* order is cancelled (releaseOrderReservation and its callers).           *)
(***************************************************************************)
THEOREM StockReleasedOnce == Spec => []ReleasedExactlyWhenCancelled
<1>1. CheckoutInv => ReleasedExactlyWhenCancelled
  BY DEF CheckoutInv
<1> QED
  BY <1>1, CheckoutInvariant, PTL

(***************************************************************************)
(* What the cleanup or an expired webhook cancels can no longer be paid,   *)
(* unless it was paid between the two calls of the gateway                 *)
(* (cleanupAbandonedCommande, expirePendingCommande).                      *)
(***************************************************************************)
THEOREM AbandonedNeutralised == Spec => []AbandonedOnlyOnceNeutralised
<1>1. CheckoutInv => AbandonedOnlyOnceNeutralised
  BY DEF CheckoutInv, MotifInv, AbandonedOnlyOnceNeutralised
<1> QED
  BY <1>1, CheckoutInvariant, PTL

(***************************************************************************)
(* Only the staff cancels an order whose customer has paid or still can,   *)
(* but for the payment between the two calls of the gateway (every caller  *)
(* of releaseOrderReservation).                                            *)
(***************************************************************************)
THEOREM PayableOrdersKept == Spec => []OnlyStaffCancelsPayableOrders
<1>1. CheckoutInv => OnlyStaffCancelsPayableOrders
  BY DEF CheckoutInv, TypeOK, MotifInv, Motifs, CheckoutMotifs,
     OnlyStaffCancelsPayableOrders
<1> QED
  BY <1>1, CheckoutInvariant, PTL

(***************************************************************************)
(* Once its event is processed, a payment has a confirmed order or a       *)
(* reconciliation (handleStripeWebhook, confirmPaidCommande).              *)
(***************************************************************************)
THEOREM PaymentsRemembered == Spec => []PaymentNeverForgotten
<1>1. CheckoutInv => PaymentNeverForgotten
  BY DEF CheckoutInv, RowInv, Settled, PaymentNeverForgotten
<1> QED
  BY <1>1, CheckoutInvariant, PTL

(***************************************************************************)
(* Once its event is processed, an expired session leaves no order waiting *)
(* (handleStripeWebhook, expirePendingCommande).                           *)
(***************************************************************************)
THEOREM ExpiriesRemembered == Spec => []ExpiryNeverForgotten
<1>1. CheckoutInv => ExpiryNeverForgotten
  BY DEF CheckoutInv, RowInv, Settled, ExpiryNeverForgotten
<1> QED
  BY <1>1, CheckoutInvariant, PTL

(***************************************************************************)
(* At most one confirmation e-mail leaves per order, and only for an order *)
(* its payment confirmed (sendOrderConfirmationBestEffort).                *)
(***************************************************************************)
THEOREM MailedAtMostOnce == Spec => []OneConfirmationEmail
<1>1. CheckoutInv => OneConfirmationEmail
  BY DEF CheckoutInv, EmailInv, OneConfirmationEmail
<1> QED
  BY <1>1, CheckoutInvariant, PTL

------------------------------------------------------------------------------
(* Refinement *)

\* One order at a time changes its status: it is placed, or follows the table.
StatusMoves ==
  \/ \E o \in Orders, s \in {"paiement_en_attente", "nouvelle"} :
       status[o] = "absent" /\ status' = [status EXCEPT ![o] = s]
  \/ \E o \in Orders, s \in OrderStatuses :
       CanTransition(status[o], s) /\ status' = [status EXCEPT ![o] = s]
  \/ status' = status

LEMMA ReleaseMoves ==
  ASSUME NEW o \in Orders, NEW reason, NEW releasable, NEW ops,
         ReleaseOrderReservation(o, reason, releasable, ops)
  PROVE  StatusMoves
  BY DEF ReleaseOrderReservation, StatusMoves, OrderStatuses

LEMMA OrderStepMoves ==
  ASSUME CheckoutInv, NEW o \in Orders, OrderStep(o)
  PROVE  StatusMoves
<1>1. CASE CreateDirect(o) \/ PlaceCheckout(o)
  BY <1>1 DEF CreateDirect, PlaceCheckout, StatusMoves
<1>2. CASE CancelWithoutSession(o)
  BY <1>2, ReleaseMoves DEF CancelWithoutSession
<1>3. CASE CancelUnpersisted(o)
  BY <1>3, ReleaseMoves DEF CancelUnpersisted
<1>4. CASE CancelCommande(o)
  BY <1>4, ReleaseMoves DEF CancelCommande
<1>5. ASSUME NEW s \in StaffStatuses, TransitionCommandeStatus(o, s)
      PROVE  StatusMoves
  BY <1>5 DEF TransitionCommandeStatus, StatusMoves, StaffStatuses,
     OrderStatuses
<1>6. CASE \/ CreateSession(o) \/ RetrieveUnpersisted(o) \/ ExpireUnpersisted(o)
           \/ AbandonRequest(o)
  BY <1>6 DEF CreateSession, RetrieveUnpersisted, ExpireUnpersisted, AbandonRequest, orderVars,
     StatusMoves
<1>7. CASE PersistSession(o) \/ PersistFails(o)
  BY <1>7 DEF PersistSession, PersistFails, StatusMoves
<1>8. CASE Pay(o) \/ SessionExpires(o) \/ Age(o) \/ EventTimesOut(o)
  BY <1>8 DEF Pay, SessionExpires, Age, EventTimesOut, orderVars, StatusMoves
<1> QED
  BY <1>1, <1>2, <1>3, <1>4, <1>5, <1>6, <1>7, <1>8
     DEF OrderStep, RequestProgress

LEMMA HandlerStepMoves ==
  ASSUME CheckoutInv, NEW h \in Handlers, HandlerStep(h)
  PROVE  StatusMoves
<1>1. CASE ConfirmPaidCommande(h)
  <2>1. handler[h].event \in Orders
    BY <1>1 DEF ConfirmPaidCommande, CheckoutInv, HandlerInv
  <2>2. CanTransition("paiement_en_attente", "nouvelle")
    BY DEF CanTransition, Transitions, OrderStatuses
  <2> QED
    BY <1>1, <2>1, <2>2 DEF ConfirmPaidCommande, StatusMoves, OrderStatuses
<1>2. CASE ExpirePendingCommande(h)
  BY <1>2, ReleaseMoves DEF ExpirePendingCommande, CheckoutInv, HandlerInv
<1>3. CASE SendOrderConfirmation(h) \/ SettleEvent(h) \/ HandlerMishap(h)
  BY <1>3 DEF SendOrderConfirmation, SettleEvent, HandlerMishap, orderVars,
     StatusMoves
<1>4. ASSUME NEW o \in Orders, ClaimEvent(h, o)
      PROVE  StatusMoves
  BY <1>4 DEF ClaimEvent, orderVars, StatusMoves
<1> QED
  BY <1>1, <1>2, <1>3, <1>4 DEF HandlerStep, HandlerProgress

LEMMA CleanerStepMoves ==
  ASSUME CheckoutInv, NEW c \in Cleaners, CleanerStepOf(c)
  PROVE  StatusMoves
<1>1. CASE ReleaseAbandoned(c)
  BY <1>1, ReleaseMoves DEF ReleaseAbandoned, CheckoutInv, CleanerInv
<1>2. CASE RecordCleanupReconciliation(c)
  BY <1>2 DEF RecordCleanupReconciliation, StatusMoves
<1>3. CASE RetrieveAbandoned(c) \/ ExpireAbandoned(c) \/ AbandonCleanup(c)
  BY <1>3 DEF RetrieveAbandoned, ExpireAbandoned, AbandonCleanup, orderVars, StatusMoves
<1>4. ASSUME NEW o \in Orders, PrepareCleanup(c, o)
      PROVE  StatusMoves
  BY <1>4 DEF PrepareCleanup, orderVars, StatusMoves
<1> QED
  BY <1>1, <1>2, <1>3, <1>4 DEF CleanerStepOf, CleanerProgress

LEMMA StepMoves == CheckoutInv /\ [Next]_vars => StatusMoves
<1> SUFFICES ASSUME CheckoutInv, [Next]_vars
             PROVE  StatusMoves
  OBVIOUS
<1>1. CASE UNCHANGED vars
  BY <1>1 DEF vars, orderVars, StatusMoves
<1> QED
  BY <1>1, OrderStepMoves, HandlerStepMoves, CleanerStepMoves DEF Next

\* The status of an order is all that the lifecycle module sees of it: its
\* reservation follows.
Holding(s) == IF s = "absent" THEN "none"
              ELSE IF s = "annulee" THEN "released" ELSE "held"

LEMMA ReservationFromStatus ==
  ASSUME NEW s, NEW n, n = IF s = "annulee" THEN 1 ELSE 0
  PROVE  ReservationOf(s, n) = Holding(s)
<1>1. CASE s = "annulee"
  BY <1>1 DEF ReservationOf, Holding
<1>2. CASE s # "annulee"
  BY <1>2 DEF ReservationOf, Holding
<1> QED
  BY <1>1, <1>2

LEMMA MovesRefine ==
  ASSUME CheckoutInv, CheckoutInv', StatusMoves
  PROVE  [Lifecycle!LifecycleNext]_Lifecycle!lifecycleVars
<1>1. \A o \in Orders :
        /\ Reservation[o] = Holding(status[o])
        /\ Reservation'[o] = Holding(status'[o])
  <2>1. \A o \in Orders : restores[o] = IF status[o] = "annulee" THEN 1 ELSE 0
    BY DEF CheckoutInv, ReleasedExactlyWhenCancelled
  <2>2. \A o \in Orders : restores'[o] = IF status'[o] = "annulee" THEN 1 ELSE 0
    BY DEF CheckoutInv, ReleasedExactlyWhenCancelled
  <2> QED
    BY <2>1, <2>2, ReservationFromStatus DEF Reservation
<1>2. /\ DOMAIN status = Orders
      /\ Reservation = [o \in Orders |-> Reservation[o]]
      /\ Reservation' = [o \in Orders |-> Reservation'[o]]
  BY DEF CheckoutInv, TypeOK, Reservation
<1>3. ASSUME NEW o \in Orders, NEW s \in {"paiement_en_attente", "nouvelle"},
             status[o] = "absent", status' = [status EXCEPT ![o] = s]
      PROVE  Lifecycle!Place(o)
  <2>1. Reservation' = [Reservation EXCEPT ![o] = "held"]
    BY <1>1, <1>2, <1>3 DEF Holding
  <2> QED
    BY <1>3, <2>1 DEF Lifecycle!Place
<1>4. ASSUME NEW o \in Orders, NEW s \in OrderStatuses \ {"annulee"},
             CanTransition(status[o], s), status' = [status EXCEPT ![o] = s]
      PROVE  Lifecycle!Advance(o)
  <2>1. status[o] \notin {"absent", "annulee"} /\ s # "absent"
    BY <1>4 DEF CanTransition, Transitions, OrderStatuses
  <2>2. Reservation' = Reservation
    BY <1>1, <1>2, <1>4, <2>1 DEF Holding
  <2> QED
    BY <1>4, <2>2 DEF Lifecycle!Advance, Lifecycle!CanTransition,
       Lifecycle!Transitions, Lifecycle!OrderStatuses, CanTransition,
       Transitions, OrderStatuses
<1>5. ASSUME NEW o \in Orders, CanTransition(status[o], "annulee"),
             status' = [status EXCEPT ![o] = "annulee"]
      PROVE  Lifecycle!Cancel(o)
  <2>1. status[o] \notin {"absent", "annulee"}
    BY <1>5 DEF CanTransition, Transitions, OrderStatuses
  <2>2. /\ Reservation[o] = "held"
        /\ Reservation' = [Reservation EXCEPT ![o] = "released"]
    BY <1>1, <1>2, <1>5, <2>1 DEF Holding
  <2> QED
    BY <1>5, <2>2 DEF Lifecycle!Cancel, Lifecycle!CanTransition,
       Lifecycle!Transitions, Lifecycle!OrderStatuses, CanTransition,
       Transitions, OrderStatuses
<1>6. ASSUME status' = status
      PROVE  UNCHANGED Lifecycle!lifecycleVars
  <2>1. Reservation' = Reservation
    BY <1>1, <1>2, <1>6
  <2> QED
    BY <1>6, <2>1 DEF Lifecycle!lifecycleVars
<1> QED
  BY <1>3, <1>4, <1>5, <1>6 DEF StatusMoves, Lifecycle!LifecycleNext

LEMMA InitRefines == Init => Lifecycle!LifecycleInit
<1> SUFFICES ASSUME Init
             PROVE  Lifecycle!LifecycleInit
  OBVIOUS
<1>1. \A o \in Orders :
        Reservation[o] = IF o \in LegacyOrders THEN "held" ELSE "none"
  <2> SUFFICES ASSUME NEW o \in Orders
               PROVE  ReservationOf(status[o], 0) =
                        IF o \in LegacyOrders THEN "held" ELSE "none"
    BY DEF Init, Reservation
  <2>1. CASE o \in LegacyOrders
    BY <2>1 DEF Init, ReservationOf
  <2>2. CASE o \notin LegacyOrders
    BY <2>2 DEF Init, ReservationOf
  <2> QED
    BY <2>1, <2>2
<1>2. Reservation = [o \in Orders |-> Reservation[o]]
  BY DEF Reservation
<1> QED
  BY <1>1, <1>2 DEF Init, Lifecycle!LifecycleInit

(***************************************************************************)
(* Checkout implements OrderLifecycle: whatever requests, webhooks,        *)
(* cleanup runs and staff do to an order, and wherever they stop, its      *)
(* status follows the table and its reservation the status.                *)
(***************************************************************************)
THEOREM CheckoutImplementsLifecycle == Spec => ImplementsLifecycle
<1>1. CheckoutInv /\ CheckoutInv' /\ [Next]_vars
        => [Lifecycle!LifecycleNext]_Lifecycle!lifecycleVars
  BY StepMoves, MovesRefine
<1> QED
  BY <1>1, InitRefines, CheckoutInvariant, PTL
     DEF Spec, ImplementsLifecycle, Lifecycle!LifecycleSpec
------------------------------------------------------------------------------
(* The claims of WebhookClaims inside Checkout *)

ClaimsProofs == INSTANCE WebhookClaimsProofs WITH Events <- Orders, NoEvent <- NoOrder

\* What a step of Checkout is to the claims: one of theirs, or no step of theirs
\* at all, but perhaps a fault elsewhere.
ClaimsStep ==
  \/ Claims!ClaimsNext
  \/ row' = row /\ handler' = handler /\ (faults' = faults \/ Claims!Fault)

LEMMA OrderStepOfClaims ==
  ASSUME NEW o \in Orders, OrderStep(o)
  PROVE  ClaimsStep
<1>1. CASE EventTimesOut(o)
  BY <1>1 DEF EventTimesOut, ClaimsStep, Claims!ClaimsNext
<1>2. CASE \/ CreateDirect(o) \/ PlaceCheckout(o)
           \/ Pay(o) \/ SessionExpires(o) \/ Age(o)
  BY <1>2 DEF CreateDirect, PlaceCheckout, Pay, SessionExpires, Age, claimVars,
     ClaimsStep
<1>3. CASE CancelWithoutSession(o) \/ PersistSession(o) \/ CancelUnpersisted(o)
  BY <1>3 DEF CancelWithoutSession, PersistSession, CancelUnpersisted, claimVars,
     ClaimsStep
<1>4. CASE CreateSession(o) \/ PersistFails(o) \/ AbandonRequest(o)
  BY <1>4 DEF CreateSession, PersistFails, AbandonRequest, ClaimsStep
<1>5. CASE RetrieveUnpersisted(o) \/ ExpireUnpersisted(o)
  BY <1>5 DEF RetrieveUnpersisted, RetrieveCheckoutSession, ExpireUnpersisted,
     ExpireCheckoutSession, ClaimsStep
<1>6. CASE CancelCommande(o) \/ \E s \in StaffStatuses : TransitionCommandeStatus(o, s)
  BY <1>6 DEF CancelCommande, TransitionCommandeStatus, claimVars, ClaimsStep
<1> QED
  BY <1>1, <1>2, <1>3, <1>4, <1>5, <1>6 DEF OrderStep, RequestProgress

LEMMA HandlerStepOfClaims ==
  ASSUME NEW h \in Handlers, HandlerStep(h)
  PROVE  Claims!ClaimsNext
<1>1. ASSUME NEW o \in Orders, ClaimEvent(h, o)
      PROVE  Claims!ClaimsNext
  BY <1>1 DEF ClaimEvent, Claims!ClaimsNext
<1>2. CASE ConfirmPaidCommande(h)
  BY <1>2 DEF ConfirmPaidCommande, Claims!ClaimsNext
<1>3. CASE ExpirePendingCommande(h)
  BY <1>3 DEF ExpirePendingCommande, Claims!ClaimsNext
<1>4. CASE SendOrderConfirmation(h) \/ SettleEvent(h) \/ HandlerMishap(h)
  BY <1>4 DEF SendOrderConfirmation, SettleEvent, HandlerMishap, Claims!ClaimsNext
<1> QED
  BY <1>1, <1>2, <1>3, <1>4 DEF HandlerStep, HandlerProgress

LEMMA CleanerStepOfClaims ==
  ASSUME NEW c \in Cleaners, CleanerStepOf(c)
  PROVE  ClaimsStep
<1>1. CASE RetrieveAbandoned(c) \/ ExpireAbandoned(c)
  BY <1>1 DEF RetrieveAbandoned, RetrieveCheckoutSession, ExpireAbandoned,
     ExpireCheckoutSession, ClaimsStep
<1>2. CASE ReleaseAbandoned(c) \/ RecordCleanupReconciliation(c)
  BY <1>2 DEF ReleaseAbandoned, RecordCleanupReconciliation, claimVars, ClaimsStep
<1>3. CASE AbandonCleanup(c)
  BY <1>3 DEF AbandonCleanup, ClaimsStep
<1>4. ASSUME NEW o \in Orders, PrepareCleanup(c, o)
      PROVE  ClaimsStep
  BY <1>4 DEF PrepareCleanup, claimVars, ClaimsStep
<1> QED
  BY <1>1, <1>2, <1>3, <1>4 DEF CleanerStepOf, CleanerProgress

LEMMA EveryStepOfClaims == [Next]_vars => ClaimsStep
<1>1. UNCHANGED vars => ClaimsStep
  BY DEF vars, ClaimsStep
<1> QED
  BY <1>1, OrderStepOfClaims, HandlerStepOfClaims, CleanerStepOfClaims
     DEF Next, ClaimsStep

\* Claims and ClaimsProofs instantiate the same definitions.
LEMMA SameClaims ==
  /\ Claims!ClaimsInit => ClaimsProofs!ClaimsInit
  /\ Claims!ClaimsNext => ClaimsProofs!ClaimsNext
  /\ ClaimsProofs!ClaimsInv => Claims!OnlyTheOwnerSettles /\ Claims!OneOwner
<1>1. Claims!ClaimsInit => ClaimsProofs!ClaimsInit
  BY DEF Claims!ClaimsInit, ClaimsProofs!ClaimsInit, Claims!Idle, ClaimsProofs!Idle
<1>2. Claims!ClaimsNext => ClaimsProofs!ClaimsNext
  BY DEF Claims!ClaimsNext, ClaimsProofs!ClaimsNext, Claims!Claim,
     ClaimsProofs!Claim, Claims!Claimable, ClaimsProofs!Claimable,
     Claims!Handle, ClaimsProofs!Handle, Claims!Notified, ClaimsProofs!Notified,
     Claims!Settle, ClaimsProofs!Settle, Claims!MarkProcessed,
     ClaimsProofs!MarkProcessed, Claims!MarkFailed, ClaimsProofs!MarkFailed,
     Claims!Mishap, ClaimsProofs!Mishap, Claims!HandlingFails,
     ClaimsProofs!HandlingFails, Claims!MarkProcessedFails,
     ClaimsProofs!MarkProcessedFails, Claims!Abandon, ClaimsProofs!Abandon,
     Claims!TimeOut, ClaimsProofs!TimeOut, Claims!Running, ClaimsProofs!Running,
     Claims!Owns, ClaimsProofs!Owns, Claims!Fault, ClaimsProofs!Fault,
     Claims!Idle, ClaimsProofs!Idle
<1>3. ClaimsProofs!ClaimsInv => Claims!OnlyTheOwnerSettles
  BY DEF ClaimsProofs!ClaimsInv, ClaimsProofs!OnlyTheOwnerSettles,
     ClaimsProofs!Running, Claims!OnlyTheOwnerSettles, Claims!Running
<1>4. ClaimsProofs!ClaimsInv => Claims!OneOwner
  BY DEF ClaimsProofs!ClaimsInv, ClaimsProofs!TokensDiffer,
     ClaimsProofs!Running, Claims!OneOwner, Claims!Owns, Claims!Running
<1> QED
  BY <1>1, <1>2, <1>3, <1>4

LEMMA ClaimsAssumptionHolds == ClaimsProofs!ClaimsAssumption
  BY CheckoutAssumption DEF ClaimsProofs!ClaimsAssumption

LEMMA ClaimsInvStays ==
  ClaimsProofs!ClaimsInv /\ [Next]_vars => ClaimsProofs!ClaimsInv'
<1> SUFFICES ASSUME ClaimsProofs!ClaimsInv, [Next]_vars
             PROVE  ClaimsProofs!ClaimsInv'
  OBVIOUS
<1>1. CASE Claims!ClaimsNext
  <2>1. ClaimsProofs!ClaimsNext
    BY <1>1, SameClaims
  <2> QED
    BY <2>1, ClaimsAssumptionHolds, ClaimsProofs!ClaimsInvInductive
<1>2. CASE /\ row' = row /\ handler' = handler
           /\ faults' = faults \/ Claims!Fault
  <2>1. faults \in 0..MaxFaults
    BY DEF ClaimsProofs!ClaimsInv, ClaimsProofs!ClaimsTypeOK
  <2>2. faults' \in 0..MaxFaults
    BY <1>2, <2>1, CheckoutAssumption DEF Claims!Fault
  <2> QED
    BY <1>2, <2>2
       DEF ClaimsProofs!ClaimsInv, ClaimsProofs!ClaimsTypeOK,
           ClaimsProofs!EventKnown, ClaimsProofs!TokenNotAhead,
           ClaimsProofs!TokensDiffer, ClaimsProofs!OnlyTheOwnerSettles,
           ClaimsProofs!Running
<1> QED
  BY <1>1, <1>2, EveryStepOfClaims DEF ClaimsStep

LEMMA ClaimsInvInCheckout == Spec => []ClaimsProofs!ClaimsInv
<1>1. Init => ClaimsProofs!ClaimsInv
  BY SameClaims, ClaimsAssumptionHolds, ClaimsProofs!ClaimsInitInv DEF Init
<1> QED
  BY <1>1, ClaimsInvStays, PTL DEF Spec

(***************************************************************************)
(* What WebhookClaims promises of its rows holds inside Checkout as well,  *)
(* where its requests act on orders between their steps and share their    *)
(* faults with checkouts and cleanups: an event has one owner, and only    *)
(* that one settles it (handleStripeWebhook).                              *)
(***************************************************************************)
THEOREM ClaimsHoldInCheckout ==
  Spec => [](Claims!OnlyTheOwnerSettles /\ Claims!OneOwner)
<1>1. ClaimsProofs!ClaimsInv => Claims!OnlyTheOwnerSettles /\ Claims!OneOwner
  BY SameClaims
<1> QED
  BY <1>1, ClaimsInvInCheckout, PTL

(***************************************************************************)
(* An acknowledged event has left its trace on its order, and nothing that *)
(* happens to orders, sessions or other events undoes one or the other:    *)
(* Stripe never has to send it again.                                      *)
(***************************************************************************)
THEOREM AcknowledgedForGood ==
  Spec => [][\A o \in Orders : row[o].status = "processed" =>
               row'[o] = row[o] /\ Settled(o) /\ Settled(o)']_vars
<1>1. ASSUME CheckoutInv, CheckoutInv', ClaimsProofs!ClaimsInv, [Next]_vars,
             NEW o \in Orders, row[o].status = "processed"
      PROVE  row'[o] = row[o] /\ Settled(o) /\ Settled(o)'
  <2>1. row'[o] = row[o]
    <3>1. CASE Claims!ClaimsNext
      BY <1>1, <3>1, SameClaims, ClaimsAssumptionHolds,
         ClaimsProofs!StepKeepsProcessed
    <3> QED
      BY <1>1, <3>1, EveryStepOfClaims DEF ClaimsStep
  <2> QED
    BY <1>1, <2>1 DEF CheckoutInv, RowInv
<1>2. CheckoutInv /\ CheckoutInv' /\ ClaimsProofs!ClaimsInv /\ [Next]_vars
        => [\A o \in Orders : row[o].status = "processed" =>
              row'[o] = row[o] /\ Settled(o) /\ Settled(o)']_vars
  BY <1>1
<1> QED
  BY <1>2, CheckoutInvariant, ClaimsInvInCheckout, PTL DEF Spec
==============================================================================
