---------------------------- MODULE RefundsProofs ----------------------------
(***************************************************************************)
(* The safety of Refunds, for any number of requests and dashboard refunds *)
(* and any amounts: first what becomes of each refund, then what the       *)
(* amounts reserved add up to.                                             *)
(***************************************************************************)
EXTENDS Refunds, SumLemmas, TLAPS

\* A refund that Stripe holds has a status and has had a first answer.
RefundIsWhole ==
  \A id \in Ids : \/ stripe[id] = NoRefund
                  \/ stripe[id].status \in StripeStatus /\ stripe[id].first \in Reserving

\* What Stripe may execute, has executed or reports was first written as a row.
RequestHasRow ==
  \A k \in Requests :
    (k \in wire \/ call[k] # "idle" \/ stripe[k] # NoRefund) => row[k].status # "none"

\* Events and answers are about refunds that Stripe holds.
ReportIsOfRefund ==
  /\ \A id \in Ids, status \in StripeStatus :
       <<id, status>> \in events => stripe[id] # NoRefund
  /\ \A k \in Requests : call[k] = "answered" => stripe[k] # NoRefund

\* An event that reports a failure reports what is still so: Stripe never
\* revives a refund.
FailureIsFinal ==
  \A id \in Ids : <<id, "failed">> \in events => stripe[id].status = "failed"

\* Until its row is linked, money that Stripe gives back has an event to come.
UnlinkedIsUnread ==
  \A id \in Ids : stripe[id].status \in Reserving /\ ~row[id].linked =>
    \/ \E status \in Reserving : <<id, status>> \in events
    \/ id \in dropped

LinkedRowExists == \A id \in Ids : row[id].linked => row[id].status # "none"

Known == RefundsTypeOK /\ RefundIsWhole /\ RequestHasRow /\ ReportIsOfRefund

RInv ==
  /\ Known
  /\ FailureIsFinal
  /\ UnlinkedIsUnread
  /\ LinkedRowExists
  /\ FailureOfLinkedRefundIsStripes

-----------------------------------------------------------------------------
(* The steps that several actions share.                                   *)

USE DEF Ids, StripeStatus, Reserving

\* syncStripeRefund writes and links the row it is about, or, for a dashboard
\* refund of an order that matches nothing, leaves every row alone.
LEMMA SyncWrites ==
  ASSUME Known, NEW id \in Ids, NEW status \in StripeStatus, Sync(id, status),
         id \in Requests => row[id].status # "none"
  PROVE  /\ row' \in [Ids -> Row]
         /\ intent' \in BOOLEAN
         /\ surprised' \in BOOLEAN
         /\ dropped' \subseteq Dashboard
         /\ \/ /\ row'[id].status = status /\ row'[id].linked
               /\ dropped' = dropped
            \/ /\ row' = row
               /\ dropped' = dropped \cup {id}
         /\ \A other \in Ids : other # id => row'[other] = row[other]
<1>1. row \in [Ids -> Row] /\ stripe \in [Ids -> StripeRefund]
      /\ dropped \subseteq Dashboard /\ intent \in BOOLEAN /\ surprised \in BOOLEAN
  BY DEF Known, RefundsTypeOK
<1>2. CASE row[id].status # "none" \/ intent
  <2> DEFINE new == [status |-> status, linked |-> TRUE, amount |-> stripe[id].amount]
  <2>1. new \in Row
    BY <1>1 DEF Row, StripeRefund
  <2>2. row' = [row EXCEPT ![id] = new] /\ dropped' = dropped /\ intent' = TRUE
        /\ surprised' \in BOOLEAN
    BY <1>2 DEF Sync
  <2>3. row'[id] = new
    BY <1>1, <2>2
  <2> QED
    BY <1>1, <2>1, <2>2, <2>3
<1>3. CASE ~(row[id].status # "none" \/ intent)
  <2>1. row' = row /\ dropped' = dropped \cup {id} /\ intent' = intent
        /\ surprised' = surprised
    BY <1>3 DEF Sync
  <2>2. id \in Dashboard
    BY <1>3
  <2> QED
    BY <1>1, <2>1, <2>2
<1> QED
  BY <1>2, <1>3

\* A new refund at Stripe.
LEMMA CreateAdds ==
  ASSUME Known, NEW id \in Ids, NEW amount, Create(id, amount)
  PROVE  /\ stripe' \in [Ids -> StripeRefund]
         /\ stripe[id] = NoRefund
         /\ stripe'[id].status \in Reserving /\ stripe'[id].first \in Reserving
         /\ events' = events \cup {<<id, stripe'[id].status>>}
         /\ stripe'[id] # NoRefund
         /\ \A other \in Ids : other # id => stripe'[other] = stripe[other]
<1>1. stripe \in [Ids -> StripeRefund] /\ Total \in Nat
  BY RefundsAssumption DEF Known, RefundsTypeOK
<1>2. amount \in 0..Total /\ stripe[id] = NoRefund
  BY <1>1 DEF Create
<1>3. PICK status \in Reserving :
        /\ stripe' = [stripe EXCEPT ![id] = [status |-> status, first |-> status,
                                             amount |-> amount]]
        /\ Report(id, status)
  BY DEF Create
<1>4. [status |-> status, first |-> status, amount |-> amount] \in StripeRefund
  BY <1>2 DEF StripeRefund
<1>5. /\ stripe'[id] = [status |-> status, first |-> status, amount |-> amount]
      /\ stripe'[id].status = status /\ stripe'[id].first = status
  BY <1>1, <1>3
<1>6. stripe'[id] # NoRefund
  BY <1>5 DEF NoRefund
<1> QED
  BY <1>1, <1>2, <1>3, <1>4, <1>5, <1>6 DEF Report

-----------------------------------------------------------------------------

LEMMA RInvHoldsInitially == Init => RInv
<1> SUFFICES ASSUME Init PROVE RInv
  OBVIOUS
<1>1. NoRow \in Row /\ NoRefund \in StripeRefund /\ 0 \in 0..Total
  BY RefundsAssumption DEF NoRow, Row, NoRefund, StripeRefund
<1>2. RefundsTypeOK
  BY <1>1, RefundsAssumption DEF Init, RefundsTypeOK, NoLock
<1>3. \A id \in Ids : stripe[id] = NoRefund /\ row[id] = NoRow
  BY DEF Init
<1>4. \A id \in Ids : stripe[id].status = "none" /\ ~row[id].linked
  BY <1>3 DEF NoRow, NoRefund
<1> QED
  BY <1>2, <1>3, <1>4
  DEF Init, RInv, Known, RefundIsWhole, RequestHasRow, ReportIsOfRefund,
      FailureIsFinal, UnlinkedIsUnread, LinkedRowExists,
      FailureOfLinkedRefundIsStripes

LEMMA RInvIsInductive == RInv /\ [Next]_vars => RInv'
<1> SUFFICES ASSUME RInv, [Next]_vars PROVE RInv'
  OBVIOUS
<1> USE DEF RInv
<1>t. RefundsTypeOK
  BY DEF Known
<1>1. ASSUME NEW k \in Requests, Prepare(k) PROVE RInv'
  <2>1. lock' \in [key : Requests, amount : 1..Total] \cup {NoLock}
    <3>1. PICK amount \in 1..Total : lock' = [key |-> k, amount |-> amount]
      BY <1>1 DEF Prepare
    <3> QED
      BY <3>1
  <2>2. RefundsTypeOK'
    BY <1>1, <1>t, <2>1 DEF Prepare, RefundsTypeOK, stripeVars, history
  <2> QED
    BY <1>1, <2>2
    DEF Prepare, Known, RefundIsWhole, RequestHasRow, ReportIsOfRefund,
        FailureIsFinal, UnlinkedIsUnread, LinkedRowExists,
        FailureOfLinkedRefundIsStripes, stripeVars, history
<1>2. CASE Reserve
  <2> DEFINE k == lock.key
  <2>1. k \in Requests /\ lock.amount \in 0..Total
    <3>1. lock \in [key : Requests, amount : 1..Total]
      BY <1>2, <1>t DEF Reserve, RefundsTypeOK
    <3> QED
      BY <3>1, RefundsAssumption
  <2>2. row' = [row EXCEPT ![k] = [row[k] EXCEPT !.status = "pending",
                                                 !.amount = lock.amount]]
    BY <1>2 DEF Reserve
  <2>3. row \in [Ids -> Row] /\ k \in Ids
    BY <1>t, <2>1 DEF RefundsTypeOK
  <2>4. row' \in [Ids -> Row] /\ row'[k].status = "pending"
        /\ row'[k].linked = row[k].linked
        /\ \A id \in Ids : id # k => row'[id] = row[id]
    BY <2>1, <2>2, <2>3 DEF Row
  <2>5. RefundsTypeOK'
    BY <1>2, <1>t, <2>1, <2>4, RefundsAssumption
    DEF Reserve, RefundsTypeOK, NoLock, history
  <2>6. stripe' = stripe /\ events' = events /\ dropped' = dropped
        /\ wire' = wire \cup {k} /\ call' = [call EXCEPT ![k] = "sent"]
    BY <1>2 DEF Reserve, history
  <2>7. RefundIsWhole' /\ RequestHasRow' /\ ReportIsOfRefund'
    <3>1. call \in [Requests -> {"idle", "sent", "answered", "error"}]
      BY <1>t DEF RefundsTypeOK
    <3> QED
      BY <2>1, <2>4, <2>6, <3>1
      DEF Known, RefundIsWhole, RequestHasRow, ReportIsOfRefund
  <2> QED
    BY <2>4, <2>5, <2>6, <2>7
    DEF Known, FailureIsFinal, UnlinkedIsUnread, LinkedRowExists,
        FailureOfLinkedRefundIsStripes
<1>3. CASE Rollback \/ CancelOrder
  <2>1. RefundsTypeOK'
    BY <1>3, <1>t, RefundsAssumption
    DEF Rollback, CancelOrder, RefundsTypeOK, NoLock, stripeVars, history
  <2> QED
    BY <1>3, <2>1
    DEF Rollback, CancelOrder, Known, RefundIsWhole, RequestHasRow,
        ReportIsOfRefund, FailureIsFinal, UnlinkedIsUnread, LinkedRowExists,
        FailureOfLinkedRefundIsStripes, stripeVars, history
<1>4. ASSUME NEW id \in Ids, NEW status \in StripeStatus,
             HandleRefundEvent(id, status)
      PROVE  RInv'
  <2>1. <<id, status>> \in events /\ stripe[id] # NoRefund
    BY <1>4 DEF HandleRefundEvent, Known, ReportIsOfRefund
  <2>2. id \in Requests => row[id].status # "none"
    BY <2>1 DEF Known, RequestHasRow
  <2>3. /\ row' \in [Ids -> Row]
        /\ intent' \in BOOLEAN
        /\ surprised' \in BOOLEAN
        /\ dropped' \subseteq Dashboard
        /\ \/ /\ row'[id].status = status /\ row'[id].linked
              /\ dropped' = dropped
           \/ /\ row' = row
              /\ dropped' = dropped \cup {id}
        /\ \A other \in Ids : other # id => row'[other] = row[other]
    BY <1>4, <2>2, SyncWrites DEF HandleRefundEvent
  <2>4. /\ events' \subseteq events
        /\ \A e \in events : e # <<id, status>> => e \in events'
        /\ UNCHANGED <<refundable, lock, call, wire, stripe, lost>>
    BY <1>4 DEF HandleRefundEvent
  <2>5. RefundsTypeOK'
    BY <1>t, <2>3, <2>4 DEF RefundsTypeOK
  <2>6. RefundIsWhole' /\ RequestHasRow' /\ ReportIsOfRefund'
    BY <2>3, <2>4 DEF Known, RefundIsWhole, RequestHasRow, ReportIsOfRefund
  <2>7. FailureIsFinal' /\ LinkedRowExists'
    BY <2>3, <2>4 DEF FailureIsFinal, LinkedRowExists
  <2>8. FailureOfLinkedRefundIsStripes'
    <3>1. status = "failed" => stripe[id].status = "failed"
      BY <2>1 DEF FailureIsFinal
    <3> QED
      BY <2>3, <2>4, <3>1 DEF FailureOfLinkedRefundIsStripes
  <2>9. UnlinkedIsUnread'
    <3> SUFFICES ASSUME NEW other \in Ids, stripe'[other].status \in Reserving,
                        ~row'[other].linked
                 PROVE  \/ \E s \in Reserving : <<other, s>> \in events'
                        \/ other \in dropped'
      BY DEF UnlinkedIsUnread
    <3>1. CASE other = id
      BY <2>3, <3>1
    <3>2. CASE other # id
      <4>1. ~row[other].linked /\ stripe[other].status \in Reserving
        BY <2>3, <2>4, <3>2
      <4>2. \A s \in Reserving : <<other, s>> # <<id, status>>
        BY <3>2
      <4> QED
        BY <2>3, <2>4, <4>1, <4>2 DEF UnlinkedIsUnread
    <3> QED
      BY <3>1, <3>2
  <2> QED
    BY <2>5, <2>6, <2>7, <2>8, <2>9 DEF Known
<1>5. ASSUME NEW k \in Requests, SyncAnswer(k) PROVE RInv'
  <2>1. k \in Ids /\ stripe[k] # NoRefund
    BY <1>5 DEF SyncAnswer, Known, ReportIsOfRefund
  <2>2. stripe[k].first \in Reserving /\ row[k].status # "none"
    BY <2>1 DEF Known, RefundIsWhole, RequestHasRow
  <2>3. /\ row' \in [Ids -> Row]
        /\ intent' \in BOOLEAN
        /\ surprised' \in BOOLEAN
        /\ dropped' \subseteq Dashboard
        /\ \/ /\ row'[k].status = stripe[k].first /\ row'[k].linked
              /\ dropped' = dropped
           \/ /\ row' = row
              /\ dropped' = dropped \cup {k}
        /\ \A other \in Ids : other # k => row'[other] = row[other]
    <3>1. Sync(k, stripe[k].first) /\ stripe[k].first \in StripeStatus
      BY <1>5, <2>2 DEF SyncAnswer
    <3> QED
      BY <2>1, <2>2, <3>1, SyncWrites
  <2>4. /\ call' = [call EXCEPT ![k] = "idle"]
        /\ UNCHANGED <<refundable, lock, wire, stripe, events, lost>>
    BY <1>5 DEF SyncAnswer, stripeVars
  <2>5. RefundsTypeOK'
    BY <1>t, <2>3, <2>4 DEF RefundsTypeOK
  <2>6. RefundIsWhole' /\ RequestHasRow' /\ ReportIsOfRefund'
    <3>1. call \in [Requests -> {"idle", "sent", "answered", "error"}]
      BY <1>t DEF RefundsTypeOK
    <3> QED
      BY <2>1, <2>2, <2>3, <2>4, <3>1
      DEF Known, RefundIsWhole, RequestHasRow, ReportIsOfRefund
  <2> QED
    BY <2>1, <2>2, <2>3, <2>4, <2>5, <2>6
    DEF Known, FailureIsFinal, UnlinkedIsUnread, LinkedRowExists,
        FailureOfLinkedRefundIsStripes
<1>6. ASSUME NEW k \in Requests, GiveUp(k) \/ Die(k) PROVE RInv'
  <2>1. call \in [Requests -> {"idle", "sent", "answered", "error"}]
    BY <1>t DEF RefundsTypeOK
  <2>2. RefundsTypeOK'
    BY <1>6, <1>t, <2>1
    DEF GiveUp, Die, RefundsTypeOK, bookVars, stripeVars, history
  <2>3. UNCHANGED <<row, wire, stripe, events, dropped>>
    BY <1>6 DEF GiveUp, Die, bookVars, stripeVars, history
  <2>4. \A r \in Requests : /\ call'[r] # "idle" => call[r] # "idle"
                            /\ call'[r] = "answered" => call[r] = "answered"
    BY <1>6, <2>1 DEF GiveUp, Die
  <2> QED
    BY <2>2, <2>3, <2>4
    DEF Known, RefundIsWhole, RequestHasRow, ReportIsOfRefund, FailureIsFinal,
        UnlinkedIsUnread, LinkedRowExists, FailureOfLinkedRefundIsStripes
<1>7. ASSUME NEW k \in Requests, MarkRefundFailed(k) PROVE RInv'
  <2>1. /\ call \in [Requests -> {"idle", "sent", "answered", "error"}]
        /\ row \in [Ids -> Row] /\ k \in Ids
    BY <1>t DEF RefundsTypeOK
  <2>2. /\ call' = [call EXCEPT ![k] = "idle"]
        /\ UNCHANGED <<refundable, intent, lock, wire, stripe, events, lost,
                       dropped, surprised>>
    BY <1>7 DEF MarkRefundFailed, stripeVars, history
  <2>3. /\ row' \in [Ids -> Row]
        /\ \A id \in Ids : /\ row'[id].linked = row[id].linked
                           /\ row[id].status # "none" => row'[id].status # "none"
                           /\ row[id].linked => row'[id] = row[id]
    <3>1. CASE row[k].status = "pending" /\ ~row[k].linked
      <4>1. row' = [row EXCEPT ![k] = [row[k] EXCEPT !.status = "failed"]]
        BY <1>7, <3>1 DEF MarkRefundFailed
      <4> QED
        BY <2>1, <3>1, <4>1 DEF Row
    <3>2. CASE ~(row[k].status = "pending" /\ ~row[k].linked)
      BY <1>7, <2>1, <3>2 DEF MarkRefundFailed
    <3> QED
      BY <3>1, <3>2
  <2>4. RefundsTypeOK'
    BY <1>t, <2>1, <2>2, <2>3 DEF RefundsTypeOK
  <2>5. RefundIsWhole' /\ RequestHasRow' /\ ReportIsOfRefund'
    BY <2>1, <2>2, <2>3
    DEF Known, RefundIsWhole, RequestHasRow, ReportIsOfRefund
  <2> QED
    BY <2>2, <2>3, <2>4, <2>5
    DEF Known, FailureIsFinal, UnlinkedIsUnread, LinkedRowExists,
        FailureOfLinkedRefundIsStripes
<1>8. ASSUME NEW k \in Requests, StripeRefunds(k) PROVE RInv'
  <2>1. k \in Ids /\ Create(k, row[k].amount) /\ row[k].status # "none"
    BY <1>8 DEF StripeRefunds, Known, RequestHasRow
  <2>2. /\ stripe' \in [Ids -> StripeRefund]
        /\ stripe[k] = NoRefund
        /\ stripe'[k].status \in Reserving /\ stripe'[k].first \in Reserving
        /\ events' = events \cup {<<k, stripe'[k].status>>}
        /\ stripe'[k] # NoRefund
        /\ \A other \in Ids : other # k => stripe'[other] = stripe[other]
    BY <2>1, CreateAdds
  <2>3. /\ call \in [Requests -> {"idle", "sent", "answered", "error"}]
        /\ call' = IF call[k] = "sent" THEN [call EXCEPT ![k] = "answered"] ELSE call
        /\ wire' = wire \ {k}
        /\ UNCHANGED <<refundable, intent, row, lock, lost, dropped, surprised>>
    BY <1>8, <1>t DEF StripeRefunds, Answer, bookVars, history, RefundsTypeOK
  <2>4. RefundsTypeOK'
    BY <1>t, <2>1, <2>2, <2>3 DEF RefundsTypeOK
  <2>5. RefundIsWhole' /\ RequestHasRow' /\ ReportIsOfRefund'
    BY <2>1, <2>2, <2>3
    DEF Known, RefundIsWhole, RequestHasRow, ReportIsOfRefund
  <2>6. FailureIsFinal' /\ FailureOfLinkedRefundIsStripes' /\ LinkedRowExists'
    <3>1. stripe[k].status = "none"
      BY <2>2 DEF NoRefund
    <3> QED
      BY <2>2, <2>3, <3>1
      DEF FailureIsFinal, FailureOfLinkedRefundIsStripes, LinkedRowExists
  <2>7. UnlinkedIsUnread'
    BY <2>2, <2>3 DEF UnlinkedIsUnread
  <2> QED
    BY <2>4, <2>5, <2>6, <2>7 DEF Known
<1>9. ASSUME NEW k \in Requests, StripeRepeats(k) \/ StripeRefuses(k) PROVE RInv'
  <2>1. /\ call \in [Requests -> {"idle", "sent", "answered", "error"}]
        /\ wire' = wire \ {k}
        /\ UNCHANGED <<refundable, intent, row, lock, stripe, events, lost,
                       dropped, surprised>>
    BY <1>9, <1>t
    DEF StripeRepeats, StripeRefuses, Answer, bookVars, history, RefundsTypeOK
  <2>2. PICK result \in {"answered", "error"} :
          /\ call' = IF call[k] = "sent" THEN [call EXCEPT ![k] = result] ELSE call
          /\ result = "answered" => stripe[k] # NoRefund
    BY <1>9 DEF StripeRepeats, StripeRefuses, Answer
  <2>3. RefundsTypeOK'
    BY <1>t, <2>1, <2>2 DEF RefundsTypeOK
  <2>4. RefundIsWhole' /\ RequestHasRow' /\ ReportIsOfRefund'
    BY <2>1, <2>2 DEF Known, RefundIsWhole, RequestHasRow, ReportIsOfRefund
  <2> QED
    BY <2>1, <2>3, <2>4
    DEF Known, FailureIsFinal, UnlinkedIsUnread, LinkedRowExists,
        FailureOfLinkedRefundIsStripes
<1>10. ASSUME NEW id \in Dashboard, RefundInDashboard(id) PROVE RInv'
  <2>1. PICK amount \in Amounts : Create(id, amount)
    BY <1>10 DEF RefundInDashboard
  <2>2. /\ stripe' \in [Ids -> StripeRefund]
        /\ stripe[id] = NoRefund
        /\ stripe'[id].status \in Reserving /\ stripe'[id].first \in Reserving
        /\ events' = events \cup {<<id, stripe'[id].status>>}
        /\ stripe'[id] # NoRefund
        /\ \A other \in Ids : other # id => stripe'[other] = stripe[other]
    BY <2>1, CreateAdds
  <2>3. UNCHANGED <<refundable, intent, row, lock, call, wire, lost, dropped,
                    surprised>>
    BY <1>10 DEF RefundInDashboard, bookVars, history
  <2>4. RefundsTypeOK'
    BY <1>t, <2>2, <2>3 DEF RefundsTypeOK
  <2>5. RefundIsWhole' /\ RequestHasRow' /\ ReportIsOfRefund'
    <3>1. id \notin Requests
      BY RefundsAssumption
    <3> QED
      BY <2>2, <2>3, <3>1
      DEF Known, RefundIsWhole, RequestHasRow, ReportIsOfRefund
  <2>6. FailureIsFinal' /\ FailureOfLinkedRefundIsStripes' /\ LinkedRowExists'
    <3>1. stripe[id].status = "none"
      BY <2>2 DEF NoRefund
    <3> QED
      BY <2>2, <2>3, <3>1
      DEF FailureIsFinal, FailureOfLinkedRefundIsStripes, LinkedRowExists
  <2>7. UnlinkedIsUnread'
    BY <2>2, <2>3 DEF UnlinkedIsUnread
  <2> QED
    BY <2>4, <2>5, <2>6, <2>7 DEF Known
<1>11. ASSUME NEW id \in Ids, NEW status \in StripeStatus, StripeSettles(id, status)
       PROVE  RInv'
  <2>1. stripe \in [Ids -> StripeRefund] /\ stripe[id].status \in Reserving
        /\ (stripe[id].status = "succeeded" => status = "failed")
    BY <1>11, <1>t DEF StripeSettles, RefundsTypeOK
  <2>2. stripe' = [stripe EXCEPT ![id] = [stripe[id] EXCEPT !.status = status]]
    BY <1>11 DEF StripeSettles
  <2>3. /\ stripe' \in [Ids -> StripeRefund]
        /\ stripe'[id].status = status /\ stripe'[id].first = stripe[id].first
        /\ \A other \in Ids : other # id => stripe'[other] = stripe[other]
    BY <2>1, <2>2 DEF StripeRefund
  <2>4. stripe[id] # NoRefund /\ stripe'[id] # NoRefund
    BY <2>1, <2>3 DEF NoRefund
  <2>5. /\ events' = events \cup {<<id, status>>}
        /\ UNCHANGED <<refundable, intent, row, lock, call, wire, lost, dropped,
                       surprised>>
    BY <1>11 DEF StripeSettles, Report, bookVars, history
  <2>6. RefundsTypeOK'
    BY <1>t, <2>3, <2>5 DEF RefundsTypeOK
  <2>7. RefundIsWhole' /\ RequestHasRow' /\ ReportIsOfRefund'
    BY <2>3, <2>4, <2>5
    DEF Known, RefundIsWhole, RequestHasRow, ReportIsOfRefund
  <2>8. FailureIsFinal' /\ FailureOfLinkedRefundIsStripes' /\ LinkedRowExists'
    BY <2>1, <2>3, <2>5
    DEF FailureIsFinal, FailureOfLinkedRefundIsStripes, LinkedRowExists
  <2>9. UnlinkedIsUnread'
    BY <2>3, <2>5 DEF UnlinkedIsUnread
  <2> QED
    BY <2>6, <2>7, <2>8, <2>9 DEF Known
<1>12. CASE UNCHANGED vars
  BY <1>12
  DEF vars, Known, RefundsTypeOK, RefundIsWhole, RequestHasRow, ReportIsOfRefund,
      FailureIsFinal, UnlinkedIsUnread, LinkedRowExists,
      FailureOfLinkedRefundIsStripes
<1> QED
  BY <1>1, <1>2, <1>3, <1>4, <1>5, <1>6, <1>7, <1>8, <1>9, <1>10, <1>11, <1>12
  DEF Next, Request, External

-----------------------------------------------------------------------------
(* What is reserved, as a sum over all refunds.                            *)

ReservedOf(rows) == SumOver(rows, {id \in Ids : rows[id].status \in Reserving})

Share(rows) == [id \in Ids |-> IF rows[id].status \in Reserving THEN rows[id].amount ELSE 0]

LEMMA IdsFinite == IsFiniteSet(Ids)
BY RefundsAssumption, FS_Union

LEMMA RowAmount == \A r \in Row : r.amount \in Nat
BY RefundsAssumption DEF Row

LEMMA ShareOfRow ==
  ASSUME NEW rows \in [Ids -> Row], NEW id \in Ids
  PROVE  /\ Share(rows)[id] \in Nat
         /\ Share(rows)[id] = IF rows[id].status \in Reserving THEN rows[id].amount ELSE 0
<1>1. rows[id].amount \in Nat
  BY RowAmount
<1> QED BY <1>1 DEF Share

LEMMA ReservedIsSumOfShares ==
  ASSUME NEW rows \in [Ids -> Row]
  PROVE  ReservedOf(rows) = SumFunctionOnSet(Share(rows), Ids)
<1> DEFINE T == {id \in Ids : rows[id].status \in Reserving}
           f == [id \in Ids |-> rows[id].amount]
<1>1. T \in SUBSET Ids
  OBVIOUS
<1>2. \A id \in Ids : f[id] \in Int
  <2>1. \A id \in Ids : rows[id] \in Row
    OBVIOUS
  <2> QED BY <2>1, RowAmount
<1>3. \A id \in Ids : Share(rows)[id] = IF id \in T THEN f[id] ELSE 0
  BY DEF Share
<1>4. ReservedOf(rows) = SumFunctionOnSet(f, T)
  BY DEF ReservedOf, SumOver
<1> HIDE DEF T, f
<1> QED BY <1>1, <1>2, <1>3, <1>4, IdsFinite, SumOfPart

LEMMA ReservedIsNat ==
  ASSUME NEW rows \in [Ids -> Row] PROVE ReservedOf(rows) \in Nat
<1>1. \A id \in Ids : Share(rows)[id] \in Nat
  BY ShareOfRow
<1> QED BY <1>1, IdsFinite, SumNat, ReservedIsSumOfShares

\* Rows that reserve what they reserved, or nothing.
LEMMA NoMoreReserved ==
  ASSUME NEW rows \in [Ids -> Row], NEW next \in [Ids -> Row],
         \A id \in Ids : next[id].status \in Reserving =>
           rows[id].status \in Reserving /\ next[id].amount = rows[id].amount
  PROVE  ReservedOf(next) <= ReservedOf(rows)
<1>1. \A id \in Ids : /\ Share(next)[id] \in Int /\ Share(rows)[id] \in Int
                      /\ Share(next)[id] <= Share(rows)[id]
  <2> TAKE id \in Ids
  <2>1. Share(rows)[id] \in Nat /\ Share(next)[id] \in Nat
    BY ShareOfRow
  <2>2. CASE next[id].status \in Reserving
    <3>1. Share(next)[id] = Share(rows)[id]
      BY <2>2, ShareOfRow
    <3> QED BY <2>1, <3>1
  <2>3. CASE next[id].status \notin Reserving
    <3>1. Share(next)[id] = 0
      BY <2>3, ShareOfRow
    <3> QED BY <2>1, <3>1
  <2> QED BY <2>2, <2>3
<1>2. SumFunctionOnSet(Share(next), Ids) <= SumFunctionOnSet(Share(rows), Ids)
  BY <1>1, IdsFinite, SumMonotonic
<1> QED BY <1>2, ReservedIsSumOfShares

\* One row more.
LEMMA OneMoreReserved ==
  ASSUME NEW rows \in [Ids -> Row], NEW next \in [Ids -> Row], NEW k \in Ids,
         rows[k].status \notin Reserving, next[k].status \in Reserving,
         \A id \in Ids : id # k => next[id] = rows[id]
  PROVE  ReservedOf(next) = ReservedOf(rows) + next[k].amount
<1>1. \A id \in Ids : Share(rows)[id] \in Int /\ Share(next)[id] \in Int
  BY ShareOfRow
<1>2. \A id \in Ids : id # k => Share(next)[id] = Share(rows)[id]
  BY ShareOfRow
<1> DEFINE f == Share(rows)
           h == Share(next)
<1>3. f[k] = 0 /\ h[k] = next[k].amount /\ next[k].amount \in Nat
  BY ShareOfRow, RowAmount
<1> HIDE DEF f, h
<1>4. SumFunctionOnSet(h, Ids) = SumFunctionOnSet(f, Ids) - f[k] + h[k]
  <2>1. \A x \in Ids : f[x] \in Int /\ h[x] \in Int
    BY <1>1 DEF f, h
  <2>2. \A x \in Ids : x # k => h[x] = f[x]
    BY <1>2 DEF f, h
  <2>3. k \in Ids /\ IsFiniteSet(Ids)
    BY IdsFinite
  <2> HIDE DEF Ids
  <2> QED BY <2>1, <2>2, <2>3, SumChange
<1>5. ReservedOf(rows) = SumFunctionOnSet(f, Ids) /\ ReservedOf(next) = SumFunctionOnSet(h, Ids)
  BY ReservedIsSumOfShares DEF f, h
<1>6. ReservedOf(rows) \in Nat
  BY ReservedIsNat
<1> QED BY <1>3, <1>4, <1>5, <1>6

-----------------------------------------------------------------------------
(* The room that a request found is kept for it.                           *)

\* A request that runs again asks for what it asked for, so what Stripe answers
\* or reports is the amount of the row.
AmountsAgree ==
  /\ \A k \in Requests : stripe[k] # NoRefund => row[k].amount = stripe[k].amount
  /\ lock # NoLock /\ row[lock.key].status # "none" => lock.amount = row[lock.key].amount
  /\ \A d \in Dashboard : row[d].status # "none" =>
       stripe[d] # NoRefund /\ row[d].amount = stripe[d].amount

\* Between the reads and the write of a request, what it will write still fits.
RoomIsKept ==
  ~surprised =>
    /\ lock # NoLock => row[lock.key].status \notin Reserving
    /\ Reserved + lock.amount <= Total

Kept == RInv /\ AmountsAgree /\ RoomIsKept

LEMMA ReservedIsOf == Reserved = ReservedOf(row) /\ Reserved' = ReservedOf(row')
BY DEF Reserved, ReservedOf

LEMMA LockIsFree == NoLock.amount = 0 /\ NoLock.key \notin Requests
BY RefundsAssumption DEF NoLock

LEMMA KeptTypes ==
  ASSUME RInv
  PROVE  /\ row \in [Ids -> Row]
         /\ lock # NoLock => lock.key \in Requests /\ lock.key \in Ids
         /\ lock.amount \in Nat
         /\ Reserved \in Nat
<1>1. row \in [Ids -> Row] /\ lock \in [key : Requests, amount : 1..Total] \cup {NoLock}
  BY DEF RInv, Known, RefundsTypeOK
<1>2. lock.amount \in Nat
  BY <1>1, LockIsFree, RefundsAssumption
<1>3. Reserved \in Nat
  BY <1>1, ReservedIsOf, ReservedIsNat
<1>4. lock # NoLock => lock.key \in Requests /\ lock.key \in Ids
  BY <1>1
<1> QED BY <1>1, <1>2, <1>3, <1>4

LEMMA KeptInitially == Init => Kept
<1> SUFFICES ASSUME Init PROVE Kept
  OBVIOUS
<1>1. RInv
  BY RInvHoldsInitially
<1>2. \A id \in Ids : row[id] = NoRow /\ stripe[id] = NoRefund
  BY DEF Init
<1>3. lock = NoLock /\ lock.amount = 0
  BY LockIsFree DEF Init
<1>4. AmountsAgree
  BY <1>2, <1>3 DEF AmountsAgree, NoRow
<1>5. Reserved = 0
  <2>1. row \in [Ids -> Row]
    BY <1>1, KeptTypes
  <2>2. \A id \in Ids : Share(row)[id] = 0
    BY <1>2, <2>1, ShareOfRow DEF NoRow
  <2> QED BY <2>1, <2>2, SumZero, IdsFinite, ReservedIsSumOfShares, ReservedIsOf
<1>6. RoomIsKept
  BY <1>3, <1>5, RefundsAssumption DEF RoomIsKept
<1> QED BY <1>1, <1>4, <1>6 DEF Kept

\* A step that keeps the lock, and in which no row comes to reserve anything
\* that did not, or says so.
LEMMA RoomStays ==
  ASSUME Kept, RInv', lock' = lock, surprised => surprised',
         \A id \in Ids : ~surprised' /\ row'[id].status \in Reserving =>
           row[id].status \in Reserving /\ row'[id].amount = row[id].amount
  PROVE  RoomIsKept'
<1> SUFFICES ASSUME ~surprised' PROVE /\ lock' # NoLock => row'[lock'.key].status \notin Reserving
                                      /\ Reserved' + lock'.amount <= Total
  BY DEF RoomIsKept
<1>1. /\ row \in [Ids -> Row] /\ lock.amount \in Nat /\ Reserved \in Nat
      /\ lock # NoLock => lock.key \in Ids
  BY KeptTypes DEF Kept
<1>2. row' \in [Ids -> Row]
  BY DEF RInv, Known, RefundsTypeOK
<1>3. /\ lock # NoLock => row[lock.key].status \notin Reserving
      /\ Reserved + lock.amount <= Total
  BY DEF Kept, RoomIsKept
<1>4. ReservedOf(row') <= ReservedOf(row)
  BY <1>1, <1>2, NoMoreReserved
<1>5. Reserved' <= Reserved /\ Reserved' \in Nat
  BY <1>2, <1>4, ReservedIsOf, ReservedIsNat
<1>6. Reserved' + lock'.amount <= Total
  BY <1>1, <1>3, <1>5, RefundsAssumption
<1> QED BY <1>1, <1>3, <1>6

\* syncStripeRefund writes the amount the row has, and admits it when the row
\* did not reserve it.
LEMMA SyncKeeps ==
  ASSUME Kept, RInv', NEW id \in Ids, NEW status \in StripeStatus, Sync(id, status),
         stripe[id] # NoRefund, lock' = lock, stripe' = stripe
  PROVE  Kept'
<1>1. row \in [Ids -> Row] /\ stripe \in [Ids -> StripeRefund]
  BY DEF Kept, RInv, Known, RefundsTypeOK
<1>2. id \in Requests => row[id].status # "none"
  BY DEF Kept, RInv, Known, RequestHasRow
<1>3. CASE ~(row[id].status # "none" \/ intent)
  <2>1. row' = row /\ surprised' = surprised
    BY <1>3 DEF Sync
  <2>2. AmountsAgree'
    BY <2>1 DEF Kept, AmountsAgree
  <2>3. RoomIsKept'
    BY <2>1, RoomStays
  <2> QED BY <2>2, <2>3 DEF Kept
<1>4. CASE row[id].status # "none" \/ intent
  <2>1. /\ row' = [row EXCEPT ![id] = [status |-> status, linked |-> TRUE,
                                      amount |-> stripe[id].amount]]
        /\ surprised' = (\/ surprised
                         \/ status \in Reserving /\ row[id].status \notin Reserving)
    BY <1>4 DEF Sync
  <2>2. /\ row'[id].status = status /\ row'[id].amount = stripe[id].amount
        /\ \A other \in Ids : other # id => row'[other] = row[other]
    BY <1>1, <2>1
  <2>3. row[id].status # "none" => row[id].amount = stripe[id].amount
    BY DEF Kept, AmountsAgree
  <2>4. AmountsAgree'
    <3>1. \A k \in Requests : stripe'[k] # NoRefund => row'[k].amount = stripe'[k].amount
      BY <2>2 DEF Kept, AmountsAgree
    <3>2. ASSUME lock' # NoLock, row'[lock'.key].status # "none"
          PROVE  lock'.amount = row'[lock'.key].amount
      <4>1. lock.key \in Requests /\ lock.key \in Ids
        BY <3>2, KeptTypes DEF Kept
      <4>2. CASE lock.key = id
        BY <3>2, <4>1, <4>2, <1>2, <2>2, <2>3 DEF Kept, AmountsAgree
      <4>3. CASE lock.key # id
        BY <3>2, <4>1, <4>3, <2>2 DEF Kept, AmountsAgree
      <4> QED BY <4>2, <4>3
    <3>3. \A d \in Dashboard : row'[d].status # "none" =>
            stripe'[d] # NoRefund /\ row'[d].amount = stripe'[d].amount
      BY <2>2 DEF Kept, AmountsAgree
    <3> QED BY <3>1, <3>2, <3>3 DEF AmountsAgree
  <2>5. RoomIsKept'
    <3>1. ASSUME NEW other \in Ids, ~surprised', row'[other].status \in Reserving
          PROVE  row[other].status \in Reserving /\ row'[other].amount = row[other].amount
      <4>1. CASE other = id
        <5>1. row[id].status \in Reserving
          BY <2>1, <2>2, <3>1, <4>1
        <5> QED BY <2>2, <2>3, <4>1, <5>1
      <4>2. CASE other # id
        BY <2>2, <3>1, <4>2
      <4> QED BY <4>1, <4>2
    <3>2. surprised => surprised'
      BY <2>1
    <3> QED BY <3>1, <3>2, RoomStays
  <2> QED BY <2>4, <2>5 DEF Kept
<1> QED BY <1>3, <1>4

\* Steps that write neither rows nor the lock.
LEMMA BooksStay ==
  ASSUME Kept, RInv', row' = row, lock' = lock, surprised' = surprised,
         \A id \in Ids : stripe[id] # NoRefund =>
           stripe'[id] # NoRefund /\ stripe'[id].amount = stripe[id].amount,
         \A k \in Requests : stripe[k] = NoRefund /\ stripe'[k] # NoRefund =>
           stripe'[k].amount = row[k].amount
  PROVE  Kept'
<1>1. RoomIsKept'
  BY RoomStays
<1>2. \A k \in Requests : stripe'[k] # NoRefund => row'[k].amount = stripe'[k].amount
  BY DEF Kept, AmountsAgree
<1>3. \A d \in Dashboard : row'[d].status # "none" =>
        stripe'[d] # NoRefund /\ row'[d].amount = stripe'[d].amount
  BY DEF Kept, AmountsAgree
<1>4. lock' # NoLock /\ row'[lock'.key].status # "none" => lock'.amount = row'[lock'.key].amount
  BY DEF Kept, AmountsAgree
<1> QED BY <1>1, <1>2, <1>3, <1>4 DEF Kept, AmountsAgree

LEMMA CreateAsks ==
  ASSUME RInv, NEW id \in Ids, NEW amount, Create(id, amount)
  PROVE  /\ stripe'[id].amount = amount
         /\ stripe[id] = NoRefund
         /\ \A other \in Ids : other # id => stripe'[other] = stripe[other]
<1>1. stripe \in [Ids -> StripeRefund]
  BY DEF RInv, Known, RefundsTypeOK
<1>2. PICK status \in Reserving :
        stripe' = [stripe EXCEPT ![id] = [status |-> status, first |-> status,
                                          amount |-> amount]]
  BY DEF Create
<1> QED BY <1>1, <1>2 DEF Create

LEMMA KeptIsInductive == Kept /\ [Next]_vars => Kept'
<1> SUFFICES ASSUME Kept, [Next]_vars PROVE Kept'
  OBVIOUS
<1>i. RInv'
  BY RInvIsInductive DEF Kept
<1>t. /\ row \in [Ids -> Row] /\ row' \in [Ids -> Row] /\ stripe \in [Ids -> StripeRefund]
      /\ lock.amount \in Nat /\ Reserved \in Nat
      /\ lock # NoLock => lock.key \in Requests /\ lock.key \in Ids
  BY <1>i, KeptTypes DEF Kept, RInv, Known, RefundsTypeOK
<1>1. ASSUME NEW k \in Requests, Prepare(k) PROVE Kept'
  <2>1. row' = row /\ stripe' = stripe /\ surprised' = surprised /\ MayPrepare(k)
    BY <1>1 DEF Prepare, stripeVars, history
  <2>2. PICK asked \in Amounts \cup {Refundable} :
          LET amount == IF row[k].status = "none" THEN asked ELSE row[k].amount
          IN  /\ amount \in 1..Total
              /\ Reserved + amount <= Total
              /\ lock' = [key |-> k, amount |-> amount]
    BY <1>1 DEF Prepare
  <2>3. /\ Reserved + lock'.amount <= Total /\ lock'.key = k
        /\ row[k].status # "none" => lock'.amount = row[k].amount
    BY <2>2
  <2>4. AmountsAgree'
    BY <2>1, <2>3 DEF Kept, AmountsAgree
  <2>5. RoomIsKept'
    <3>1. row[k].status \notin Reserving
      BY <2>1 DEF MayPrepare
    <3>2. Reserved' = Reserved
      BY <2>1, ReservedIsOf
    <3> QED BY <2>1, <2>3, <3>1, <3>2 DEF RoomIsKept
  <2> QED BY <1>i, <2>4, <2>5 DEF Kept
<1>2. CASE Reserve
  <2> DEFINE k == lock.key
  <2>1. k \in Requests /\ k \in Ids /\ lock # NoLock
    BY <1>2, <1>t DEF Reserve
  <2>2. /\ row' = [row EXCEPT ![k].status = "pending", ![k].amount = lock.amount]
        /\ stripe' = stripe /\ surprised' = surprised /\ lock' = NoLock
    BY <1>2 DEF Reserve, history
  <2>3. /\ row'[k].status = "pending" /\ row'[k].amount = lock.amount
        /\ \A id \in Ids : id # k => row'[id] = row[id]
    <3>1. row' = [row EXCEPT ![k] = [row[k] EXCEPT !.status = "pending",
                                                   !.amount = lock.amount]]
      BY <1>2 DEF Reserve
    <3>2. row[k] \in Row
      BY <1>t, <2>1
    <3> QED BY <1>t, <2>1, <3>1, <3>2 DEF Row
  <2> HIDE DEF k
  <2>4. AmountsAgree'
    <3>1. k \notin Dashboard
      BY <2>1, RefundsAssumption
    <3>2. stripe[k] # NoRefund => lock.amount = stripe[k].amount
      BY <2>1 DEF Kept, AmountsAgree, RInv, Known, RequestHasRow, k
    <3> QED BY <2>1, <2>2, <2>3, <3>1, <3>2 DEF Kept, AmountsAgree
  <2>5. RoomIsKept'
    <3>1. CASE surprised
      BY <2>2, <3>1 DEF RoomIsKept
    <3>2. CASE ~surprised
      <4>1. row[k].status \notin Reserving /\ Reserved + lock.amount <= Total
        BY <2>1, <3>2 DEF Kept, RoomIsKept, k
      <4>2. ReservedOf(row') = ReservedOf(row) + row'[k].amount
        BY <1>t, <2>1, <2>3, <4>1, OneMoreReserved
      <4>3. Reserved' <= Total
        BY <2>3, <4>1, <4>2, ReservedIsOf
      <4>4. Reserved' \in Nat
        BY <1>i, <1>t, ReservedIsNat, ReservedIsOf
      <4> QED BY <2>2, <4>3, <4>4, LockIsFree DEF RoomIsKept
    <3> QED BY <3>1, <3>2
  <2> QED BY <1>i, <2>4, <2>5 DEF Kept
<1>3. CASE Rollback \/ CancelOrder
  <2>1. row' = row /\ stripe' = stripe /\ surprised' = surprised /\ lock' = NoLock
    BY <1>3 DEF Rollback, CancelOrder, stripeVars, history
  <2>2. AmountsAgree'
    BY <2>1 DEF Kept, AmountsAgree
  <2>3. Reserved' = Reserved /\ lock'.amount = 0
    BY <2>1, ReservedIsOf, LockIsFree
  <2>4. RoomIsKept'
    BY <1>t, <2>1, <2>3, RefundsAssumption DEF Kept, RoomIsKept
  <2> QED BY <1>i, <2>2, <2>4 DEF Kept
<1>4. ASSUME NEW id \in Ids, NEW status \in StripeStatus, HandleRefundEvent(id, status)
      PROVE  Kept'
  <2>1. stripe[id] # NoRefund
    BY <1>4 DEF HandleRefundEvent, Kept, RInv, Known, ReportIsOfRefund
  <2>2. Sync(id, status) /\ lock' = lock /\ stripe' = stripe
    BY <1>4 DEF HandleRefundEvent
  <2> QED BY <1>i, <2>1, <2>2, SyncKeeps
<1>5. ASSUME NEW k \in Requests, SyncAnswer(k) PROVE Kept'
  <2>1. k \in Ids /\ stripe[k] # NoRefund
    BY <1>5 DEF SyncAnswer, Kept, RInv, Known, ReportIsOfRefund
  <2>2. stripe[k].first \in StripeStatus
    BY <2>1 DEF Kept, RInv, Known, RefundIsWhole
  <2>3. Sync(k, stripe[k].first) /\ lock' = lock /\ stripe' = stripe
    BY <1>5 DEF SyncAnswer, stripeVars
  <2> QED BY <1>i, <2>1, <2>2, <2>3, SyncKeeps
<1>6. ASSUME NEW k \in Requests, GiveUp(k) \/ Die(k) PROVE Kept'
  <2>1. UNCHANGED <<row, lock, stripe, surprised>>
    BY <1>6 DEF GiveUp, Die, bookVars, stripeVars, history
  <2> QED BY <1>i, <2>1, BooksStay
<1>7. ASSUME NEW k \in Requests, MarkRefundFailed(k) PROVE Kept'
  <2>1. UNCHANGED <<lock, stripe, surprised>>
    BY <1>7 DEF MarkRefundFailed, stripeVars, history
  <2>2. \A id \in Ids : /\ row'[id].amount = row[id].amount
                        /\ row'[id].status # "none" => row[id].status # "none"
                        /\ row'[id].status \in Reserving => row[id].status \in Reserving
    <3>1. CASE row[k].status = "pending" /\ ~row[k].linked
      <4>1. row' = [row EXCEPT ![k] = [row[k] EXCEPT !.status = "failed"]] /\ k \in Ids
        BY <1>7, <3>1 DEF MarkRefundFailed
      <4>2. row[k] \in Row
        BY <1>t, <4>1
      <4> QED BY <1>t, <3>1, <4>1, <4>2 DEF Row
    <3>2. CASE ~(row[k].status = "pending" /\ ~row[k].linked)
      BY <1>7, <3>2 DEF MarkRefundFailed
    <3> QED BY <3>1, <3>2
  <2>3. AmountsAgree'
    BY <1>t, <2>1, <2>2 DEF Kept, AmountsAgree
  <2>4. RoomIsKept'
    BY <1>i, <2>1, <2>2, RoomStays
  <2> QED BY <1>i, <2>3, <2>4 DEF Kept
<1>8. ASSUME NEW k \in Requests, StripeRefunds(k) PROVE Kept'
  <2>1. UNCHANGED <<row, lock, surprised>> /\ Create(k, row[k].amount) /\ k \in Ids
    BY <1>8 DEF StripeRefunds, Answer, bookVars, history
  <2>2. /\ stripe'[k].amount = row[k].amount
        /\ stripe[k] = NoRefund
        /\ \A other \in Ids : other # k => stripe'[other] = stripe[other]
    BY <2>1, CreateAsks DEF Kept
  <2> QED BY <1>i, <2>1, <2>2, BooksStay
<1>9. ASSUME NEW k \in Requests, StripeRepeats(k) \/ StripeRefuses(k) PROVE Kept'
  <2>1. UNCHANGED <<row, lock, stripe, surprised>>
    BY <1>9 DEF StripeRepeats, StripeRefuses, Answer, bookVars, history
  <2> QED BY <1>i, <2>1, BooksStay
<1>10. ASSUME NEW id \in Dashboard, RefundInDashboard(id) PROVE Kept'
  <2>1. PICK amount \in Amounts : Create(id, amount)
    BY <1>10 DEF RefundInDashboard
  <2>2. UNCHANGED <<row, lock, surprised>> /\ id \in Ids /\ id \notin Requests
    BY <1>10, RefundsAssumption DEF RefundInDashboard, bookVars, history
  <2>3. /\ stripe[id] = NoRefund
        /\ \A other \in Ids : other # id => stripe'[other] = stripe[other]
    BY <2>1, <2>2, CreateAsks DEF Kept
  <2> QED BY <1>i, <2>2, <2>3, BooksStay
<1>11. ASSUME NEW id \in Ids, NEW status \in StripeStatus, StripeSettles(id, status)
       PROVE  Kept'
  <2>1. stripe[id].status # "none" /\ UNCHANGED <<row, lock, surprised>>
    BY <1>11 DEF StripeSettles, bookVars, history
  <2>2. stripe' = [stripe EXCEPT ![id] = [stripe[id] EXCEPT !.status = status]]
    BY <1>11 DEF StripeSettles
  <2>3. stripe[id] # NoRefund /\ stripe[id] \in StripeRefund
    BY <1>t, <2>1 DEF NoRefund
  <2>4. /\ stripe'[id].amount = stripe[id].amount /\ stripe'[id].status = status
        /\ \A other \in Ids : other # id => stripe'[other] = stripe[other]
    BY <1>t, <2>2, <2>3 DEF StripeRefund
  <2>5. stripe'[id] # NoRefund
    BY <2>4 DEF NoRefund
  <2> QED BY <1>i, <2>1, <2>3, <2>4, <2>5, BooksStay
<1>12. CASE UNCHANGED vars
  <2>1. UNCHANGED <<row, lock, stripe, surprised>>
    BY <1>12 DEF vars
  <2> QED BY <1>i, <2>1, BooksStay
<1> QED
  BY <1>1, <1>2, <1>3, <1>4, <1>5, <1>6, <1>7, <1>8, <1>9, <1>10, <1>11, <1>12
  DEF Next, Request, External

-----------------------------------------------------------------------------
(* Theorems.                                                               *)

\* The inductive invariant of a refund's row, its request, Stripe and the events,
\* for any number of refunds of the order.
THEOREM RefundsInvariant == Spec => []RInv
  BY RInvHoldsInitially, RInvIsInductive, PTL DEF Spec

\* The state of the service, of Stripe and of the events has its type.
THEOREM RefundsTypeCorrect == Spec => []RefundsTypeOK
<1>1. RInv => RefundsTypeOK
  BY DEF RInv, Known
<1> QED
  BY <1>1, RefundsInvariant, PTL

\* Only Stripe makes a refund fail that it knows of: the timeout of a request
\* never hides what an event reported (markRefundFailedAfterStripeError).
THEOREM LinkedRefundsFailAtStripe == Spec => []FailureOfLinkedRefundIsStripes
<1>1. RInv => FailureOfLinkedRefundIsStripes
  BY DEF RInv
<1> QED
  BY <1>1, RefundsInvariant, PTL

\* Money that Stripe gives back is reserved in the rows or an event of it is
\* still to be handled, whatever the order of events, answers and timeouts
\* (syncStripeRefund).
THEOREM RefundsAreNeverSilent == Spec => []NoSilentRefund
<1>1. RInv => NoSilentRefund
  <2> SUFFICES ASSUME RInv, NEW id \in Ids, stripe[id].status \in Reserving
               PROVE  \/ row[id].status \in Reserving
                      \/ \E status \in Reserving : <<id, status>> \in events
                      \/ id \in dropped
    BY DEF NoSilentRefund
  <2>1. CASE row[id].linked
    <3>1. row[id].status # "none" /\ row[id].status # "failed"
      BY <2>1 DEF RInv, LinkedRowExists, FailureOfLinkedRefundIsStripes
    <3>2. row[id].status \in StripeStatus \cup {"none"}
      BY DEF RInv, Known, RefundsTypeOK, Row
    <3> QED
      BY <3>1, <3>2
  <2>2. CASE ~row[id].linked
    BY <2>2 DEF RInv, UnlinkedIsUnread
  <2> QED
    BY <2>1, <2>2
<1> QED
  BY <1>1, RefundsInvariant, PTL

\* Requests that race for one order never reserve more than the customer paid,
\* whatever is answered, timed out, repeated or reported, as long as Stripe does
\* not report money the rows did not count (prepareRefundRequest).
THEOREM RequestsStayWithinPayment == Spec => []ReservedWithinPayment
<1>1. Kept => ReservedWithinPayment
  <2> SUFFICES ASSUME Kept, ~surprised PROVE Reserved <= Total
    BY DEF ReservedWithinPayment
  <2>1. lock.amount \in Nat /\ Reserved \in Nat
    BY KeptTypes DEF Kept
  <2>2. Reserved + lock.amount <= Total
    BY DEF Kept, RoomIsKept
  <2> QED BY <2>1, <2>2, RefundsAssumption
<1> QED
  BY <1>1, KeptInitially, KeptIsInductive, PTL DEF Spec
-----------------------------------------------------------------------------
(* What is left of ReservationIsSettled without time.                      *)

\* An amount reserved for a request that Stripe has not answered has somebody
\* who will settle it: the request itself, unless its process died.
ReservationHasRequest ==
  \A k \in Requests : row[k].status = "pending" /\ ~row[k].linked =>
    call[k] # "idle" \/ k \in lost

\* A sync links the row it writes; the row of a request always exists by then.
LEMMA SyncSettles ==
  ASSUME RInv, ReservationHasRequest, NEW id \in Ids, NEW status \in StripeStatus,
         Sync(id, status), id \in Requests => row[id].status # "none",
         \A k \in Requests : k # id => call'[k] = call[k],
         lost' = lost
  PROVE  ReservationHasRequest'
<1>1. /\ \A other \in Ids : other # id => row'[other] = row[other]
      /\ id \in Requests => row'[id].linked
  <2>1. row \in [Ids -> Row]
    BY DEF RInv, Known, RefundsTypeOK
  <2>2. id \in Requests => row' = [row EXCEPT ![id] =
          [status |-> status, linked |-> TRUE, amount |-> stripe[id].amount]]
    BY DEF Sync
  <2> QED
    BY <2>1, <2>2, SyncWrites DEF RInv
<1> QED
  BY <1>1 DEF ReservationHasRequest

LEMMA ReservationHasRequestStays ==
  RInv /\ ReservationHasRequest /\ [Next]_vars => ReservationHasRequest'
<1> SUFFICES ASSUME RInv, ReservationHasRequest, [Next]_vars
             PROVE  ReservationHasRequest'
  OBVIOUS
<1>t. /\ row \in [Ids -> Row] /\ lost \subseteq Requests
      /\ call \in [Requests -> {"idle", "sent", "answered", "error"}]
  BY DEF RInv, Known, RefundsTypeOK
<1>1. CASE Reserve
  <2> DEFINE k == lock.key
  <2>1. k \in Requests
    BY <1>1, RefundsAssumption DEF Reserve, RInv, Known, RefundsTypeOK
  <2>2. /\ call' = [call EXCEPT ![k] = "sent"] /\ lost' = lost
        /\ \A id \in Ids : id # k => row'[id] = row[id]
    BY <1>t, <1>1 DEF Reserve, history
  <2> QED
    BY <1>t, <2>1, <2>2 DEF ReservationHasRequest
<1>2. ASSUME NEW k \in Requests, SyncAnswer(k)
      PROVE  ReservationHasRequest'
  <2>1. stripe[k].first \in StripeStatus /\ row[k].status # "none"
    BY <1>2 DEF SyncAnswer, RInv, Known, RefundIsWhole, RequestHasRow, ReportIsOfRefund
  <2>2. lost' = lost /\ \A j \in Requests : j # k => call'[j] = call[j]
    BY <1>t, <1>2 DEF SyncAnswer
  <2> QED
    BY <1>2, <2>1, <2>2, SyncSettles DEF SyncAnswer
<1>3. ASSUME NEW id \in Ids, NEW status \in StripeStatus,
             HandleRefundEvent(id, status)
      PROVE  ReservationHasRequest'
  <2>1. id \in Requests => row[id].status # "none"
    BY <1>3 DEF HandleRefundEvent, RInv, Known, RequestHasRow, ReportIsOfRefund
  <2> QED
    BY <1>3, <2>1, SyncSettles DEF HandleRefundEvent
<1>4. ASSUME NEW k \in Requests, MarkRefundFailed(k)
      PROVE  ReservationHasRequest'
  <2>1. /\ \A id \in Ids : id # k => row'[id] = row[id]
        /\ ~(row'[k].status = "pending" /\ ~row'[k].linked)
    BY <1>t, <1>4 DEF MarkRefundFailed, Row
  <2> QED
    BY <1>t, <1>4, <2>1 DEF MarkRefundFailed, ReservationHasRequest, history
<1>5. ASSUME NEW k \in Requests, GiveUp(k) \/ Die(k)
      PROVE  ReservationHasRequest'
  BY <1>t, <1>5 DEF GiveUp, Die, ReservationHasRequest, bookVars, history
<1>6. ASSUME NEW k \in Requests, NEW result \in {"answered", "error"},
             Answer(k, result)
      PROVE  ReservationHasRequest'
  BY <1>t, <1>6 DEF Answer, ReservationHasRequest, bookVars, history
<1>7. ASSUME NEW k \in Requests, StripeRefunds(k) \/ StripeRepeats(k) \/ StripeRefuses(k)
      PROVE  ReservationHasRequest'
  BY <1>6, <1>7 DEF StripeRefunds, StripeRepeats, StripeRefuses
<1>8. CASE row' = row /\ call' = call /\ lost' = lost
  BY <1>8 DEF ReservationHasRequest
<1>9. ASSUME NEW k \in Requests, Prepare(k)
      PROVE  ReservationHasRequest'
  BY <1>8, <1>9 DEF Prepare, history
<1>10. CASE Rollback \/ CancelOrder \/ UNCHANGED vars
  BY <1>8, <1>10 DEF Rollback, CancelOrder, vars, history
<1>11. ASSUME NEW id \in Ids, NEW status \in StripeStatus,
              StripeSettles(id, status) \/ RefundInDashboard(id)
       PROVE  ReservationHasRequest'
  BY <1>8, <1>11 DEF StripeSettles, RefundInDashboard, bookVars, history
<1> QED
  BY <1>1, <1>2, <1>3, <1>4, <1>5, <1>7, <1>9, <1>10, <1>11
  DEF Next, Request, External

\* createStripeRefund never leaves a reserved amount to nobody: as long as Stripe's
\* answer is not in the row, the request that reserved it is under way and will
\* write the answer or mark the row, unless its process died.
THEOREM ReservationsHaveRequests == Spec => []ReservationHasRequest
<1>1. Init => ReservationHasRequest
  BY DEF Init, ReservationHasRequest, NoRow
<1> QED
  BY <1>1, ReservationHasRequestStays, RefundsInvariant, PTL DEF Spec
=============================================================================
