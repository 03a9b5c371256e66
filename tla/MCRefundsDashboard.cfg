\* A request races a refund made in Stripe's dashboard; the order may be one that
\* does not know its payment intent.
SPECIFICATION Spec
CONSTANTS
  Requests = {r1}
  Dashboard = {d1}
  NoRequest = NoRequest
  Amounts = {1, 2, 3}
  Total = 2
  Intents <- AnyIntent
  MaxEvents = 2
INVARIANT NoSilentRefund
PROPERTY ReservationIsSettled
CHECK_DEADLOCK FALSE
