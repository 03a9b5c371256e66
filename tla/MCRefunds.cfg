\* Two requests for a part, for the whole, or for more than was paid.
SPECIFICATION Spec
CONSTANTS
  Requests = {r1, r2}
  Dashboard = {}
  NoRequest = NoRequest
  Amounts = {1, 2, 3}
  Total = 2
  Intents <- KnownIntent
  MaxEvents = 3
SYMMETRY Symmetry
INVARIANTS FailureOfLinkedRefundIsStripes ReservedWithinPayment
  NoSilentRefund
\* Every refund can be settled and the order cancelled.
CHECK_DEADLOCK FALSE
