\* One order, one cleanup run and a customer: no fault is needed.
SPECIFICATION Spec
CONSTANTS
  Orders = {o1}
  LegacyOrders = {}
  Handlers = {h1}
  Cleaners = {c1}
  NoOrder = NoOrder
  MaxFaults = 0
INVARIANTS RacedPaymentIsReported
CHECK_DEADLOCK FALSE
