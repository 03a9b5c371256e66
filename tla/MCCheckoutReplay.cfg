SPECIFICATION Spec
CONSTANTS
  Orders = {o1}
  LegacyOrders = {}
  Handlers = {h1}
  Cleaners = {c1}
  NoOrder = NoOrder
  MaxFaults = 1
INVARIANTS ReplayIsIdempotent
CHECK_DEADLOCK FALSE
