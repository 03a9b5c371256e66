SPECIFICATION FairSpec
CONSTANTS
  Orders = {o1}
  LegacyOrders = {}
  Handlers = {h1}
  Cleaners = {c1}
  NoOrder = NoOrder
  MaxFaults = 2
PROPERTIES PaymentSettled ExpiredSessionReleases AbandonedNotSilent
CHECK_DEADLOCK FALSE
