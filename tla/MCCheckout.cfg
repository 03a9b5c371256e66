\* One checkout and one legacy order, two overlapping webhook requests, two
\* overlapping cleanup runs, two faults.
SPECIFICATION Spec
CONSTANTS
  Orders = {o1, l1}
  LegacyOrders = {l1}
  Handlers = {h1, h2}
  Cleaners = {c1, c2}
  NoOrder = NoOrder
  MaxFaults = 2
SYMMETRY Symmetry
INVARIANTS ReleasedExactlyWhenCancelled AbandonedOnlyOnceNeutralised
  OnlyStaffCancelsPayableOrders PaymentNeverForgotten OneConfirmationEmail
  ExpiryNeverForgotten
PROPERTIES ImplementsLifecycle
\* Every order can reach the end of its life.
CHECK_DEADLOCK FALSE
