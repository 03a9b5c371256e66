\* A session to expire, one to review, one without an order; two instances that
\* may claim two cases at a time.
SPECIFICATION Spec
CONSTANTS
  Cases = {c1, c2, c3}
  Expiring = {c1}
  Unmatched = {c3}
  Workers = {w1, w2}
  NoCase = NoCase
  NoWorker = NoWorker
  MaxAttempts = 2
  BatchSize = 2
  MaxDisturbances = 1
PROPERTIES AttemptsNeverSetBack DecisionsStand OnlyExpiredSessionsResolve
  EveryCaseIsDecided
\* Every case may be resolved and every session ended.
CHECK_DEADLOCK FALSE
