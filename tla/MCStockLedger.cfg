\* One article made of one raw material, two orders, two lots, two days.
SPECIFICATION Spec
CONSTANTS
  a1 = a1
  m1 = m1
  Articles = {a1}
  Matieres = {m1}
  Nomenclature <- OneForOne
  Orders = {o1, o2}
  NoArticle = NoArticle
  MaxQuantity = 2
  MaxStock = 2
  MaxLots = 2
  LastDay = 1
SYMMETRY Symmetry
INVARIANTS LedgerTypeOK LotsNeverOverdrawn LedgerCoversLots
PROPERTIES FirstExpiredFirstOut ExpiredOnlyLeavesAsLoss OrdersAreNeutral
\* Every order can be settled, every lot written off on the last day.
CHECK_DEADLOCK FALSE
