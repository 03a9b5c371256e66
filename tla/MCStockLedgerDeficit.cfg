\* The smallest instance with an order, a dated lot and a second day.
SPECIFICATION Spec
CONSTANTS
  a1 = a1
  m1 = m1
  Articles = {a1}
  Matieres = {m1}
  Nomenclature <- OneForOne
  Orders = {o1}
  NoArticle = NoArticle
  MaxQuantity = 1
  MaxStock = 1
  MaxLots = 1
  LastDay = 1
PROPERTIES NegativeStockIsPreorderDeficit
CHECK_DEADLOCK FALSE
