SPECIFICATION Spec
CONSTANTS
  i1 = i1
  i2 = i2
  r1 = r1
  r2 = r2
  Items <- TwoItems
  Requests <- TwoRequests
  Values <- ZeroOrOne
SYMMETRY AnyNames
INVARIANTS
  TypeOK
  PriceIsProduct
  TotalFollows
  ValueFollows
CHECK_DEADLOCK FALSE
