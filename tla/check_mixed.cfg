SPECIFICATION CheckSpec
CONSTANTS
  i1 = i1
  i2 = i2
  k1 = k1
  k2 = k2
  b1 = b1
  u1 = u1
  x1 = x1
  p1 = p1
  a1 = a1
  f1 = f1
  f2 = f2
  h1 = h1
  o1 = o1
  o2 = o2
  o3 = o3
  o4 = o4
  t1 = t1
  t2 = t2
  w1 = w1
  w2 = w2
  w3 = w3
  NoOrder = NoOrder
  NoType = NoType
  Orders = {o1, o2}
  Requests = {i1, k1, p1, a1}
  Types = {t1}
  Rows = {w1}
  StrictPopulate = TRUE
  MaxQuantity = 2
  Kind <- MCKind
  PlacedUnits <- MCUnits
  PlacedRows <- MCSingleRows
  TypeOf <- MCTypeOf
  Stock <- MCStock
SYMMETRY MCSymmetry
INVARIANTS
  PaidOrderWasCharged
PROPERTIES
  CheckoutImplementsLedger
