SPECIFICATION PayFairSpec
CONSTANTS
  p1 = p1
  p2 = p2
  c1 = c1
  a1 = a1
  f1 = f1
  f2 = f2
  h1 = h1
  o1 = o1
  o2 = o2
  NoOrder = NoOrder
  Orders = {o1}
  Requests = {p1, c1, f1, h1}
  StrictPopulate = FALSE
  Kind <- MCKind
  PlacedUnits <- MCUnits
PROPERTIES
  TransactionsSettle
  ApprovalIsResolved
  ClosedOrderIsNotCharged
