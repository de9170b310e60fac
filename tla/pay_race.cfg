SPECIFICATION PaySpec
CONSTANTS
  p1 = p1
  p2 = p2
  c1 = c1
  a1 = a1
  f1 = f1
  f2 = f2
  h1 = h1
  o1 = o1
  o2 = o2
  NoOrder = NoOrder
  Orders = {o1}
  Requests = {p1, p2, a1}
  StrictPopulate = TRUE
  Kind <- MCKind
  PlacedUnits <- MCUnits
INVARIANTS
  PayTypeOK
  PaidMeansCaptured
  ChargesAreRecorded
  OkMeansDelivered
  CompletedIsDelivered
  ChargeWebhookFindsNothing
PROPERTIES
  ImplementsLedger
  PaidOrderIsNotChargedAgain
