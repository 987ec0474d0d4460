SPECIFICATION Spec
CONSTANTS
  Users = {u1}
  Calls = {c1, c2}
  PayoutIds = {p1, p2}
  PaymentIds = {d1}
  Orders = {o1}
  NoId = noId
  NoRef = noRef
  ServiceTypes = {"order_refund"}
  ServiceRefs <- MCServiceRefs
  Refs <- MCRefs
  TxTypes <- MCTxTypes
  Amounts = {1, 2}
  MaxBalance = 3
  MaxPostings = 2
SYMMETRY Symmetry
INVARIANTS
  CallsMatchRows
  PayoutsAreFunded
  ReturnsMatchPayouts
  PaidMeansCredited
  ReturnsWithinRequests
