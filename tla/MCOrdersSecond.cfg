SPECIFICATION Spec
CONSTANTS
  Users = {u1}
  Tasks = {t1, t2}
  OrderIds = {o1, o2}
  NoTask = noTask
  NoRef = noRef
  Refs <- MCRefs
  TxTypes = {"topup", "order_payment", "order_refund"}
  Amounts = {1}
  MaxBalance = 3
  TopUps = {1}
  MaxPostings = 2
SYMMETRY Symmetry
INVARIANTS
  NewPaymentsAreAccepted
