SPECIFICATION MCSpec
CONSTANTS
  o1 = o1
  o2 = o2
  o3 = o3
  o4 = o4
  r1 = r1
  r2 = r2
  r3 = r3
  u1 = u1
  d1 = d1
  d2 = d2
  Users = {u1, d1, d2}
  Orders = {o1, o2, o3, o4}
  Restaurants = {r1, r2, r3}
  Drivers = {d1, d2}
  NoDriver = noDriver
  NoHolder = noHolder
  RestaurantOf <- MCRestaurantOf
  OwnerOf <- MCOwnerOf
  OwnerShare <- MCOwnerShare
  DriverShare <- MCDriverShare
  Total <- MCTotal
  LabelOf <- MCLabelOf
  Refs <- MCRefs
  NoRef = noRef
  TxTypes = {"order_earning", "delivery_earning"}
  Amounts = {0, 1, 2}
  MaxBalance = 3
  Tasks = {t1, t2}
  MaxSettlements = 3
  CashOrders = {o1, o2, o3, o4}
  Pickups = {o2, o3, o4}
  CashAmounts = {1, 2}
  Admins = {a1, a2}
  MaxCollections = 3
INVARIANTS
  TypeOK
  SettlementInv
  CollectionsBounded
  SummaryWithinBalance
PROPERTIES
  EarningsOnce
  DeliveredIsPaid
CHECK_DEADLOCK FALSE
