SPECIFICATION FairSpec
CONSTANTS
  Users = {u1, u2}
  Sessions = {s1, s2}
  Nobody = nobody
  NoRef = noRef
  Refs = {order1}
  TxTypes = {payment, refund}
  Amounts = {0, 2}
  MaxBalance = 4
  MaxRequests = 3
INVARIANTS
  TxInv
  LedgerExplainsBalance
  EventRecordedOnce
PROPERTIES
  WalletSpec
  FrozenStandsStill
  EveryTransactionEnds
