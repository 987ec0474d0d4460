---------------------------- MODULE OrdersProofs ----------------------------
(***************************************************************************)
(* Orders and their money, for any number of customers, orders, handlers   *)
(* and requests on their way: wallet orders are paid for, refunds are owed *)
(* and stay within what was paid.                                          *)
(***************************************************************************)
EXTENDS Orders, WalletProofs, FiniteSetTheorems, FunctionTheorems

USE OrdersAssumption DEF history

LEMMA SubsetCounts ==
  ASSUME NEW S, IsFiniteSet(S), NEW T, T \subseteq S
  PROVE  IsFiniteSet(T) /\ Cardinality(T) \in Nat
<1>1. IsFiniteSet(T)
  BY FS_Subset
<1> QED
  BY <1>1, FS_CardinalityType

\* A larger set of ledger rows counts more.
LEMMA LargerCounts ==
  ASSUME NEW S, IsFiniteSet(S), NEW T, T \subseteq S
  PROVE  Cardinality(T) <= Cardinality(S)
BY FS_Subset

\* The sets that are counted are finite.
LEMMA OrdersCount ==
  ASSUME NEW T, T \subseteq OrderIds \/ T \subseteq Tasks
  PROVE  IsFiniteSet(T) /\ Cardinality(T) \in Nat
BY SubsetCounts

LEMMA RowsCount ==
  ASSUME NEW n \in Nat, NEW T, T \subseteq 1..n
  PROVE  IsFiniteSet(T) /\ Cardinality(T) \in Nat
<1>1. IsFiniteSet(1..n)
  BY FS_Interval
<1> QED
  BY <1>1, SubsetCounts
-----------------------------------------------------------------------------
\* What pc says of a handler.
LEMMA PcTells ==
  ASSUME NEW k \in Creation \cup Update \cup {Idle}
  PROVE  /\ k.pc \in {"debit", "insert"} <=> k \in Creation
         /\ k.pc \in {"write", "after"} <=> k \in Update
         /\ k.pc = "idle" <=> k = Idle
<1>1. CASE k \in Creation
  BY <1>1 DEF Creation, Update, Idle
<1>2. CASE k \in Update
  BY <1>2 DEF Creation, Update, Idle
<1>3. CASE k = Idle
  BY <1>3 DEF Creation, Update, Idle
<1> QED
  BY <1>1, <1>2, <1>3

LEMMA CreationGoesOn ==
  ASSUME NEW k \in Creation
  PROVE  [k EXCEPT !.pc = "insert"] \in Creation
BY DEF Creation

LEMMA UpdateGoesOn ==
  ASSUME NEW k \in Update
  PROVE  [k EXCEPT !.pc = "after"] \in Update
BY DEF Update

LEMMA RequestsFit ==
  /\ \A t \in Tasks, u \in Users, a \in Amounts : Payment(t, u, a) \in Request
  /\ \A u \in Users, a \in Amounts, r \in Refs : Refund(u, a, r) \in Request
  /\ \A m \in Request : [m EXCEPT !.from = NoTask] \in Request
BY DEF Payment, Refund, Request, Directions, PaymentRef

\* Every step on the tables of the ledger is a step of Wallet.
LEMMA OrdersImplementWallet == TypeOK /\ [Next]_vars => [WalletNext]_walletVars
<1> SUFFICES ASSUME TypeOK, [Next]_vars PROVE [WalletNext]_walletVars
  OBVIOUS
<1>1. ASSUME NEW m \in calls, WalletMoves(m) PROVE WalletNext
  <2>1. m \in Request
    BY DEF TypeOK
  <2>2. Move(m.user, m.direction, m.amount, m.type, m.ref)
    BY <1>1 DEF WalletMoves
  <2>3. \/ Credit(m.user, m.amount, m.type, m.ref)
        \/ Debit(m.user, m.amount, m.type, m.ref)
    BY <2>1, <2>2 DEF Credit, Debit, Request, Directions
  <2> QED
    BY <2>1, <2>3 DEF WalletNext, Request
<1>2. ASSUME NEW u \in Users, OtherWalletUse(u) PROVE WalletNext
  BY <1>2 DEF OtherWalletUse, WalletNext
<1>3. ASSUME NEW m \in calls, WalletRefuses(m) \/ CallLost(m) PROVE UNCHANGED walletVars
  BY <1>3 DEF WalletRefuses, CallLost
<1>4. ASSUME NEW t \in Tasks,
             \/ \E u \in Users, pay \in {"cash", "wallet"}, a \in Amounts :
                  CreateOrder(t, u, pay, a)
             \/ \E o \in OrderIds :
                  \/ OrderCreated(t, o) \/ CommitUnanswered(t, o)
                  \/ \E next \in Statuses : ReadForUpdate(t, o, next)
             \/ CreationFails(t) \/ WriteStatus(t) \/ Notify(t) \/ Stop(t)
      PROVE  UNCHANGED walletVars
  BY <1>4 DEF CreateOrder, OrderCreated, CommitUnanswered, ReadForUpdate, CreationFails,
              WriteStatus, Notify, Stop, walletVars
<1>5. UNCHANGED vars => UNCHANGED walletVars
  BY DEF vars, walletVars
<1> QED
  BY <1>1, <1>2, <1>3, <1>4, <1>5 DEF Next
-----------------------------------------------------------------------------
\* Types of the tables and handlers of the service itself.
OwnTypeOK ==
  /\ orders \in [OrderIds -> Order \cup {NoRow}]
  /\ tasks \in [Tasks -> Creation \cup Update \cup {Idle}]
  /\ calls \subseteq Request
  /\ doubtful \cup overtaken \cup forgone \subseteq OrderIds

LEMMA InitType == Init => TypeOK
BY WalletInitType DEF Init, TypeOK

LEMMA EndType ==
  ASSUME TypeOK, NEW t \in Tasks, End(t)
  PROVE  tasks' \in [Tasks -> Creation \cup Update \cup {Idle}]
BY DEF TypeOK, End

LEMMA RefundCreationType ==
  ASSUME TypeOK, NEW t \in Tasks, tasks[t].pc = "insert", RefundCreation(t)
  PROVE  calls' \subseteq Request
<1>1. tasks[t] \in Creation
  BY PcTells DEF TypeOK
<1>2. Refund(tasks[t].user, tasks[t].total, FailedRef(tasks[t].user)) \in Request
  BY <1>1, RequestsFit DEF Creation
<1> QED
  BY <1>2 DEF RefundCreation, TypeOK

LEMMA InsertType ==
  ASSUME TypeOK, NEW t \in Tasks, NEW o \in OrderIds, InsertOrder(t, o)
  PROVE  orders' \in [OrderIds -> Order \cup {NoRow}]
<1>1. tasks[t] \in Creation
  BY PcTells DEF TypeOK, InsertOrder
<1>2. [status |-> "pending", user |-> tasks[t].user,
       payment |-> tasks[t].payment, total |-> tasks[t].total] \in Order
  BY <1>1 DEF Creation, Order, Statuses
<1> QED
  BY <1>2 DEF InsertOrder, TypeOK

LEMMA DetachedType == ASSUME TypeOK, NEW t \in Tasks PROVE Detached(t) \subseteq Request
<1>1. \A m \in calls : m \in Request /\ [m EXCEPT !.from = NoTask] \in Request
  BY RequestsFit DEF TypeOK
<1> QED
  BY <1>1 DEF Detached

\* The steps of a handler.
LEMMA TaskType ==
  ASSUME TypeOK, NEW t \in Tasks,
         \/ \E u \in Users, pay \in {"cash", "wallet"}, a \in Amounts :
              CreateOrder(t, u, pay, a)
         \/ \E o \in OrderIds :
              \/ OrderCreated(t, o) \/ CommitUnanswered(t, o)
              \/ \E next \in Statuses : ReadForUpdate(t, o, next)
         \/ CreationFails(t) \/ WriteStatus(t) \/ Notify(t) \/ Stop(t),
         TasksFit
  PROVE  OwnTypeOK'
<1>1. ASSUME NEW u \in Users, NEW pay \in {"cash", "wallet"}, NEW a \in Amounts,
             CreateOrder(t, u, pay, a)
      PROVE  OwnTypeOK'
  <2>1. [pc |-> IF pay = "wallet" THEN "debit" ELSE "insert",
         user |-> u, payment |-> pay, total |-> a] \in Creation
    BY DEF Creation
  <2>2. Payment(t, u, a) \in Request
    BY RequestsFit
  <2> QED
    BY <1>1, <2>1, <2>2 DEF CreateOrder, OwnTypeOK, TypeOK
<1>2. ASSUME NEW o \in OrderIds, OrderCreated(t, o) PROVE OwnTypeOK'
  BY <1>2, InsertType, EndType DEF OrderCreated, OwnTypeOK, TypeOK
<1>3. ASSUME NEW o \in OrderIds, CommitUnanswered(t, o) PROVE OwnTypeOK'
  <2>1. calls' \subseteq Request
    BY <1>3, RefundCreationType DEF CommitUnanswered, InsertOrder
  <2> QED
    BY <1>3, <2>1, InsertType, EndType DEF CommitUnanswered, OwnTypeOK, TypeOK
<1>4. ASSUME NEW o \in OrderIds, NEW next \in Statuses, ReadForUpdate(t, o, next)
      PROVE  OwnTypeOK'
  <2>1. [pc |-> "write", order |-> o, next |-> next] \in Update
    BY DEF Update
  <2> QED
    BY <1>4, <2>1 DEF ReadForUpdate, OwnTypeOK, TypeOK
<1>5. ASSUME CreationFails(t) PROVE OwnTypeOK'
  BY <1>5, RefundCreationType, EndType DEF CreationFails, OwnTypeOK, TypeOK
<1>6. ASSUME WriteStatus(t), orders[tasks[t].order] # NoRow PROVE OwnTypeOK'
  <2>1. tasks[t] \in Update
    BY <1>6, PcTells DEF TypeOK, WriteStatus
  <2>2. tasks[t].order \in OrderIds /\ tasks[t].next \in Statuses
    BY <2>1 DEF Update
  <2>3. orders[tasks[t].order] \in Order
    BY <1>6, <2>2 DEF TypeOK
  <2>4. [orders[tasks[t].order] EXCEPT !.status = tasks[t].next] \in Order
    BY <2>2, <2>3 DEF Order
  <2>5. [tasks[t] EXCEPT !.pc = "after"] \in Update
    BY <2>1, UpdateGoesOn
  <2>6. overtaken' \subseteq OrderIds
    BY <1>6, <2>2 DEF WriteStatus, TypeOK
  <2> QED
    BY <1>6, <2>4, <2>5, <2>6 DEF WriteStatus, OwnTypeOK, TypeOK
<1>7. ASSUME Notify(t), orders[tasks[t].order] # NoRow PROVE OwnTypeOK'
  <2>1. tasks[t] \in Update
    BY <1>7, PcTells DEF TypeOK, Notify
  <2>2. tasks[t].order \in OrderIds /\ orders[tasks[t].order] \in Order
    BY <1>7, <2>1 DEF TypeOK, Update
  <2>3. Refund(orders[tasks[t].order].user, orders[tasks[t].order].total,
               CancelRef(tasks[t].order)) \in Request
    BY <2>2, RequestsFit DEF Order
  <2> QED
    BY <1>7, <2>3, EndType DEF Notify, OwnTypeOK, TypeOK
<1>8. ASSUME Stop(t) PROVE OwnTypeOK'
  <2>1. tasks[t].pc = "after" => tasks[t].order \in OrderIds
    BY PcTells DEF TypeOK, Update
  <2>2. forgone' \subseteq OrderIds
    BY <1>8, <2>1 DEF Stop, TypeOK
  <2> QED
    BY <1>8, <2>2, DetachedType, EndType DEF Stop, OwnTypeOK, TypeOK
<1> QED
  BY <1>1, <1>2, <1>3, <1>4, <1>5, <1>6, <1>7, <1>8
     DEF TasksFit, WriteStatus, Notify

LEMMA AnswerType ==
  ASSUME TypeOK, TasksFit, NEW m \in calls, NEW ok \in BOOLEAN, Answer(m, ok),
         forgone' \subseteq OrderIds
  PROVE  OwnTypeOK'
<1>1. CASE m.from = NoTask
  BY <1>1 DEF Answer, OwnTypeOK, TypeOK
<1>2. CASE m.from # NoTask
  <2>1. m \in Request /\ m.from \in Tasks
    BY <1>2 DEF TypeOK, Request
  <2>2. tasks[m.from] \in Creation
    BY <1>2, <2>1, PcTells DEF TasksFit, TypeOK
  <2>3. [tasks[m.from] EXCEPT !.pc = "insert"] \in Creation
    BY <2>2, CreationGoesOn
  <2> QED
    BY <1>2, <2>1, <2>3 DEF Answer, OwnTypeOK, TypeOK
<1> QED
  BY <1>1, <1>2

LEMMA OrdersNextType == TypeOK /\ TasksFit /\ [Next]_vars => TypeOK'
<1> SUFFICES ASSUME TypeOK, TasksFit, [Next]_vars PROVE TypeOK'
  OBVIOUS
<1>1. WalletTypeOK'
  BY OrdersImplementWallet, WalletNextType DEF TypeOK
<1>2. ASSUME NEW m \in calls, WalletMoves(m) \/ WalletRefuses(m) \/ CallLost(m)
      PROVE  OwnTypeOK'
  <2>1. forgone' \subseteq OrderIds
    BY <1>2 DEF WalletMoves, WalletRefuses, CallLost, RefundedBy, TypeOK
  <2> QED
    BY <1>2, <2>1, AnswerType DEF WalletMoves, WalletRefuses, CallLost
<1>3. ASSUME NEW u \in Users, OtherWalletUse(u) PROVE OwnTypeOK'
  BY <1>3 DEF OtherWalletUse, orderVars, OwnTypeOK, TypeOK
<1>4. UNCHANGED vars => OwnTypeOK'
  BY DEF vars, OwnTypeOK, TypeOK
<1>5. OwnTypeOK'
  BY <1>2, <1>3, <1>4, TaskType DEF Next
<1> QED
  BY <1>1, <1>5 DEF TypeOK, OwnTypeOK
-----------------------------------------------------------------------------
\* Orders stay, with their customer, total and payment.
OrdersGrow ==
  \A o \in OrderIds : orders[o] # NoRow =>
    /\ orders'[o] # NoRow
    /\ orders'[o].payment = orders[o].payment
    /\ orders'[o].user = orders[o].user
    /\ orders'[o].total = orders[o].total

\* A refund that is owed stays owed.
LEMMA OwedStable ==
  ASSUME OrdersGrow, NEW u, NEW a, NEW r, Owed(u, a, r),
         Rows(u, "order_payment", a) \subseteq Rows(u, "order_payment", a)'
  PROVE  Owed(u, a, r)'
<1>1. WalletOrders(u, a) \subseteq WalletOrders(u, a)'
  BY DEF OrdersGrow, WalletOrders
<1> QED
  BY <1>1 DEF Owed

\* As long as the ledger stands still, only new requests can be undue.
LEMMA RefundsStillOwed ==
  ASSUME OrdersInv, OrdersGrow, UNCHANGED ledger,
         \A m \in calls' : m.type = "order_refund" =>
           \/ Owed(m.user, m.amount, m.ref)
           \/ Owed(m.user, m.amount, m.ref)'
  PROVE  RefundsAreOwed'
<1>1. \A u, a : Rows(u, "order_payment", a) \subseteq Rows(u, "order_payment", a)'
  BY DEF Rows
<1>2. \A u, a, r : Owed(u, a, r) => Owed(u, a, r)'
  BY <1>1, OwedStable
<1> QED
  BY <1>2 DEF OrdersInv, RefundsAreOwed

\* The counts behind SpentOnce.
LEMMA CountsAreNumbers ==
  ASSUME TypeOK, NEW u \in Users, NEW a
  PROVE  /\ Cardinality(WalletOrders(u, a)) \in Nat
         /\ Cardinality(PaidCreations(u, a)) \in Nat
         /\ Cardinality(Rows(u, "order_payment", a)) \in Nat
         /\ IsFiniteSet(WalletOrders(u, a))
         /\ IsFiniteSet(PaidCreations(u, a))
         /\ IsFiniteSet(Rows(u, "order_payment", a))
<1>1. WalletOrders(u, a) \subseteq OrderIds /\ PaidCreations(u, a) \subseteq Tasks
  BY DEF WalletOrders, PaidCreations
<1>2. Len(ledger[u]) \in Nat
  BY DEF TypeOK, WalletTypeOK
<1>3. Rows(u, "order_payment", a) \subseteq 1..Len(ledger[u])
  BY DEF Rows
<1> QED
  BY <1>1, <1>2, <1>3, OrdersCount, RowsCount

\* Nothing is spent: no new order, creation or refund for u and a.
LEMMA QuietSpent ==
  ASSUME OrdersInv, TypeOK', NEW u \in Users, NEW a \in Amounts,
         WalletOrders(u, a)' = WalletOrders(u, a),
         PaidCreations(u, a)' \subseteq PaidCreations(u, a),
         doubtful \subseteq doubtful', Issued(u, a)' => Issued(u, a),
         Rows(u, "order_payment", a) \subseteq Rows(u, "order_payment", a)'
  PROVE  SpentOnce(u, a)'
<1>1. SpentOnce(u, a)
  BY DEF OrdersInv
<1>2. Cardinality(PaidCreations(u, a)') <= Cardinality(PaidCreations(u, a))
  BY CountsAreNumbers, LargerCounts DEF OrdersInv
<1>3. /\ IsFiniteSet(Rows(u, "order_payment", a)')
      /\ Cardinality(Rows(u, "order_payment", a)') \in Nat
      /\ Cardinality(PaidCreations(u, a)') \in Nat
  <2>1. Len(ledger'[u]) \in Nat
    BY DEF TypeOK, WalletTypeOK
  <2>2. Rows(u, "order_payment", a)' \subseteq 1..Len(ledger'[u])
    BY DEF Rows
  <2>3. PaidCreations(u, a)' \subseteq Tasks
    BY DEF PaidCreations
  <2> QED
    BY <2>1, <2>2, <2>3, OrdersCount, RowsCount
<1>4. Cardinality(Rows(u, "order_payment", a)) <= Cardinality(Rows(u, "order_payment", a)')
  BY <1>3, LargerCounts
<1> QED
  BY <1>1, <1>2, <1>3, <1>4, CountsAreNumbers DEF OrdersInv, SpentOnce
-----------------------------------------------------------------------------
Kept == TasksFit' /\ RefundsAreOwed' /\ \A u \in Users, a \in Amounts : SpentOnce(u, a)'

\* A step of one handler, which has no order in hand and spends nothing.
LEMMA HandlerStep ==
  ASSUME OrdersInv, TypeOK', OrdersGrow, UNCHANGED <<ledger, doubtful>>,
         \A u, a : WalletOrders(u, a)' = WalletOrders(u, a),
         NEW t \in Tasks, NEW k, tasks' = [tasks EXCEPT ![t] = k],
         k.pc = "insert" => k.payment = "cash",
         k.pc = "debit" => k.payment = "wallet",
         k.pc \in {"write", "after"} => orders'[k.order] # NoRow,
         \A m \in calls' :
           /\ m.from = t => k.pc = "debit" /\ m = Payment(t, k.user, k.total)
           /\ m.from # t /\ m.from # NoTask => m \in calls
           /\ m.type = "order_refund" =>
                \/ \E c \in calls : /\ c.type = m.type /\ c.user = m.user
                                    /\ c.amount = m.amount /\ c.ref = m.ref
                \/ \E o \in WalletOrders(m.user, m.amount) : m.ref = CancelRef(o)
  PROVE  Kept
<1>1. tasks'[t] = k /\ \A s \in Tasks : s # t => tasks'[s] = tasks[s]
  BY DEF OrdersInv, TypeOK
<1>2. TasksFit'
  <2>1. \A m \in calls' : m.from # NoTask => m.from \in Tasks
    BY DEF TypeOK, Request
  <2>2. \A s \in Tasks : s # t /\ tasks[s].pc \in {"write", "after"} =>
          orders'[tasks[s].order] # NoRow
    <3>1. ASSUME NEW s \in Tasks, tasks[s].pc \in {"write", "after"}
          PROVE  tasks[s].order \in OrderIds /\ orders[tasks[s].order] # NoRow
      BY <3>1, PcTells DEF OrdersInv, TypeOK, TasksFit, Update
    <3> QED
      BY <3>1 DEF OrdersGrow
  <2> QED
    BY <1>1, <2>1, <2>2 DEF TasksFit, OrdersInv
<1>3. RefundsAreOwed'
  <2>1. ASSUME NEW m \in calls', m.type = "order_refund"
        PROVE  Owed(m.user, m.amount, m.ref)
    <3>1. CASE \E o \in WalletOrders(m.user, m.amount) : m.ref = CancelRef(o)
      BY <3>1 DEF Owed
    <3>2. CASE \E c \in calls : /\ c.type = m.type /\ c.user = m.user
                               /\ c.amount = m.amount /\ c.ref = m.ref
      <4>1. \A c \in calls : c.type = "order_refund" => Owed(c.user, c.amount, c.ref)
        BY DEF OrdersInv, RefundsAreOwed
      <4> QED
        BY <2>1, <3>2, <4>1
    <3> QED
      BY <2>1, <3>1, <3>2
  <2> QED
    BY <2>1, RefundsStillOwed
<1>4. ASSUME NEW u \in Users, NEW a \in Amounts PROVE SpentOnce(u, a)'
  <2>1. PaidCreations(u, a)' \subseteq PaidCreations(u, a)
    BY <1>1 DEF PaidCreations
  <2>2. \A ty : Rows(u, ty, a)' = Rows(u, ty, a)
    BY DEF Rows
  <2>3. \A o : CancelRef(o) # FailedRef(u)
    BY DEF CancelRef, FailedRef
  <2>4. Issued(u, a)' => Issued(u, a)
    BY <2>2, <2>3 DEF Issued
  <2> QED
    BY <2>1, <2>2, <2>4, QuietSpent
<1> QED
  BY <1>2, <1>3, <1>4 DEF Kept

LEMMA CreateOrderKeeps ==
  ASSUME OrdersInv, TypeOK', NEW t \in Tasks, NEW u \in Users,
         NEW pay \in {"cash", "wallet"}, NEW a \in Amounts, CreateOrder(t, u, pay, a)
  PROVE  Kept
<1> DEFINE k == [pc |-> IF pay = "wallet" THEN "debit" ELSE "insert",
                 user |-> u, payment |-> pay, total |-> a]
<1>1. tasks' = [tasks EXCEPT ![t] = k]
  BY DEF CreateOrder
<1>2. \A m \in calls : m.from # t
  BY DEF CreateOrder, OrdersInv, TasksFit, Idle
<1>3. Payment(t, u, a).from = t /\ Payment(t, u, a).type = "order_payment"
  BY DEF Payment
<1>4. \A m \in calls' : m \in calls \/ (pay = "wallet" /\ m = Payment(t, u, a))
  BY DEF CreateOrder
<1>5. OrdersGrow /\ \A v, b : WalletOrders(v, b)' = WalletOrders(v, b)
  BY DEF CreateOrder, OrdersGrow, WalletOrders
<1>6. /\ k.pc = IF pay = "wallet" THEN "debit" ELSE "insert"
      /\ k.user = u /\ k.total = a /\ k.payment = pay
  OBVIOUS
<1>7. UNCHANGED <<ledger, doubtful>>
  BY DEF CreateOrder
<1> HIDE DEF k
<1>8. \A m \in calls' :
        /\ m.from = t => k.pc = "debit" /\ m = Payment(t, k.user, k.total)
        /\ m.from # t => m \in calls
        /\ m.type = "order_refund" => m \in calls
  BY <1>2, <1>3, <1>4, <1>6
<1> QED
  BY <1>1, <1>5, <1>6, <1>7, <1>8, HandlerStep

LEMMA ReadForUpdateKeeps ==
  ASSUME OrdersInv, TypeOK', NEW t \in Tasks, NEW o \in OrderIds, NEW next \in Statuses,
         ReadForUpdate(t, o, next)
  PROVE  Kept
<1> DEFINE k == [pc |-> "write", order |-> o, next |-> next]
<1>1. tasks' = [tasks EXCEPT ![t] = k] /\ calls' = calls
  BY DEF ReadForUpdate
<1>2. \A m \in calls : m.from # t
  BY DEF ReadForUpdate, OrdersInv, TasksFit, Idle
<1>3. OrdersGrow /\ \A v, b : WalletOrders(v, b)' = WalletOrders(v, b)
  BY DEF ReadForUpdate, OrdersGrow, WalletOrders
<1>4. orders'[o] # NoRow
  BY DEF ReadForUpdate
<1> QED
  BY <1>1, <1>2, <1>3, <1>4, HandlerStep DEF ReadForUpdate

\* A handler at pc waits for no answer.
LEMMA NotWaiting ==
  ASSUME OrdersInv, NEW t \in Tasks, tasks[t].pc # "debit", NEW m \in calls
  PROVE  m.from # t
BY DEF OrdersInv, TasksFit

LEMMA WriteStatusKeeps ==
  ASSUME OrdersInv, TypeOK', NEW t \in Tasks, WriteStatus(t)
  PROVE  Kept
<1> DEFINE k == [tasks[t] EXCEPT !.pc = "after"]
<1>1. tasks' = [tasks EXCEPT ![t] = k] /\ calls' = calls
  BY DEF WriteStatus
<1>2. tasks[t] \in Update /\ orders[tasks[t].order] # NoRow
  BY PcTells DEF WriteStatus, OrdersInv, TypeOK, TasksFit
<1>3. tasks[t].order \in OrderIds /\ orders[tasks[t].order] \in Order
  BY <1>2 DEF Update, OrdersInv, TypeOK
<1>4. /\ orders'[tasks[t].order] = [orders[tasks[t].order] EXCEPT !.status = tasks[t].next]
      /\ \A o \in OrderIds : o # tasks[t].order => orders'[o] = orders[o]
  BY <1>3 DEF WriteStatus, OrdersInv, TypeOK
<1>5. /\ orders'[tasks[t].order].payment = orders[tasks[t].order].payment
      /\ orders'[tasks[t].order].user = orders[tasks[t].order].user
      /\ orders'[tasks[t].order].total = orders[tasks[t].order].total
  BY <1>3, <1>4 DEF Order
<1>6. orders'[tasks[t].order] # NoRow
  <2>1. orders'[tasks[t].order] \in Order
    BY <1>2, <1>3, <1>4 DEF Order, Update
  <2> QED
    BY <2>1 DEF Order, NoRow
<1>7. OrdersGrow
  BY <1>4, <1>5, <1>6 DEF OrdersGrow
<1>8. \A o \in OrderIds : orders'[o] # NoRow => orders[o] # NoRow
  BY <1>2, <1>4
<1>9. \A v, b : WalletOrders(v, b)' = WalletOrders(v, b)
  BY <1>7, <1>8 DEF WalletOrders, OrdersGrow
<1>10. k.pc = "after" /\ k.order = tasks[t].order
  BY <1>2 DEF Update
<1>11. tasks[t].pc # "debit" /\ UNCHANGED <<ledger, doubtful>>
  BY DEF WriteStatus
<1> HIDE DEF k
<1>12. \A m \in calls' : m \in calls /\ m.from # t
  BY <1>1, <1>11, NotWaiting
<1> QED
  BY <1>1, <1>6, <1>7, <1>9, <1>10, <1>11, <1>12, HandlerStep

LEMMA NotifyKeeps ==
  ASSUME OrdersInv, TypeOK', NEW t \in Tasks, Notify(t)
  PROVE  Kept
<1> DEFINE o == tasks[t].order
           m0 == Refund(orders[o].user, orders[o].total, CancelRef(o))
<1>1. tasks' = [tasks EXCEPT ![t] = Idle] /\ Idle.pc = "idle"
  BY DEF Notify, End, Idle
<1>2. tasks[t] \in Update /\ orders[o] # NoRow /\ tasks[t].pc # "debit"
  BY PcTells DEF Notify, OrdersInv, TypeOK, TasksFit
<1>3. o \in OrderIds
  BY <1>2 DEF Update
<1>4. orders[o].payment = "wallet" => o \in WalletOrders(orders[o].user, orders[o].total)
  BY <1>2, <1>3 DEF WalletOrders
<1>5. /\ m0.from = NoTask /\ m0.user = orders[o].user
      /\ m0.amount = orders[o].total /\ m0.ref = CancelRef(o)
  BY DEF Refund
<1>6. \A m \in calls' : m \in calls \/ (m = m0 /\ orders[o].payment = "wallet")
  BY DEF Notify
<1>7. OrdersGrow /\ \A v, b : WalletOrders(v, b)' = WalletOrders(v, b)
  BY DEF Notify, OrdersGrow, WalletOrders
<1>8. UNCHANGED <<ledger, doubtful>>
  BY DEF Notify
<1> HIDE DEF m0, o
<1>9. ASSUME NEW m \in calls'
      PROVE  /\ m.from # t
             /\ m.from # NoTask => m \in calls
             /\ m.type = "order_refund" =>
                  \/ m \in calls
                  \/ \E ord \in WalletOrders(m.user, m.amount) : m.ref = CancelRef(ord)
  BY <1>2, <1>4, <1>5, <1>6, NotWaiting
<1> QED
  BY <1>1, <1>7, <1>8, <1>9, HandlerStep

LEMMA StopKeeps ==
  ASSUME OrdersInv, TypeOK', NEW t \in Tasks, Stop(t)
  PROVE  Kept
<1>1. tasks' = [tasks EXCEPT ![t] = Idle] /\ Idle.pc = "idle"
  BY DEF Stop, End, Idle
<1>2. OrdersGrow /\ \A v, b : WalletOrders(v, b)' = WalletOrders(v, b)
  BY DEF Stop, OrdersGrow, WalletOrders
<1>3. UNCHANGED <<ledger, doubtful>>
  BY DEF Stop
<1>4. ASSUME NEW m \in calls'
      PROVE  /\ m.from # t
             /\ m.from # NoTask => m \in calls
             /\ \E c \in calls : /\ c.type = m.type /\ c.user = m.user
                                 /\ c.amount = m.amount /\ c.ref = m.ref
  <2>1. PICK c \in calls : m = IF c.from = t THEN [c EXCEPT !.from = NoTask] ELSE c
    BY DEF Stop, Detached
  <2>2. c \in Request
    BY DEF OrdersInv, TypeOK
  <2>3. CASE c.from = t
    <3>1. /\ m.from = NoTask /\ m.type = c.type /\ m.user = c.user
          /\ m.amount = c.amount /\ m.ref = c.ref
      BY <2>1, <2>2, <2>3 DEF Request
    <3> QED
      BY <3>1
  <2>4. CASE c.from # t
    BY <2>1, <2>4
  <2> QED
    BY <2>3, <2>4
<1> QED
  BY <1>1, <1>2, <1>3, <1>4, HandlerStep
-----------------------------------------------------------------------------
\* The wallet order or creation a handler at its INSERT stands for.
LEMMA PaidCreationIs ==
  ASSUME TypeOK, NEW t \in Tasks, tasks[t].pc = "insert", End(t),
         NEW u \in Users, NEW a \in Amounts
  PROVE  PaidCreations(u, a)' = PaidCreations(u, a) \ {t}
<1>1. tasks' = [tasks EXCEPT ![t] = Idle]
  BY DEF End
<1>2. tasks'[t].pc = "idle" /\ \A s \in Tasks : s # t => tasks'[s] = tasks[s]
  BY <1>1 DEF TypeOK, Idle
<1> QED
  BY <1>2 DEF PaidCreations

\* The catch block adds at most the refund of the creation at hand.
LEMMA RefundCreationAdds ==
  ASSUME OrdersInv, NEW t \in Tasks, tasks[t].pc = "insert", RefundCreation(t)
  PROVE  /\ \A m \in calls' :
              \/ m \in calls
              \/ /\ tasks[t].payment = "wallet"
                 /\ m = Refund(tasks[t].user, tasks[t].total, FailedRef(tasks[t].user))
         /\ t \in PaidCreations(tasks[t].user, tasks[t].total) \/ tasks[t].payment # "wallet"
BY DEF RefundCreation, PaidCreations

\* Who has a creation at its INSERT has a debit.
LEMMA PaidCreationsAreDebited ==
  ASSUME OrdersInv, NEW u \in Users, NEW a \in Amounts, NEW t \in PaidCreations(u, a)
  PROVE  Rows(u, "order_payment", a) # {}
<1>1. Cardinality(PaidCreations(u, a)) # 0
  BY CountsAreNumbers, FS_EmptySet DEF OrdersInv
<1>2. SpentOnce(u, a)
  BY DEF OrdersInv
<1>3. Cardinality(Rows(u, "order_payment", a)) >= 1
  BY <1>1, <1>2, CountsAreNumbers DEF SpentOnce, OrdersInv
<1> QED
  BY <1>3, FS_EmptySet

\* A paid creation becomes the order it paid for.
LEMMA SpentOnOrder ==
  ASSUME OrdersInv, NEW u \in Users, NEW a \in Amounts,
         NEW t \in PaidCreations(u, a), PaidCreations(u, a)' = PaidCreations(u, a) \ {t},
         NEW o, o \notin WalletOrders(u, a), WalletOrders(u, a)' = WalletOrders(u, a) \cup {o},
         Rows(u, "order_payment", a)' = Rows(u, "order_payment", a),
         WalletOrders(u, a)' \cap doubtful' = {} /\ Issued(u, a)' =>
           WalletOrders(u, a) \cap doubtful = {} /\ Issued(u, a)
  PROVE  SpentOnce(u, a)'
<1>1. SpentOnce(u, a)
  BY DEF OrdersInv
<1>2. Cardinality(PaidCreations(u, a)') = Cardinality(PaidCreations(u, a)) - 1
  BY CountsAreNumbers, FS_RemoveElement DEF OrdersInv
<1>3. Cardinality(WalletOrders(u, a)') = Cardinality(WalletOrders(u, a)) + 1
  BY CountsAreNumbers, FS_AddElement DEF OrdersInv
<1> QED
  BY <1>1, <1>2, <1>3, CountsAreNumbers DEF OrdersInv, SpentOnce

\* A paid creation fails and is refunded.
LEMMA SpentOnRefund ==
  ASSUME OrdersInv, NEW u \in Users, NEW a \in Amounts,
         NEW t \in PaidCreations(u, a), PaidCreations(u, a)' = PaidCreations(u, a) \ {t},
         WalletOrders(u, a)' = WalletOrders(u, a),
         Rows(u, "order_payment", a)' = Rows(u, "order_payment", a)
  PROVE  SpentOnce(u, a)'
<1>1. SpentOnce(u, a)
  BY DEF OrdersInv
<1>2. Cardinality(PaidCreations(u, a)') = Cardinality(PaidCreations(u, a)) - 1
  BY CountsAreNumbers, FS_RemoveElement DEF OrdersInv
<1> QED
  BY <1>1, <1>2, CountsAreNumbers DEF OrdersInv, SpentOnce

\* The end of a creation leaves the others as they were.
LEMMA CreationEnds ==
  ASSUME OrdersInv, TypeOK', OrdersGrow, UNCHANGED ledger,
         NEW t \in Tasks, tasks[t].pc = "insert", End(t),
         calls' = calls \/ RefundCreation(t)
  PROVE  /\ TasksFit' /\ RefundsAreOwed'
         /\ tasks[t] \in Creation
         /\ tasks[t].payment = "wallet" => t \in PaidCreations(tasks[t].user, tasks[t].total)
         /\ \A u \in Users, a \in Amounts :
              /\ Rows(u, "order_payment", a)' = Rows(u, "order_payment", a)
              /\ PaidCreations(u, a)' = PaidCreations(u, a) \ {t}
              /\ Issued(u, a)' =>
                   \/ Issued(u, a)
                   \/ /\ tasks[t].payment = "wallet" /\ calls' # calls
                      /\ u = tasks[t].user /\ a = tasks[t].total
<1> DEFINE v == tasks[t].user
           b == tasks[t].total
           m0 == Refund(v, b, FailedRef(v))
<1>1. tasks[t] \in Creation /\ v \in Users /\ b \in Amounts
  BY PcTells DEF OrdersInv, TypeOK, Creation
<1>2. tasks[t].payment = "wallet" => t \in PaidCreations(v, b)
  BY DEF PaidCreations
<1>3. /\ m0.from = NoTask /\ m0.type = "order_refund" /\ m0.user = v
      /\ m0.amount = b /\ m0.ref = FailedRef(v)
  BY DEF Refund
<1>4. \A m \in calls' : m \in calls \/ (m = m0 /\ tasks[t].payment = "wallet" /\ calls' # calls)
  BY RefundCreationAdds
<1> HIDE DEF v, b, m0
<1>5. /\ tasks'[t].pc = "idle"
      /\ \A s \in Tasks : s # t => tasks'[s] = tasks[s]
  BY DEF End, OrdersInv, TypeOK, Idle
<1>6. TasksFit'
  <2>1. \A m \in calls : m.from # t
    BY NotWaiting
  <2>2. \A m \in calls' : m.from # NoTask => m \in calls /\ m.from # t /\ m.from \in Tasks
    BY <1>3, <1>4, <2>1 DEF OrdersInv, TypeOK, Request
  <2>3. \A s \in Tasks : tasks'[s].pc \in {"write", "after"} =>
          orders'[tasks'[s].order] # NoRow
    <3>1. ASSUME NEW s \in Tasks, tasks[s].pc \in {"write", "after"}
          PROVE  tasks[s].order \in OrderIds /\ orders[tasks[s].order] # NoRow
      BY <3>1, PcTells DEF OrdersInv, TypeOK, TasksFit, Update
    <3> QED
      BY <1>5, <3>1 DEF OrdersGrow
  <2> QED
    BY <1>5, <2>2, <2>3 DEF TasksFit, OrdersInv
<1>7. RefundsAreOwed'
  <2>1. tasks[t].payment = "wallet" => Owed(v, b, FailedRef(v))
    BY <1>1, <1>2, PaidCreationsAreDebited DEF Owed
  <2>2. \A m \in calls' : m.type = "order_refund" => Owed(m.user, m.amount, m.ref)
    BY <1>3, <1>4, <2>1 DEF OrdersInv, RefundsAreOwed
  <2> QED
    BY <2>2, RefundsStillOwed
<1>8. \A u, ty, a : Rows(u, ty, a)' = Rows(u, ty, a)
  BY DEF Rows
<1>9. ASSUME NEW u \in Users, NEW a \in Amounts, Issued(u, a)'
      PROVE  \/ Issued(u, a)
             \/ tasks[t].payment = "wallet" /\ calls' # calls /\ u = v /\ a = b
  BY <1>3, <1>4, <1>8, <1>9 DEF Issued
<1>10. \A u \in Users, a \in Amounts : PaidCreations(u, a)' = PaidCreations(u, a) \ {t}
  BY PaidCreationIs DEF OrdersInv
<1> QED
  BY <1>1, <1>2, <1>6, <1>7, <1>8, <1>9, <1>10 DEF v, b

LEMMA CreationFailsKeeps ==
  ASSUME OrdersInv, TypeOK', NEW t \in Tasks, CreationFails(t)
  PROVE  Kept
<1>1. OrdersGrow /\ UNCHANGED <<ledger, doubtful, orders>>
  BY DEF CreationFails, OrdersGrow
<1>2. tasks[t].pc = "insert" /\ End(t) /\ RefundCreation(t)
  BY DEF CreationFails
<1>3. ASSUME NEW u \in Users, NEW a \in Amounts PROVE SpentOnce(u, a)'
  <2>1. WalletOrders(u, a)' = WalletOrders(u, a)
    BY <1>1 DEF WalletOrders
  <2>2. CASE t \in PaidCreations(u, a)
    BY <1>1, <1>2, <2>1, <2>2, CreationEnds, SpentOnRefund
  <2>3. CASE t \notin PaidCreations(u, a)
    BY <1>1, <1>2, <2>1, <2>3, CreationEnds, QuietSpent
  <2> QED
    BY <2>2, <2>3
<1> QED
  BY <1>1, <1>2, <1>3, CreationEnds DEF Kept

\* The row of a creation appears among the wallet orders of its customer.
LEMMA InsertAdds ==
  ASSUME TypeOK, NEW t \in Tasks, NEW o \in OrderIds, InsertOrder(t, o)
  PROVE  /\ OrdersGrow
         /\ \A u, a :
              /\ o \notin WalletOrders(u, a)
              /\ WalletOrders(u, a)' =
                   IF tasks[t].payment = "wallet" /\ tasks[t].user = u /\ tasks[t].total = a
                     THEN WalletOrders(u, a) \cup {o} ELSE WalletOrders(u, a)
<1>1. /\ orders[o] = NoRow
      /\ orders'[o] = [status |-> "pending", user |-> tasks[t].user,
                       payment |-> tasks[t].payment, total |-> tasks[t].total]
      /\ \A p \in OrderIds : p # o => orders'[p] = orders[p]
  BY DEF InsertOrder, TypeOK
<1>2. orders'[o].status = "pending"
  BY <1>1
<1>3. orders'[o] # NoRow
  BY <1>2 DEF NoRow
<1>4. /\ orders'[o].user = tasks[t].user /\ orders'[o].payment = tasks[t].payment
      /\ orders'[o].total = tasks[t].total
  BY <1>1
<1>5. OrdersGrow
  BY <1>1 DEF OrdersGrow
<1>6. ASSUME NEW u, NEW a
      PROVE  /\ o \notin WalletOrders(u, a)
             /\ WalletOrders(u, a)' =
                  IF tasks[t].payment = "wallet" /\ tasks[t].user = u /\ tasks[t].total = a
                    THEN WalletOrders(u, a) \cup {o} ELSE WalletOrders(u, a)
  BY <1>1, <1>3, <1>4 DEF WalletOrders
<1> QED
  BY <1>5, <1>6

LEMMA InsertKeeps ==
  ASSUME OrdersInv, TypeOK', NEW t \in Tasks, NEW o \in OrderIds,
         OrderCreated(t, o) \/ CommitUnanswered(t, o)
  PROVE  Kept
<1>1. /\ InsertOrder(t, o) /\ End(t) /\ tasks[t].pc = "insert"
      /\ UNCHANGED ledger /\ doubtful \subseteq doubtful'
      /\ calls' = calls \/ RefundCreation(t)
      /\ calls' # calls => o \in doubtful'
  BY DEF OrderCreated, CommitUnanswered, InsertOrder
<1>2. TypeOK
  BY DEF OrdersInv
<1>3. OrdersGrow
  BY <1>1, <1>2, InsertAdds
<1>4. ASSUME NEW u \in Users, NEW a \in Amounts PROVE SpentOnce(u, a)'
  <2> DEFINE Mine == tasks[t].payment = "wallet" /\ tasks[t].user = u /\ tasks[t].total = a
  <2>1. CASE Mine
    <3>1. t \in PaidCreations(u, a)
      BY <1>1, <2>1 DEF PaidCreations
    <3>2. o \notin WalletOrders(u, a) /\ WalletOrders(u, a)' = WalletOrders(u, a) \cup {o}
      BY <1>1, <1>2, <2>1, InsertAdds
    <3>3. /\ Rows(u, "order_payment", a)' = Rows(u, "order_payment", a)
          /\ PaidCreations(u, a)' = PaidCreations(u, a) \ {t}
          /\ Issued(u, a)' => Issued(u, a) \/ calls' # calls
      BY <1>1, <1>3, CreationEnds
    <3>4. WalletOrders(u, a)' \cap doubtful' = {} /\ Issued(u, a)' =>
            WalletOrders(u, a) \cap doubtful = {} /\ Issued(u, a)
      BY <1>1, <3>2, <3>3
    <3> QED
      BY <3>1, <3>2, <3>3, <3>4, SpentOnOrder
  <2>2. CASE ~Mine
    <3>1. WalletOrders(u, a)' = WalletOrders(u, a)
      BY <1>1, <1>2, <2>2, InsertAdds
    <3>2. /\ Rows(u, "order_payment", a)' = Rows(u, "order_payment", a)
          /\ PaidCreations(u, a)' = PaidCreations(u, a) \ {t}
          /\ Issued(u, a)' => Issued(u, a)
      BY <1>1, <1>3, <2>2, CreationEnds
    <3> QED
      BY <1>1, <3>1, <3>2, QuietSpent
  <2> QED
    BY <2>1, <2>2
<1> QED
  BY <1>1, <1>3, <1>4, CreationEnds DEF Kept
-----------------------------------------------------------------------------
\* A move adds one row, to the rows of its wallet, type and amount.
LEMMA MoveRows ==
  ASSUME TypeOK, NEW v \in Users, NEW d \in Directions, NEW b \in Amounts,
         NEW ty \in TxTypes, NEW r \in Refs \cup {NoRef}, Move(v, d, b, ty, r)
  PROVE  \A t, a : \A u \in Users :
           /\ Rows(u, t, a)' = IF u = v /\ t = ty /\ a = b
                                 THEN Rows(u, t, a) \cup {Len(ledger[v]) + 1}
                                 ELSE Rows(u, t, a)
           /\ Len(ledger[v]) + 1 \notin Rows(v, t, a)
           /\ \A i \in Rows(u, t, a) : ledger'[u][i] = ledger[u][i]
<1> DEFINE n == Len(ledger[v]) + 1
           e == Posting(v, d, b, ty, r)
<1>1. /\ Len(ledger[v]) \in Nat /\ Len(ledger'[v]) = n
      /\ ledger'[v][n] = e
      /\ \A u \in Users : \A i \in 1..Len(ledger[u]) :
           i \in 1..Len(ledger'[u]) /\ ledger'[u][i] = ledger[u][i]
      /\ \A u \in Users : \A i \in 1..Len(ledger'[u]) :
           i \in 1..Len(ledger[u]) \/ (u = v /\ i = n)
  BY MoveAppends DEF TypeOK
<1>2. e.type = ty /\ e.amount = b
  BY DEF Posting
<1>3. n \in 1..Len(ledger'[v]) /\ n \notin 1..Len(ledger[v])
  BY <1>1
<1> HIDE DEF e, n
<1>4. ASSUME NEW u \in Users, NEW t, NEW a
      PROVE  /\ Rows(u, t, a)' = IF u = v /\ t = ty /\ a = b
                                   THEN Rows(u, t, a) \cup {n} ELSE Rows(u, t, a)
             /\ n \notin Rows(v, t, a)
             /\ \A i \in Rows(u, t, a) : ledger'[u][i] = ledger[u][i]
  BY <1>1, <1>2, <1>3 DEF Rows
<1> QED
  BY <1>4 DEF n

\* The answer to a payment lets its creation go on; other answers change nothing.
LEMMA AnswerFits ==
  ASSUME OrdersInv, TypeOK', NEW m \in calls, NEW ok \in BOOLEAN, Answer(m, ok)
  PROVE  /\ TasksFit' /\ OrdersGrow /\ UNCHANGED <<orders, doubtful>>
         /\ calls' \subseteq calls
         /\ \A u, a : WalletOrders(u, a)' = WalletOrders(u, a)
         /\ \A u, a :
              \/ PaidCreations(u, a)' \subseteq PaidCreations(u, a)
              \/ /\ ok /\ m.type = "order_payment" /\ m.user = u /\ m.amount = a
                 /\ PaidCreations(u, a)' \subseteq PaidCreations(u, a) \cup {m.from}
<1>1. UNCHANGED <<orders, doubtful>> /\ calls' = calls \ {m}
  BY DEF Answer
<1>2. OrdersGrow /\ \A u, a : WalletOrders(u, a)' = WalletOrders(u, a)
  BY <1>1 DEF OrdersGrow, WalletOrders
<1>3. CASE m.from = NoTask
  <2>1. tasks' = tasks
    BY <1>3 DEF Answer
  <2>2. TasksFit'
    BY <1>1, <2>1 DEF OrdersInv, TasksFit
  <2>3. \A u, a : PaidCreations(u, a)' = PaidCreations(u, a)
    BY <2>1 DEF PaidCreations
  <2> QED
    BY <1>1, <1>2, <2>2, <2>3
<1>4. CASE m.from # NoTask
  <2> DEFINE t == m.from
  <2>1. m \in Request /\ t \in Tasks
    BY <1>4 DEF OrdersInv, TypeOK, Request
  <2>2. /\ tasks[t].pc = "debit" /\ tasks[t].payment = "wallet"
        /\ m = Payment(t, tasks[t].user, tasks[t].total)
    BY <1>4, <2>1 DEF OrdersInv, TasksFit
  <2>3. tasks[t] \in Creation
    BY <2>1, <2>2, PcTells DEF OrdersInv, TypeOK
  <2>4. /\ m.type = "order_payment" /\ m.user = tasks[t].user /\ m.amount = tasks[t].total
    BY <2>2 DEF Payment
  <2>5. /\ \/ ok /\ tasks'[t] = [tasks[t] EXCEPT !.pc = "insert"]
           \/ tasks'[t] = Idle
        /\ \A s \in Tasks : s # t => tasks'[s] = tasks[s]
    BY <1>4, <2>1 DEF Answer, OrdersInv, TypeOK
  <2>6. /\ tasks'[t].pc \in {"insert", "idle"}
        /\ tasks'[t].pc = "insert" =>
             ok /\ tasks'[t].user = tasks[t].user /\ tasks'[t].total = tasks[t].total
    BY <2>3, <2>5 DEF Creation, Idle
  <2> HIDE DEF t
  <2>7. \A c \in calls' : c \in calls /\ c.from # t
    <3>1. ASSUME NEW c \in calls, c.from = t PROVE c = m
      BY <1>4, <2>1, <2>2, <3>1 DEF OrdersInv, TasksFit, t
    <3> QED
      BY <1>1, <3>1
  <2>8. TasksFit'
    <3>1. \A c \in calls' : c.from # NoTask => c.from \in Tasks
      BY DEF TypeOK, Request
    <3> QED
      BY <1>1, <2>5, <2>6, <2>7, <3>1 DEF OrdersInv, TasksFit
  <2>9. ASSUME NEW u, NEW a
        PROVE  \/ PaidCreations(u, a)' \subseteq PaidCreations(u, a)
               \/ /\ ok /\ m.type = "order_payment" /\ m.user = u /\ m.amount = a
                  /\ PaidCreations(u, a)' \subseteq PaidCreations(u, a) \cup {t}
    <3>1. PaidCreations(u, a)' \subseteq PaidCreations(u, a) \cup {t}
      BY <2>5 DEF PaidCreations
    <3>2. t \in PaidCreations(u, a)' => ok /\ tasks[t].user = u /\ tasks[t].total = a
      BY <2>6 DEF PaidCreations
    <3> QED
      BY <2>4, <3>1, <3>2
  <2> QED
    BY <1>1, <1>2, <2>8, <2>9 DEF t
<1> QED
  BY <1>3, <1>4

\* A payment that is booked pays for the creation that asked for it.
LEMMA SpentOnCreation ==
  ASSUME OrdersInv, NEW u \in Users, NEW a \in Amounts, NEW t, NEW n,
         PaidCreations(u, a)' \subseteq PaidCreations(u, a) \cup {t},
         WalletOrders(u, a)' = WalletOrders(u, a), UNCHANGED doubtful,
         n \notin Rows(u, "order_payment", a),
         Rows(u, "order_payment", a)' = Rows(u, "order_payment", a) \cup {n},
         Issued(u, a)' => Issued(u, a)
  PROVE  SpentOnce(u, a)'
<1>1. SpentOnce(u, a)
  BY DEF OrdersInv
<1>2. /\ IsFiniteSet(PaidCreations(u, a) \cup {t})
      /\ Cardinality(PaidCreations(u, a) \cup {t}) <= Cardinality(PaidCreations(u, a)) + 1
  <2>1. IsFiniteSet(PaidCreations(u, a)) /\ Cardinality(PaidCreations(u, a)) \in Nat
    BY CountsAreNumbers DEF OrdersInv
  <2>2. /\ IsFiniteSet(PaidCreations(u, a) \cup {t})
        /\ \/ Cardinality(PaidCreations(u, a) \cup {t}) = Cardinality(PaidCreations(u, a))
           \/ Cardinality(PaidCreations(u, a) \cup {t}) = Cardinality(PaidCreations(u, a)) + 1
    BY <2>1, FS_AddElement
  <2> QED
    BY <2>1, <2>2
<1>3. /\ IsFiniteSet(PaidCreations(u, a)')
      /\ Cardinality(PaidCreations(u, a)') <= Cardinality(PaidCreations(u, a) \cup {t})
      /\ Cardinality(PaidCreations(u, a)') \in Nat
      /\ Cardinality(PaidCreations(u, a) \cup {t}) \in Nat
  BY <1>2, LargerCounts, SubsetCounts, FS_CardinalityType
<1>4. Cardinality(Rows(u, "order_payment", a)') = Cardinality(Rows(u, "order_payment", a)) + 1
  BY CountsAreNumbers, FS_AddElement DEF OrdersInv
<1> QED
  BY <1>1, <1>2, <1>3, <1>4, CountsAreNumbers DEF OrdersInv, SpentOnce

\* A refund that is booked was on its way.
LEMMA MoveKeepsRefunds ==
  ASSUME OrdersInv, OrdersGrow, calls' \subseteq calls,
         NEW v \in Users, NEW d \in Directions, NEW b \in Amounts,
         NEW ty \in TxTypes, NEW r \in Refs \cup {NoRef}, Move(v, d, b, ty, r),
         ty = "order_refund" =>
           \E c \in calls : c.type = ty /\ c.user = v /\ c.amount = b /\ c.ref = r
  PROVE  /\ RefundsAreOwed'
         /\ \A a : \A u \in Users : Issued(u, a)' => Issued(u, a)
<1> DEFINE n == Len(ledger[v]) + 1
<1>1. TypeOK
  BY DEF OrdersInv
<1>2. /\ ledger'[v][n].type = ty /\ ledger'[v][n].amount = b /\ ledger'[v][n].ref = r
      /\ \A u \in Users : \A i \in 1..Len(ledger'[u]) :
           \/ i \in 1..Len(ledger[u]) /\ ledger'[u][i] = ledger[u][i]
           \/ u = v /\ i = n
  <2>1. /\ ledger'[v][n] = Posting(v, d, b, ty, r)
        /\ \A u \in Users : \A i \in 1..Len(ledger'[u]) :
             \/ i \in 1..Len(ledger[u]) /\ ledger'[u][i] = ledger[u][i]
             \/ u = v /\ i = n
    BY <1>1, MoveAppends DEF TypeOK
  <2> QED
    BY <2>1 DEF Posting
<1> HIDE DEF n
<1>3. \A a : \A u \in Users : Rows(u, "order_payment", a) \subseteq Rows(u, "order_payment", a)'
  BY <1>1, MoveRows
<1>4. RefundsAreOwed'
  <2>1. ASSUME NEW u \in Users, NEW a, NEW q, Owed(u, a, q) PROVE Owed(u, a, q)'
    BY <1>3, <2>1, OwedStable
  <2>2. ASSUME NEW c \in calls, c.type = "order_refund"
        PROVE  c.user \in Users /\ Owed(c.user, c.amount, c.ref)'
    BY <1>1, <2>1, <2>2 DEF OrdersInv, RefundsAreOwed, TypeOK, Request
  <2>3. ASSUME NEW u \in Users, NEW i \in 1..Len(ledger'[u]),
               ledger'[u][i].type = "order_refund"
        PROVE  Owed(u, ledger[u][i].amount, ledger[u][i].ref)'
    <3>1. CASE i \in 1..Len(ledger[u]) /\ ledger'[u][i] = ledger[u][i]
      BY <2>1, <2>3, <3>1 DEF OrdersInv, RefundsAreOwed
    <3>2. CASE u = v /\ i = n
      BY <1>2, <2>2, <2>3, <3>2
    <3> QED
      BY <1>2, <3>1, <3>2
  <2> QED
    BY <2>2, <2>3 DEF RefundsAreOwed
<1>5. ASSUME NEW u \in Users, NEW a, Issued(u, a)' PROVE Issued(u, a)
  <2>1. CASE \E c \in calls' : /\ c.type = "order_refund" /\ c.user = u
                               /\ c.amount = a /\ c.ref = FailedRef(u)
    BY <2>1 DEF Issued
  <2>2. CASE \E i \in Rows(u, "order_refund", a)' : ledger'[u][i].ref = FailedRef(u)
    <3>1. PICK i \in 1..Len(ledger'[u]) :
            /\ ledger'[u][i].type = "order_refund" /\ ledger'[u][i].amount = a
            /\ ledger'[u][i].ref = FailedRef(u)
      BY <2>2 DEF Rows
    <3>2. CASE i \in 1..Len(ledger[u]) /\ ledger'[u][i] = ledger[u][i]
      BY <3>1, <3>2 DEF Issued, Rows
    <3>3. CASE u = v /\ i = n
      BY <1>2, <3>1, <3>3 DEF Issued
    <3> QED
      BY <1>2, <3>2, <3>3
  <2> QED
    BY <1>5, <2>1, <2>2 DEF Issued
<1> QED
  BY <1>4, <1>5

LEMMA WalletMovesKeeps ==
  ASSUME OrdersInv, TypeOK', NEW m \in calls, WalletMoves(m)
  PROVE  Kept
<1>1. /\ m.user \in Users /\ m.direction \in Directions /\ m.amount \in Amounts
      /\ m.type \in TxTypes /\ m.ref \in Refs
  BY DEF OrdersInv, TypeOK, Request
<1>2. Move(m.user, m.direction, m.amount, m.type, m.ref) /\ Answer(m, TRUE)
  BY DEF WalletMoves
<1>3. /\ TasksFit' /\ OrdersGrow /\ UNCHANGED doubtful /\ calls' \subseteq calls
      /\ \A u, a : WalletOrders(u, a)' = WalletOrders(u, a)
      /\ \A u, a :
           \/ PaidCreations(u, a)' \subseteq PaidCreations(u, a)
           \/ /\ m.type = "order_payment" /\ m.user = u /\ m.amount = a
              /\ PaidCreations(u, a)' \subseteq PaidCreations(u, a) \cup {m.from}
  BY <1>2, AnswerFits
<1>4. RefundsAreOwed' /\ \A a : \A u \in Users : Issued(u, a)' => Issued(u, a)
  BY <1>1, <1>2, <1>3, MoveKeepsRefunds
<1>5. \A a : \A u \in Users :
        /\ Rows(u, "order_payment", a) \subseteq Rows(u, "order_payment", a)'
        /\ m.type = "order_payment" /\ m.user = u /\ m.amount = a =>
             \E n : /\ n \notin Rows(u, "order_payment", a)
                    /\ Rows(u, "order_payment", a)' = Rows(u, "order_payment", a) \cup {n}
  BY <1>1, <1>2, MoveRows DEF OrdersInv
<1>6. ASSUME NEW u \in Users, NEW a \in Amounts PROVE SpentOnce(u, a)'
  <2>1. CASE PaidCreations(u, a)' \subseteq PaidCreations(u, a)
    BY <1>3, <1>4, <1>5, <2>1, QuietSpent
  <2>2. CASE /\ m.type = "order_payment" /\ m.user = u /\ m.amount = a
             /\ PaidCreations(u, a)' \subseteq PaidCreations(u, a) \cup {m.from}
    BY <1>3, <1>4, <1>5, <2>2, SpentOnCreation
  <2> QED
    BY <1>3, <2>1, <2>2
<1> QED
  BY <1>3, <1>4, <1>6 DEF Kept

\* A refused or lost request only disappears.
LEMMA CallFailsKeeps ==
  ASSUME OrdersInv, TypeOK', NEW m \in calls, WalletRefuses(m) \/ CallLost(m)
  PROVE  Kept
<1>1. Answer(m, FALSE) /\ UNCHANGED ledger
  BY DEF WalletRefuses, CallLost, walletVars
<1>2. /\ TasksFit' /\ OrdersGrow /\ UNCHANGED doubtful /\ calls' \subseteq calls
      /\ \A u, a : WalletOrders(u, a)' = WalletOrders(u, a)
      /\ \A u, a : PaidCreations(u, a)' \subseteq PaidCreations(u, a)
  BY <1>1, AnswerFits
<1>3. RefundsAreOwed'
  BY <1>1, <1>2, RefundsStillOwed DEF OrdersInv, RefundsAreOwed
<1>4. \A u, t, a : Rows(u, t, a)' = Rows(u, t, a)
  BY <1>1 DEF Rows
<1>5. \A u, a : Issued(u, a)' => Issued(u, a)
  BY <1>1, <1>2, <1>4 DEF Issued
<1> QED
  BY <1>2, <1>3, <1>4, <1>5, QuietSpent DEF Kept

LEMMA OtherUseKeeps ==
  ASSUME OrdersInv, TypeOK', (\E v \in Users : OtherWalletUse(v)) \/ UNCHANGED vars
  PROVE  Kept
<1>1. UNCHANGED <<orders, tasks, calls, doubtful>>
  BY DEF OtherWalletUse, orderVars, vars
<1>2. /\ OrdersGrow /\ TasksFit'
      /\ \A u, a : WalletOrders(u, a)' = WalletOrders(u, a)
      /\ \A u, a : PaidCreations(u, a)' = PaidCreations(u, a)
  BY <1>1 DEF OrdersGrow, OrdersInv, TasksFit, WalletOrders, PaidCreations
<1>3. /\ RefundsAreOwed'
      /\ \A a : \A u \in Users : Issued(u, a)' => Issued(u, a)
      /\ \A a : \A u \in Users : Rows(u, "order_payment", a) \subseteq Rows(u, "order_payment", a)'
  <2>1. CASE UNCHANGED ledger
    <3>1. \A u, t, a : Rows(u, t, a)' = Rows(u, t, a)
      BY <2>1 DEF Rows
    <3>2. RefundsAreOwed'
      BY <1>1, <1>2, <2>1, RefundsStillOwed DEF OrdersInv, RefundsAreOwed
    <3> QED
      BY <1>1, <2>1, <3>1, <3>2 DEF Issued
  <2>2. CASE \E v \in Users, b \in TopUps : Credit(v, b, "topup", NoRef)
    <3>1. PICK v \in Users, b \in TopUps : Move(v, "credit", b, "topup", NoRef)
      BY <2>2 DEF Credit
    <3>2. "credit" \in Directions /\ b \in Amounts /\ "topup" \in TxTypes
      BY DEF Directions
    <3> QED
      BY <1>1, <1>2, <3>1, <3>2, MoveKeepsRefunds, MoveRows DEF OrdersInv
  <2> QED
    BY <2>1, <2>2 DEF OtherWalletUse, EnsureWallet, vars
<1> QED
  BY <1>1, <1>2, <1>3, QuietSpent DEF Kept
-----------------------------------------------------------------------------
LEMMA OrdersInitInv == Init => OrdersInv
<1> SUFFICES ASSUME Init PROVE OrdersInv
  OBVIOUS
<1>1. TypeOK
  BY InitType
<1>2. \A t \in Tasks : tasks[t].pc = "idle"
  BY DEF Init, Idle
<1>3. \A u \in Users : ledger[u] = <<>> /\ Len(ledger[u]) = 0
  BY DEF Init, WalletInit
<1>4. TasksFit /\ RefundsAreOwed
  BY <1>2, <1>3 DEF Init, TasksFit, RefundsAreOwed
<1>5. ASSUME NEW u \in Users, NEW a \in Amounts PROVE SpentOnce(u, a)
  <2>1. \A t : Rows(u, t, a) = {}
    BY <1>3 DEF Rows
  <2>2. WalletOrders(u, a) = {} /\ PaidCreations(u, a) = {}
    BY <1>2 DEF Init, WalletOrders, PaidCreations
  <2>3. ~Issued(u, a)
    BY <2>1 DEF Init, Issued
  <2> QED
    BY <2>1, <2>2, <2>3, FS_EmptySet DEF SpentOnce
<1> QED
  BY <1>1, <1>4, <1>5 DEF OrdersInv

LEMMA OrdersNextInv == OrdersInv /\ [Next]_vars => OrdersInv'
<1> SUFFICES ASSUME OrdersInv, [Next]_vars PROVE OrdersInv'
  OBVIOUS
<1>1. TypeOK'
  BY OrdersNextType DEF OrdersInv
<1>2. ASSUME NEW t \in Tasks, NEW u \in Users, NEW pay \in {"cash", "wallet"},
             NEW a \in Amounts, CreateOrder(t, u, pay, a)
      PROVE  Kept
  BY <1>1, <1>2, CreateOrderKeeps
<1>3. ASSUME NEW t \in Tasks, NEW o \in OrderIds, OrderCreated(t, o) \/ CommitUnanswered(t, o)
      PROVE  Kept
  BY <1>1, <1>3, InsertKeeps
<1>4. ASSUME NEW t \in Tasks, NEW o \in OrderIds, NEW next \in Statuses,
             ReadForUpdate(t, o, next)
      PROVE  Kept
  BY <1>1, <1>4, ReadForUpdateKeeps
<1>5. ASSUME NEW t \in Tasks, CreationFails(t) \/ WriteStatus(t) \/ Notify(t) \/ Stop(t)
      PROVE  Kept
  BY <1>1, <1>5, CreationFailsKeeps, WriteStatusKeeps, NotifyKeeps, StopKeeps
<1>6. ASSUME NEW m \in calls, WalletMoves(m) \/ WalletRefuses(m) \/ CallLost(m)
      PROVE  Kept
  BY <1>1, <1>6, WalletMovesKeeps, CallFailsKeeps
<1>7. ASSUME (\E u \in Users : OtherWalletUse(u)) \/ UNCHANGED vars PROVE Kept
  BY <1>1, <1>7, OtherUseKeeps
<1>8. Kept
  BY <1>2, <1>3, <1>4, <1>5, <1>6, <1>7 DEF Next
<1> QED
  BY <1>1, <1>8 DEF Kept, OrdersInv

\* Handlers, requests, orders and ledger account for every debit, for any
\* number of customers, orders and concurrent handlers
\* (orderController.ts:484-522 and 952-960).
THEOREM OrdersAccount == Spec => []OrdersInv
<1> QED
  BY OrdersInitInv, OrdersNextInv, PTL DEF Spec

\* The order service uses the ledger only as Wallet allows: the wallet part of
\* every behaviour is one of Wallet, whose theorems hold of it.
LEMMA OrdersKeepToWallet == Spec => WalletSpec
<1>1. Init => WalletInit
  BY DEF Init
<1>2. OrdersInv /\ [Next]_vars => [WalletNext]_walletVars
  BY OrdersImplementWallet DEF OrdersInv
<1> QED
  BY <1>1, <1>2, OrdersAccount, PTL DEF Spec, WalletSpec

\* Every wallet order, and every one about to be written, has a debit of its
\* own (orderController.ts:484-522).
THEOREM WalletOrdersArePaidFor == Spec => []OrdersArePaidFor
<1>1. OrdersInv => OrdersArePaidFor
  <2> SUFFICES ASSUME OrdersInv, NEW u \in Users, NEW a \in Amounts
               PROVE  Cardinality(WalletOrders(u, a)) + Cardinality(PaidCreations(u, a))
                        <= Cardinality(Rows(u, "order_payment", a))
    BY DEF OrdersArePaidFor
  <2>1. SpentOnce(u, a)
    BY DEF OrdersInv
  <2> QED
    BY <2>1, CountsAreNumbers DEF SpentOnce, OrdersInv
<1> QED
  BY <1>1, OrdersAccount, PTL

\* The refund rows of u over a count no more than the wallet orders of that
\* total and the one refund of failed creations: each carries a key of its own.
LEMMA RefundRowsCount ==
  ASSUME OrdersInv, EventRecordedOnce, NEW u \in Users, NEW a \in Amounts
  PROVE  Cardinality(Rows(u, "order_refund", a))
           <= Cardinality(WalletOrders(u, a)) + (IF Issued(u, a) THEN 1 ELSE 0)
<1> DEFINE R == Rows(u, "order_refund", a)
           W == WalletOrders(u, a)
           T == W \cup (IF Issued(u, a) THEN {u} ELSE {})
           g == [i \in R |-> ledger[u][i].ref[2]]
<1>1. IsFiniteSet(W) /\ Cardinality(W) \in Nat /\ W \subseteq OrderIds
  BY CountsAreNumbers DEF OrdersInv, WalletOrders
<1>2. IsFiniteSet(T) /\ Cardinality(T) = Cardinality(W) + (IF Issued(u, a) THEN 1 ELSE 0)
  <2>1. u \notin W
    BY <1>1
  <2>2. CASE Issued(u, a)
    BY <1>1, <2>1, <2>2, FS_AddElement
  <2>3. CASE ~Issued(u, a)
    BY <1>1, <2>3
  <2> QED
    BY <2>2, <2>3
<1>3. ASSUME NEW i \in R
      PROVE  /\ ledger[u][i].ref # NoRef
             /\ \/ ledger[u][i].ref[2] \in W /\ ledger[u][i].ref = CancelRef(ledger[u][i].ref[2])
                \/ ledger[u][i].ref[2] = u /\ ledger[u][i].ref = FailedRef(u) /\ Issued(u, a)
  <2>1. /\ i \in 1..Len(ledger[u]) /\ ledger[u][i].type = "order_refund"
        /\ ledger[u][i].amount = a
    BY DEF Rows
  <2>2. Owed(u, a, ledger[u][i].ref)
    BY <2>1 DEF OrdersInv, RefundsAreOwed
  <2>3. ledger[u][i].ref = FailedRef(u) => Issued(u, a)
    BY DEF Issued
  <2>4. CASE \E o \in W : ledger[u][i].ref = CancelRef(o)
    <3>1. PICK o \in W : ledger[u][i].ref = CancelRef(o)
      BY <2>4
    <3>2. CancelRef(o)[2] = o /\ CancelRef(o) \in Refs
      BY <1>1 DEF CancelRef
    <3> QED
      BY <3>1, <3>2, WalletAssumption
  <2>5. CASE ledger[u][i].ref = FailedRef(u)
    <3>1. FailedRef(u)[2] = u /\ FailedRef(u) \in Refs
      BY DEF FailedRef
    <3> QED
      BY <2>3, <2>5, <3>1, WalletAssumption
  <2> QED
    BY <2>2, <2>4, <2>5 DEF Owed
<1>4. g \in [R -> T]
  BY <1>3
<1>5. ASSUME NEW i \in R, NEW j \in R, g[i] = g[j] PROVE i = j
  <2>1. ledger[u][i].ref[2] = ledger[u][j].ref[2]
    BY <1>5
  <2>2. u \notin W
    BY <1>1
  <2>3. ledger[u][i].ref = ledger[u][j].ref
    BY <1>3, <2>1, <2>2
  <2>4. /\ i \in 1..Len(ledger[u]) /\ j \in 1..Len(ledger[u])
        /\ ledger[u][i].type = ledger[u][j].type
    BY DEF Rows
  <2> QED
    BY <1>3, <2>3, <2>4 DEF EventRecordedOnce
<1> HIDE DEF g, T
<1>6. g \in Injection(R, T)
  BY <1>4, <1>5, Fun_IsInj
<1> QED
  BY <1>2, <1>6, FS_Injection

\* Refunds stay within payments, for every customer and total, unless the
\* database left a COMMIT unanswered (orderController.ts:484-522 and 952-960).
THEOREM RefundsStayWithinPayments == Spec => []RefundsWithinPayments
<1>1. OrdersInv /\ EventRecordedOnce => RefundsWithinPayments
  <2> SUFFICES ASSUME OrdersInv, EventRecordedOnce, NEW u \in Users, NEW a \in Amounts,
                      WalletOrders(u, a) \cap doubtful = {}
               PROVE  Cardinality(Rows(u, "order_refund", a))
                        <= Cardinality(Rows(u, "order_payment", a))
    BY DEF RefundsWithinPayments
  <2>1. SpentOnce(u, a)
    BY DEF OrdersInv
  <2>2. Cardinality(Rows(u, "order_refund", a)) \in Nat
    <3>1. Len(ledger[u]) \in Nat /\ Rows(u, "order_refund", a) \subseteq 1..Len(ledger[u])
      BY DEF OrdersInv, TypeOK, WalletTypeOK, Rows
    <3> QED
      BY <3>1, RowsCount
  <2> QED
    BY <2>1, <2>2, RefundRowsCount, CountsAreNumbers DEF SpentOnce, OrdersInv
<1> QED
  BY <1>1, OrdersAccount, OrdersKeepToWallet, EventsRecordedOnce, PTL

-----------------------------------------------------------------------------
\* What is sent to give money back is a credit nobody waits for.
RefundsAreCredits ==
  \A m \in calls : m.type = "order_refund" => m = Refund(m.user, m.amount, m.ref)

Writes(t, o) == tasks[t].pc = "write" /\ tasks[t].order = o

\* The state of one order and of its refund.  Checks that have not been
\* overtaken still hold, so a status is written once to "cancelled" and sends
\* one refund; the refund is on its way, then paid, or given up.
Follows(o) ==
  /\ \A t \in Tasks : Writes(t, o) => tasks[t].next \in AllowedNext[orders[o].status]
  /\ \A s, t \in Sends(o) : s = t
  /\ Sends(o) # {} => orders[o].status = "cancelled" /\ o \notin forgone
  /\ o \in forgone => orders[o].status = "cancelled"
  /\ OnItsWay(o) \/ Refunded(o) => RefundDue(o) /\ Sends(o) = {}
  /\ RefundDue(o) /\ Sends(o) = {} => OnItsWay(o) \/ Refunded(o)
  /\ ~(OnItsWay(o) /\ Refunded(o))

\* The inductive invariant behind RefundsFollowCancellations.
FollowInv ==
  /\ RefundsAreCredits
  /\ \A o \in forgone : orders[o] # NoRow
  /\ \A o \in OrderIds \ overtaken : orders[o] # NoRow => Follows(o)

RefundOf(o) == Refund(orders[o].user, orders[o].total, CancelRef(o))

LEMMA RefundOfIs ==
  ASSUME NEW o
  PROVE  /\ RefundOf(o).from = NoTask /\ RefundOf(o).type = "order_refund"
         /\ RefundOf(o).ref = CancelRef(o) /\ RefundOf(o).user = orders[o].user
         /\ OnItsWay(o) <=> RefundOf(o) \in calls
BY DEF RefundOf, Refund, OnItsWay

LEMMA RefsDiffer ==
  /\ \A o, p : CancelRef(o) = CancelRef(p) => o = p
  /\ \A o, u : CancelRef(o) # FailedRef(u)
BY DEF CancelRef, FailedRef

\* A refund under an order's reference is that order's.
LEMMA OwedIsOrders ==
  ASSUME NEW u, NEW a, NEW o, Owed(u, a, CancelRef(o))
  PROVE  o \in OrderIds /\ orders[o] # NoRow /\ orders[o].user = u /\ orders[o].total = a
BY RefsDiffer DEF Owed, WalletOrders

LEMMA RefundIsOrders ==
  ASSUME OrdersInv, FollowInv, NEW m \in calls, m.type = "order_refund",
         NEW o, m.ref = CancelRef(o)
  PROVE  o \in OrderIds /\ orders[o] # NoRow /\ m = RefundOf(o)
<1>1. Owed(m.user, m.amount, CancelRef(o))
  BY DEF OrdersInv, RefundsAreOwed
<1>2. o \in OrderIds /\ orders[o] # NoRow /\ orders[o].user = m.user /\ orders[o].total = m.amount
  BY <1>1, OwedIsOrders
<1>3. m = Refund(m.user, m.amount, m.ref)
  BY DEF FollowInv, RefundsAreCredits
<1> QED
  BY <1>2, <1>3 DEF RefundOf

\* An order that is not there has no refund and no handler.
LEMMA NothingOfNoOrder ==
  ASSUME OrdersInv, FollowInv, NEW o \in OrderIds, orders[o] = NoRow
  PROVE  /\ \A m \in calls : m.type = "order_refund" => m.ref # CancelRef(o)
         /\ \A u \in Users : ~Recorded(u, "order_refund", CancelRef(o))
         /\ \A t \in Tasks : tasks[t].pc \in {"write", "after"} => tasks[t].order # o
         /\ o \notin forgone
<1>1. \A m \in calls : m.type = "order_refund" => m.ref # CancelRef(o)
  BY RefundIsOrders
<1>2. ASSUME NEW u \in Users, Recorded(u, "order_refund", CancelRef(o)) PROVE FALSE
  <2>1. PICK i \in 1..Len(ledger[u]) :
          ledger[u][i].type = "order_refund" /\ ledger[u][i].ref = CancelRef(o)
    BY <1>2 DEF Recorded
  <2>2. Owed(u, ledger[u][i].amount, CancelRef(o))
    BY <2>1 DEF OrdersInv, RefundsAreOwed
  <2> QED
    BY <2>2, OwedIsOrders
<1>3. \A t \in Tasks : tasks[t].pc \in {"write", "after"} => tasks[t].order # o
  BY DEF OrdersInv, TasksFit
<1> QED
  BY <1>1, <1>2, <1>3 DEF FollowInv

LEMMA SameRecorded ==
  ASSUME UNCHANGED ledger
  PROVE  \A u, t, r : Recorded(u, t, r)' <=> Recorded(u, t, r)
BY DEF Recorded

LEMMA MoveRecords ==
  ASSUME TypeOK, NEW v \in Users, NEW d \in Directions, NEW b \in Amounts,
         NEW ty \in TxTypes, NEW r \in Refs \cup {NoRef}, Move(v, d, b, ty, r)
  PROVE  \A x, q : \A u \in Users :
           Recorded(u, x, q)' <=> Recorded(u, x, q) \/ (u = v /\ x = ty /\ q = r)
<1> DEFINE n == Len(ledger[v]) + 1
<1>1. /\ ledger'[v][n].type = ty /\ ledger'[v][n].ref = r /\ n \in 1..Len(ledger'[v])
      /\ \A u \in Users : \A i \in 1..Len(ledger[u]) :
           i \in 1..Len(ledger'[u]) /\ ledger'[u][i] = ledger[u][i]
      /\ \A u \in Users : \A i \in 1..Len(ledger'[u]) :
           \/ i \in 1..Len(ledger[u]) /\ ledger'[u][i] = ledger[u][i]
           \/ u = v /\ i = n
  <2>1. /\ Len(ledger[v]) \in Nat /\ Len(ledger'[v]) = n
        /\ ledger'[v][n] = Posting(v, d, b, ty, r)
        /\ \A u \in Users : \A i \in 1..Len(ledger[u]) :
             i \in 1..Len(ledger'[u]) /\ ledger'[u][i] = ledger[u][i]
        /\ \A u \in Users : \A i \in 1..Len(ledger'[u]) :
             \/ i \in 1..Len(ledger[u]) /\ ledger'[u][i] = ledger[u][i]
             \/ u = v /\ i = n
    BY MoveAppends DEF TypeOK
  <2>2. /\ Posting(v, d, b, ty, r).type = ty /\ Posting(v, d, b, ty, r).ref = r
        /\ n \in 1..Len(ledger'[v])
    BY <2>1 DEF Posting
  <2> QED
    BY <2>1, <2>2
<1> HIDE DEF n
<1>2. ASSUME NEW u \in Users, NEW x, NEW q
      PROVE  Recorded(u, x, q)' <=> Recorded(u, x, q) \/ (u = v /\ x = ty /\ q = r)
  BY <1>1 DEF Recorded
<1> QED
  BY <1>2
-----------------------------------------------------------------------------
\* Nothing happens to o but that handlers read it.
LEMMA QuietFollows ==
  ASSUME NEW o \in OrderIds, Follows(o), orders'[o] = orders[o],
         \A t \in Tasks : Writes(t, o)' =>
           \/ Writes(t, o) /\ tasks'[t].next = tasks[t].next
           \/ tasks'[t].next \in AllowedNext[orders[o].status],
         Sends(o)' = Sends(o), OnItsWay(o)' <=> OnItsWay(o),
         Refunded(o)' <=> Refunded(o), o \in forgone' <=> o \in forgone
  PROVE  Follows(o)'
<1>1. RefundDue(o)' <=> RefundDue(o)
  BY DEF RefundDue
<1>2. \A t \in Tasks : Writes(t, o)' => tasks'[t].next \in AllowedNext[orders[o].status]
  BY DEF Follows
<1> QED
  BY <1>1, <1>2 DEF Follows

\* A step of a handler that sends no refund of an order.
LEMMA HandlerFollows ==
  ASSUME OrdersInv, FollowInv, NEW t \in Tasks, NEW k, tasks' = [tasks EXCEPT ![t] = k],
         k.pc # "after", tasks[t].pc = "after" => tasks[t].next # "cancelled",
         k.pc = "write" => k.next \in AllowedNext[orders[k.order].status],
         UNCHANGED <<ledger, overtaken, forgone>>,
         NEW o \in OrderIds \ overtaken, orders[o] # NoRow, orders'[o] = orders[o],
         RefundOf(o) \in calls' <=> RefundOf(o) \in calls
  PROVE  Follows(o)'
<1>1. tasks'[t] = k /\ \A s \in Tasks : s # t => tasks'[s] = tasks[s]
  BY DEF OrdersInv, TypeOK
<1>2. Sends(o)' = Sends(o)
  BY <1>1 DEF Sends
<1>3. \A s \in Tasks : Writes(s, o)' =>
        \/ Writes(s, o) /\ tasks'[s].next = tasks[s].next
        \/ tasks'[s].next \in AllowedNext[orders[o].status]
  BY <1>1 DEF Writes
<1>4. OnItsWay(o)' <=> OnItsWay(o)
  BY DEF OnItsWay, RefundOf
<1>5. Refunded(o)' <=> Refunded(o)
  BY SameRecorded DEF Refunded
<1> QED
  BY <1>2, <1>3, <1>4, <1>5, QuietFollows DEF FollowInv

\* A new order: nothing of it is anywhere yet.
LEMMA NewFollows ==
  ASSUME OrdersInv, FollowInv, NEW o \in OrderIds, orders[o] = NoRow,
         orders'[o].status = "pending", orders'[o].user \in Users,
         NEW t \in Tasks, End(t), UNCHANGED <<ledger, forgone>>,
         \A m \in calls' : m \in calls \/ m.ref # CancelRef(o)
  PROVE  Follows(o)'
<1>1. /\ \A m \in calls : m.type = "order_refund" => m.ref # CancelRef(o)
      /\ \A u \in Users : ~Recorded(u, "order_refund", CancelRef(o))
      /\ \A s \in Tasks : tasks[s].pc \in {"write", "after"} => tasks[s].order # o
      /\ o \notin forgone
  BY NothingOfNoOrder
<1>2. tasks'[t].pc = "idle" /\ \A s \in Tasks : s # t => tasks'[s] = tasks[s]
  BY DEF End, OrdersInv, TypeOK, Idle
<1>3. Sends(o)' = {} /\ \A s \in Tasks : ~Writes(s, o)'
  BY <1>1, <1>2 DEF Sends, Writes
<1>4. ~OnItsWay(o)'
  BY <1>1 DEF OnItsWay, Refund
<1>5. ~Refunded(o)'
  BY <1>1, SameRecorded DEF Refunded
<1>6. ~RefundDue(o)'
  BY DEF RefundDue
<1> QED
  BY <1>1, <1>3, <1>4, <1>5, <1>6 DEF Follows


-----------------------------------------------------------------------------
\* Sooner than its effects on orders: what a step does to the requests.
LEMMA CreditsStay ==
  ASSUME OrdersInv, RefundsAreCredits,
         \A m \in calls' : m.type = "order_refund" =>
           \/ m \in calls
           \/ \E u, a, r : m = Refund(u, a, r)
  PROVE  RefundsAreCredits'
<1>1. \A u, a, r : /\ Refund(u, a, r).user = u /\ Refund(u, a, r).amount = a
                   /\ Refund(u, a, r).ref = r
  BY DEF Refund
<1> QED
  BY <1>1 DEF RefundsAreCredits

\* Requests that go on alone are payments.
LEMMA DetachedRefunds ==
  ASSUME OrdersInv, NEW t \in Tasks
  PROVE  /\ \A m \in Detached(t) : m.type = "order_refund" => m \in calls
         /\ \A m \in calls : m.from = NoTask => m \in Detached(t)
<1>1. ASSUME NEW m \in Detached(t), m.type = "order_refund" PROVE m \in calls
  <2>1. PICK c \in calls : m = IF c.from = t THEN [c EXCEPT !.from = NoTask] ELSE c
    BY DEF Detached
  <2>2. c \in Request
    BY DEF OrdersInv, TypeOK
  <2>3. CASE c.from = t
    <3>1. c = Payment(t, tasks[t].user, tasks[t].total)
      BY <2>2, <2>3 DEF OrdersInv, TasksFit
    <3>2. c.type = "order_payment"
      BY <3>1 DEF Payment
    <3>3. m.type = c.type
      BY <2>1, <2>2, <2>3 DEF Request
    <3> QED
      BY <1>1, <3>2, <3>3
  <2>4. CASE c.from # t
    BY <2>1, <2>4
  <2> QED
    BY <2>3, <2>4
<1>2. ASSUME NEW m \in calls, m.from = NoTask PROVE m \in Detached(t)
  BY <1>2 DEF Detached
<1> QED
  BY <1>1, <1>2

LEMMA CreateOrderFollows ==
  ASSUME OrdersInv, FollowInv, NEW t \in Tasks, NEW u \in Users,
         NEW pay \in {"cash", "wallet"}, NEW a \in Amounts, CreateOrder(t, u, pay, a)
  PROVE  FollowInv'
<1> DEFINE k == [pc |-> IF pay = "wallet" THEN "debit" ELSE "insert",
                 user |-> u, payment |-> pay, total |-> a]
<1>1. tasks' = [tasks EXCEPT ![t] = k] /\ k.pc \in {"debit", "insert"}
  BY DEF CreateOrder
<1>2. UNCHANGED <<orders, ledger, overtaken, forgone>> /\ tasks[t].pc = "idle"
  BY DEF CreateOrder, Idle
<1>3. Payment(t, u, a).type = "order_payment"
  BY DEF Payment
<1>4. \A m : m.type = "order_refund" => (m \in calls' <=> m \in calls)
  BY <1>3 DEF CreateOrder
<1>5. RefundsAreCredits'
  BY <1>4, CreditsStay DEF FollowInv
<1> HIDE DEF k
<1>6. ASSUME NEW o \in OrderIds \ overtaken, orders[o] # NoRow PROVE Follows(o)'
  <2>1. RefundOf(o) \in calls' <=> RefundOf(o) \in calls
    BY <1>4, RefundOfIs
  <2> QED
    BY <1>1, <1>2, <1>6, <2>1, HandlerFollows
<1> QED
  BY <1>2, <1>5, <1>6 DEF FollowInv

LEMMA ReadForUpdateFollows ==
  ASSUME OrdersInv, FollowInv, NEW t \in Tasks, NEW p \in OrderIds, NEW next \in Statuses,
         ReadForUpdate(t, p, next)
  PROVE  FollowInv'
<1> DEFINE k == [pc |-> "write", order |-> p, next |-> next]
<1>1. /\ tasks' = [tasks EXCEPT ![t] = k] /\ k.pc = "write"
      /\ k.next \in AllowedNext[orders[k.order].status]
  BY DEF ReadForUpdate
<1>2. UNCHANGED <<orders, calls, ledger, overtaken, forgone>> /\ tasks[t].pc = "idle"
  BY DEF ReadForUpdate, Idle
<1>3. RefundsAreCredits'
  BY <1>2, CreditsStay DEF FollowInv
<1> HIDE DEF k
<1>4. ASSUME NEW o \in OrderIds \ overtaken, orders[o] # NoRow PROVE Follows(o)'
  BY <1>1, <1>2, <1>4, HandlerFollows
<1> QED
  BY <1>2, <1>3, <1>4 DEF FollowInv

\* The end of a creation, with a new order or none.
LEMMA CreationFollows ==
  ASSUME OrdersInv, FollowInv, NEW t \in Tasks,
         CreationFails(t) \/ \E p \in OrderIds : OrderCreated(t, p) \/ CommitUnanswered(t, p)
  PROVE  FollowInv'
<1> DEFINE v == tasks[t].user
           m0 == Refund(v, tasks[t].total, FailedRef(v))
<1>1. /\ tasks' = [tasks EXCEPT ![t] = Idle] /\ Idle.pc = "idle" /\ tasks[t].pc = "insert"
      /\ UNCHANGED <<ledger, overtaken, forgone>> /\ End(t)
  BY DEF CreationFails, OrderCreated, CommitUnanswered, InsertOrder, End, Idle
<1>2. m0.type = "order_refund" /\ m0.ref = FailedRef(v)
  BY DEF Refund
<1>3. \A m : m \in calls' <=> m \in calls \/ (m = m0 /\ m0 \in calls')
  BY DEF CreationFails, OrderCreated, CommitUnanswered, RefundCreation
<1>4. tasks[t] \in Creation /\ v \in Users
  BY <1>1, PcTells DEF OrdersInv, TypeOK, Creation
<1>5. RefundsAreCredits'
  BY <1>3, CreditsStay DEF FollowInv
<1>6. \A o \in OrderIds : orders[o] # NoRow => orders'[o] = orders[o]
  BY DEF CreationFails, OrderCreated, CommitUnanswered, InsertOrder, OrdersInv, TypeOK
<1>7. \A o \in OrderIds : orders[o] = NoRow /\ orders'[o] # NoRow =>
        orders'[o].status = "pending" /\ orders'[o].user = v
  BY DEF CreationFails, OrderCreated, CommitUnanswered, InsertOrder, OrdersInv, TypeOK
<1> HIDE DEF m0, v
<1>8. ASSUME NEW o \in OrderIds \ overtaken, orders'[o] # NoRow PROVE Follows(o)'
  <2>1. CASE orders[o] # NoRow
    <3>1. RefundOf(o) \in calls' <=> RefundOf(o) \in calls
      BY <1>2, <1>3, RefundOfIs, RefsDiffer
    <3> QED
      BY <1>1, <1>6, <2>1, <3>1, HandlerFollows
  <2>2. CASE orders[o] = NoRow
    <3>1. \A m \in calls' : m \in calls \/ m.ref # CancelRef(o)
      BY <1>2, <1>3, RefsDiffer
    <3> QED
      BY <1>1, <1>4, <1>7, <1>8, <2>2, <3>1, NewFollows
  <2> QED
    BY <2>1, <2>2
<1>9. \A o \in forgone' : orders'[o] # NoRow
  BY <1>1, <1>6 DEF FollowInv, OrdersInv, TypeOK
<1> QED
  BY <1>1, <1>5, <1>8, <1>9 DEF FollowInv

LEMMA WriteStatusFollows ==
  ASSUME OrdersInv, FollowInv, NEW t \in Tasks, WriteStatus(t)
  PROVE  FollowInv'
<1>1. /\ tasks[t] \in Update /\ tasks[t].pc = "write"
      /\ orders[tasks[t].order] # NoRow
  BY PcTells DEF WriteStatus, OrdersInv, TypeOK, TasksFit
<1>2. PICK p \in OrderIds, next \in Statuses :
        /\ tasks[t].order = p /\ tasks[t].next = next
        /\ orders[p] # NoRow /\ orders[p] \in Order
  BY <1>1 DEF Update, OrdersInv, TypeOK
<1>3. /\ orders'[p].status = next /\ orders'[p].payment = orders[p].payment
      /\ orders'[p].user = orders[p].user /\ orders'[p].total = orders[p].total
      /\ \A o \in OrderIds : o # p => orders'[o] = orders[o]
  <2>1. /\ orders'[p] = [orders[p] EXCEPT !.status = next]
        /\ \A o \in OrderIds : o # p => orders'[o] = orders[o]
    BY <1>2 DEF WriteStatus, OrdersInv, TypeOK
  <2> QED
    BY <1>2, <2>1 DEF Order
<1>4. /\ tasks'[t].pc = "after" /\ tasks'[t].order = p /\ tasks'[t].next = next
      /\ \A s \in Tasks : s # t => tasks'[s] = tasks[s]
  <2>1. /\ tasks'[t] = [tasks[t] EXCEPT !.pc = "after"]
        /\ \A s \in Tasks : s # t => tasks'[s] = tasks[s]
    BY DEF WriteStatus, OrdersInv, TypeOK
  <2> QED
    BY <1>1, <1>2, <2>1 DEF Update
<1>5. UNCHANGED <<calls, ledger, forgone>> /\ overtaken \subseteq overtaken'
  BY DEF WriteStatus
<1>6. \A s \in Tasks : s # t /\ Writes(s, p) => p \in overtaken'
  BY <1>2 DEF WriteStatus, Writes
<1>7. \A o \in OrderIds : orders'[o] # NoRow => orders[o] # NoRow
  BY <1>2, <1>3
<1>8. \A o \in forgone' : orders'[o] # NoRow
  <2>1. orders'[p].status # "none"
    BY <1>2, <1>3 DEF Statuses
  <2>2. orders'[p] # NoRow
    BY <2>1 DEF NoRow
  <2> QED
    BY <1>3, <1>5, <2>2 DEF FollowInv, OrdersInv, TypeOK
<1>9. ASSUME NEW o \in OrderIds \ overtaken', orders'[o] # NoRow, o # p PROVE Follows(o)'
  <2>1. Follows(o)
    BY <1>5, <1>7, <1>9 DEF FollowInv
  <2>2. Sends(o)' = Sends(o)
    BY <1>1, <1>4, <1>9 DEF Sends
  <2>3. \A s \in Tasks : Writes(s, o)' => Writes(s, o) /\ tasks'[s].next = tasks[s].next
    BY <1>1, <1>4, <1>9 DEF Writes
  <2>4. OnItsWay(o)' <=> OnItsWay(o)
    BY <1>3, <1>5, <1>9 DEF OnItsWay
  <2>5. Refunded(o)' <=> Refunded(o)
    BY <1>3, <1>5, <1>9, SameRecorded DEF Refunded
  <2> QED
    BY <1>3, <1>5, <1>9, <2>1, <2>2, <2>3, <2>4, <2>5, QuietFollows
<1>10. ASSUME p \notin overtaken' PROVE Follows(p)'
  <2>1. Follows(p)
    BY <1>2, <1>5, <1>10 DEF FollowInv
  <2>2. next \in AllowedNext[orders[p].status]
    BY <1>1, <1>2, <2>1 DEF Follows, Writes
  <2>3. orders[p].status # "cancelled"
    BY <2>2 DEF AllowedNext
  <2>4. Sends(p) = {} /\ p \notin forgone /\ ~OnItsWay(p) /\ ~Refunded(p)
    BY <2>1, <2>3 DEF Follows, RefundDue
  <2>5. Sends(p)' = IF next = "cancelled" THEN {t} ELSE {}
    BY <1>4, <2>4 DEF Sends
  <2>6. \A s \in Tasks : ~Writes(s, p)'
    BY <1>4, <1>6, <1>10 DEF Writes
  <2>7. ~OnItsWay(p)'
    BY <1>3, <1>5, <2>4 DEF OnItsWay
  <2>8. ~Refunded(p)'
    BY <1>3, <1>5, <2>4, SameRecorded DEF Refunded
  <2>9. RefundDue(p)' => next = "cancelled"
    BY <1>3 DEF RefundDue
  <2> QED
    BY <1>3, <1>5, <2>4, <2>5, <2>6, <2>7, <2>8, <2>9 DEF Follows
<1>11. RefundsAreCredits'
  BY <1>5, CreditsStay DEF FollowInv
<1> QED
  BY <1>8, <1>9, <1>10, <1>11 DEF FollowInv

\* A handler leaves an order whose cancellation it wrote: what is left of the
\* refund is on its way or forgone.
LEMMA NotifyFollows ==
  ASSUME OrdersInv, FollowInv, NEW t \in Tasks, Notify(t)
  PROVE  FollowInv'
<1>1. /\ tasks' = [tasks EXCEPT ![t] = Idle] /\ Idle.pc = "idle" /\ tasks[t].pc = "after"
      /\ UNCHANGED <<orders, ledger, overtaken, forgone>>
  BY DEF Notify, End, Idle
<1>2. PICK p \in OrderIds : tasks[t].order = p /\ orders[p] # NoRow
  BY <1>1, PcTells DEF Update, OrdersInv, TypeOK, TasksFit
<1>3. calls' = IF tasks[t].next = "cancelled" /\ orders[p].payment = "wallet"
                 THEN calls \cup {RefundOf(p)} ELSE calls
  BY <1>2 DEF Notify, RefundOf
<1>4. RefundsAreCredits'
  BY <1>3, CreditsStay DEF FollowInv, RefundOf
<1>5. tasks'[t].pc = "idle" /\ \A s \in Tasks : s # t => tasks'[s] = tasks[s]
  BY <1>1 DEF OrdersInv, TypeOK
<1>6. ASSUME NEW o \in OrderIds \ overtaken, orders[o] # NoRow PROVE Follows(o)'
  <2>1. Follows(o)
    BY <1>6 DEF FollowInv
  <2>2. \A s \in Tasks : Writes(s, o)' => Writes(s, o) /\ tasks'[s].next = tasks[s].next
    BY <1>5 DEF Writes
  <2>3. Refunded(o)' <=> Refunded(o)
    BY <1>1, SameRecorded DEF Refunded
  <2>4. OnItsWay(o)' <=> RefundOf(o) \in calls'
    BY <1>1 DEF OnItsWay, RefundOf
  <2>5. CASE t \notin Sends(o)
    <3>1. Sends(o)' = Sends(o)
      BY <1>5, <2>5 DEF Sends
    <3>2. RefundOf(o) \in calls' => RefundOf(o) \in calls
      <4>1. CASE o = p
        BY <1>1, <1>2, <1>3, <2>5, <4>1 DEF Sends
      <4>2. CASE o # p
        BY <1>3, <4>2, RefundOfIs, RefsDiffer
      <4> QED
        BY <4>1, <4>2
    <3>3. OnItsWay(o)' <=> OnItsWay(o)
      BY <1>3, <2>4, <3>2, RefundOfIs
    <3> QED
      BY <1>1, <2>1, <2>2, <2>3, <3>1, <3>3, QuietFollows
  <2>6. CASE t \in Sends(o)
    <3>1. o = p /\ tasks[t].next = "cancelled" /\ Sends(o) = {t}
      BY <1>2, <2>1, <2>6 DEF Sends, Follows
    <3>2. /\ orders[o].status = "cancelled" /\ o \notin forgone
          /\ ~OnItsWay(o) /\ ~Refunded(o)
      BY <2>1, <2>6 DEF Follows
    <3>3. Sends(o)' = {}
      BY <1>5, <3>1 DEF Sends
    <3>4. OnItsWay(o)' <=> orders[o].payment = "wallet"
      BY <1>3, <2>4, <3>1, <3>2, RefundOfIs
    <3>5. RefundDue(o)' <=> orders[o].payment = "wallet"
      BY <1>1, <3>2 DEF RefundDue
    <3> QED
      BY <1>1, <2>1, <2>2, <2>3, <3>2, <3>3, <3>4, <3>5 DEF Follows
  <2> QED
    BY <2>5, <2>6
<1> QED
  BY <1>1, <1>4, <1>6 DEF FollowInv

LEMMA StopFollows ==
  ASSUME OrdersInv, FollowInv, NEW t \in Tasks, Stop(t)
  PROVE  FollowInv'
<1>1. /\ tasks' = [tasks EXCEPT ![t] = Idle] /\ Idle.pc = "idle"
      /\ UNCHANGED <<orders, ledger, overtaken>> /\ calls' = Detached(t)
  BY DEF Stop, End, Idle
<1>2. tasks'[t].pc = "idle" /\ \A s \in Tasks : s # t => tasks'[s] = tasks[s]
  BY <1>1 DEF OrdersInv, TypeOK
<1>3. RefundsAreCredits'
  BY <1>1, DetachedRefunds, CreditsStay DEF FollowInv
<1>4. \A o : OnItsWay(o)' <=> OnItsWay(o)
  BY <1>1, DetachedRefunds, RefundOfIs DEF OnItsWay, RefundOf
<1>5. forgone' = IF tasks[t].pc = "after" /\ tasks[t].next = "cancelled"
                   THEN forgone \cup {tasks[t].order} ELSE forgone
  BY DEF Stop
<1>6. \A o \in forgone' : orders'[o] # NoRow
  BY <1>1, <1>5 DEF FollowInv, OrdersInv, TasksFit
<1>7. ASSUME NEW o \in OrderIds \ overtaken, orders[o] # NoRow PROVE Follows(o)'
  <2>1. Follows(o)
    BY <1>7 DEF FollowInv
  <2>2. \A s \in Tasks : Writes(s, o)' => Writes(s, o) /\ tasks'[s].next = tasks[s].next
    BY <1>2 DEF Writes
  <2>3. Refunded(o)' <=> Refunded(o)
    BY <1>1, SameRecorded DEF Refunded
  <2>4. CASE t \notin Sends(o)
    <3>1. Sends(o)' = Sends(o)
      BY <1>2, <2>4 DEF Sends
    <3>2. o \in forgone' <=> o \in forgone
      BY <1>5, <2>4 DEF Sends
    <3> QED
      BY <1>1, <1>4, <2>1, <2>2, <2>3, <3>1, <3>2, QuietFollows
  <2>5. CASE t \in Sends(o)
    <3>1. Sends(o) = {t} /\ o \in forgone'
      BY <1>5, <2>1, <2>5 DEF Sends, Follows
    <3>2. /\ orders[o].status = "cancelled" /\ ~OnItsWay(o) /\ ~Refunded(o)
      BY <2>1, <2>5 DEF Follows
    <3>3. Sends(o)' = {}
      BY <1>2, <3>1 DEF Sends
    <3>4. ~RefundDue(o)'
      BY <3>1 DEF RefundDue
    <3> QED
      BY <1>1, <1>4, <2>1, <2>2, <2>3, <3>1, <3>2, <3>3, <3>4 DEF Follows
  <2> QED
    BY <2>4, <2>5
<1> QED
  BY <1>1, <1>3, <1>6, <1>7 DEF FollowInv

\* An answer is one less request, and nothing to the handlers of orders.
LEMMA AnswerLeaves ==
  ASSUME OrdersInv, NEW m \in calls, NEW ok \in BOOLEAN, Answer(m, ok), NEW o
  PROVE  /\ Sends(o)' = Sends(o)
         /\ \A t \in Tasks : Writes(t, o)' => Writes(t, o) /\ tasks'[t].next = tasks[t].next
         /\ OnItsWay(o)' <=> OnItsWay(o) /\ m # RefundOf(o)
         /\ UNCHANGED <<orders, overtaken>>
<1>1. calls' = calls \ {m} /\ UNCHANGED <<orders, overtaken>>
  BY DEF Answer
<1>2. OnItsWay(o)' <=> OnItsWay(o) /\ m # RefundOf(o)
  BY <1>1 DEF OnItsWay, RefundOf
<1>3. CASE m.from = NoTask
  <2>1. tasks' = tasks
    BY <1>3 DEF Answer
  <2> QED
    BY <1>1, <1>2, <2>1 DEF Sends, Writes
<1>4. CASE m.from # NoTask
  <2>1. m \in Request /\ m.from \in Tasks /\ tasks[m.from].pc = "debit"
    BY <1>4 DEF OrdersInv, TypeOK, TasksFit, Request
  <2>2. tasks[m.from] \in Creation
    BY <2>1, PcTells DEF OrdersInv, TypeOK
  <2>3. /\ tasks'[m.from] = [tasks[m.from] EXCEPT !.pc = "insert"] \/ tasks'[m.from] = Idle
        /\ \A s \in Tasks : s # m.from => tasks'[s] = tasks[s]
    BY <1>4, <2>1 DEF Answer, OrdersInv, TypeOK
  <2>4. tasks'[m.from].pc \in {"insert", "idle"}
    BY <2>2, <2>3 DEF Creation, Idle
  <2> QED
    BY <1>1, <1>2, <2>1, <2>3, <2>4 DEF Sends, Writes
<1> QED
  BY <1>3, <1>4

LEMMA WalletMovesFollows ==
  ASSUME OrdersInv, FollowInv, NEW m \in calls, WalletMoves(m)
  PROVE  FollowInv'
<1>1. /\ m.user \in Users /\ m.direction \in Directions /\ m.amount \in Amounts
      /\ m.type \in TxTypes /\ m.ref \in Refs
      /\ Move(m.user, m.direction, m.amount, m.type, m.ref)
      /\ Answer(m, TRUE) /\ UNCHANGED <<orders, overtaken, forgone>> /\ calls' \subseteq calls
  BY DEF OrdersInv, TypeOK, Request, WalletMoves, Answer
<1>2. RefundsAreCredits'
  BY <1>1, CreditsStay DEF FollowInv
<1>3. ASSUME NEW o \in OrderIds \ overtaken, orders[o] # NoRow PROVE Follows(o)'
  <2>1. Follows(o)
    BY <1>3 DEF FollowInv
  <2>2. orders[o].user \in Users
    BY <1>3 DEF OrdersInv, TypeOK, Order
  <2>3. Refunded(o)' <=> \/ Refunded(o)
                         \/ /\ m.user = orders[o].user /\ m.type = "order_refund"
                            /\ m.ref = CancelRef(o)
    <3>1. PICK u \in Users : orders[o].user = u /\ orders'[o].user = u
      BY <1>1, <2>2
    <3>2. \A x, q : Recorded(u, x, q)' <=>
                      Recorded(u, x, q) \/ (u = m.user /\ x = m.type /\ q = m.ref)
      BY <1>1, MoveRecords DEF OrdersInv
    <3> QED
      BY <3>1, <3>2 DEF Refunded
  <2>4. /\ Sends(o)' = Sends(o)
        /\ \A t \in Tasks : Writes(t, o)' => Writes(t, o) /\ tasks'[t].next = tasks[t].next
        /\ OnItsWay(o)' <=> OnItsWay(o) /\ m # RefundOf(o)
    BY <1>1, AnswerLeaves
  <2>5. CASE m = RefundOf(o)
    <3>1. OnItsWay(o) /\ Refunded(o)'
      BY <2>3, <2>5, RefundOfIs
    <3>2. RefundDue(o)' <=> RefundDue(o)
      BY <1>1 DEF RefundDue
    <3> QED
      BY <1>1, <2>1, <2>4, <2>5, <3>1, <3>2 DEF Follows
  <2>6. CASE m # RefundOf(o)
    <3>1. ~(m.type = "order_refund" /\ m.ref = CancelRef(o))
      BY <2>6, RefundIsOrders
    <3> QED
      BY <1>1, <2>1, <2>3, <2>4, <2>6, <3>1, QuietFollows
  <2> QED
    BY <2>5, <2>6
<1> QED
  BY <1>1, <1>2, <1>3 DEF FollowInv

LEMMA CallFailsFollows ==
  ASSUME OrdersInv, FollowInv, NEW m \in calls, WalletRefuses(m) \/ CallLost(m)
  PROVE  FollowInv'
<1>1. /\ Answer(m, FALSE) /\ UNCHANGED <<orders, overtaken, ledger>> /\ calls' \subseteq calls
      /\ forgone' = forgone \cup RefundedBy(m)
  BY DEF WalletRefuses, CallLost, Answer, walletVars
<1>2. RefundsAreCredits'
  BY <1>1, CreditsStay DEF FollowInv
<1>3. \A o \in RefundedBy(m) : m = RefundOf(o) /\ orders[o] # NoRow
  BY RefundIsOrders DEF RefundedBy
<1>4. \A o \in OrderIds : m = RefundOf(o) => o \in RefundedBy(m)
  BY RefundOfIs DEF RefundedBy
<1>5. \A o \in forgone' : orders'[o] # NoRow
  BY <1>1, <1>3 DEF FollowInv
<1>6. ASSUME NEW o \in OrderIds \ overtaken, orders[o] # NoRow PROVE Follows(o)'
  <2>1. Follows(o)
    BY <1>6 DEF FollowInv
  <2>2. Refunded(o)' <=> Refunded(o)
    BY <1>1, SameRecorded DEF Refunded
  <2>3. /\ Sends(o)' = Sends(o)
        /\ \A t \in Tasks : Writes(t, o)' => Writes(t, o) /\ tasks'[t].next = tasks[t].next
        /\ OnItsWay(o)' <=> OnItsWay(o) /\ m # RefundOf(o)
    BY <1>1, AnswerLeaves
  <2>4. CASE m = RefundOf(o)
    <3>1. OnItsWay(o) /\ o \in forgone' /\ ~OnItsWay(o)'
      BY <1>1, <1>4, <2>3, <2>4, RefundOfIs
    <3>2. ~RefundDue(o)'
      BY <3>1 DEF RefundDue
    <3>3. RefundDue(o) /\ Sends(o) = {} /\ ~Refunded(o)
      BY <2>1, <3>1 DEF Follows
    <3>4. orders[o].status = "cancelled"
      BY <3>3 DEF RefundDue
    <3> QED
      BY <1>1, <2>1, <2>2, <2>3, <3>1, <3>2, <3>3, <3>4 DEF Follows
  <2>5. CASE m # RefundOf(o)
    <3>1. o \in forgone' <=> o \in forgone
      BY <1>1, <1>3, <2>5
    <3> QED
      BY <1>1, <2>1, <2>2, <2>3, <2>5, <3>1, QuietFollows
  <2> QED
    BY <2>4, <2>5
<1> QED
  BY <1>1, <1>2, <1>5, <1>6 DEF FollowInv

LEMMA OtherUseFollows ==
  ASSUME OrdersInv, FollowInv, (\E v \in Users : OtherWalletUse(v)) \/ UNCHANGED vars
  PROVE  FollowInv'
<1>1. UNCHANGED <<orders, tasks, calls, overtaken, forgone>>
  BY DEF OtherWalletUse, orderVars, vars
<1>2. \A r : \A u \in Users :
        Recorded(u, "order_refund", r)' <=> Recorded(u, "order_refund", r)
  <2>1. CASE UNCHANGED ledger
    BY <2>1, SameRecorded
  <2>2. CASE \E v \in Users, b \in TopUps : Credit(v, b, "topup", NoRef)
    <3>1. PICK v \in Users, b \in TopUps : Move(v, "credit", b, "topup", NoRef)
      BY <2>2 DEF Credit
    <3>2. "credit" \in Directions /\ b \in Amounts /\ "topup" \in TxTypes
      BY DEF Directions
    <3> QED
      BY <3>1, <3>2, MoveRecords DEF OrdersInv
  <2> QED
    BY <2>1, <2>2 DEF OtherWalletUse, EnsureWallet, vars
<1>3. RefundsAreCredits'
  BY <1>1, CreditsStay DEF FollowInv
<1>4. ASSUME NEW o \in OrderIds \ overtaken, orders[o] # NoRow PROVE Follows(o)'
  <2>1. Follows(o) /\ orders[o].user \in Users
    BY <1>4 DEF FollowInv, OrdersInv, TypeOK, Order
  <2>2. Refunded(o)' <=> Refunded(o)
    <3>1. Recorded(orders[o].user, "order_refund", CancelRef(o))' <=>
            Recorded(orders[o].user, "order_refund", CancelRef(o))
      BY <1>1, <1>2, <2>1 DEF Recorded
    <3> QED
      BY <3>1 DEF Refunded
  <2>3. Sends(o)' = Sends(o) /\ \A t \in Tasks : Writes(t, o)' <=> Writes(t, o)
    BY <1>1 DEF Sends, Writes
  <2>4. OnItsWay(o)' <=> OnItsWay(o)
    BY <1>1 DEF OnItsWay
  <2> QED
    BY <1>1, <2>1, <2>2, <2>3, <2>4, QuietFollows
<1> QED
  BY <1>1, <1>3, <1>4 DEF FollowInv

LEMMA FollowNext == OrdersInv /\ FollowInv /\ [Next]_vars => FollowInv'
BY CreateOrderFollows, ReadForUpdateFollows, CreationFollows, WriteStatusFollows,
   NotifyFollows, StopFollows, WalletMovesFollows, CallFailsFollows, OtherUseFollows
   DEF Next

LEMMA FollowInit == Init => FollowInv
BY DEF Init, FollowInv, RefundsAreCredits

\* Of an order whose checks were not overtaken exactly one refund is about to
\* be asked for, on its way or paid if it is a cancelled wallet order, and none
\* if it is not, for any number of orders, handlers and requests
\* (orderController.ts:883-960).
THEOREM RefundsFollow == Spec => []RefundsFollowCancellations
<1>1. FollowInv => RefundsFollowCancellations
  <2> SUFFICES ASSUME NEW o \in OrderIds, Follows(o)
               PROVE  IF RefundDue(o)
                        THEN \/ /\ (\E t \in Tasks : Sends(o) = {t})
                                /\ ~OnItsWay(o) /\ ~Refunded(o)
                             \/ Sends(o) = {} /\ (OnItsWay(o) <=> ~Refunded(o))
                        ELSE ~OnItsWay(o) /\ ~Refunded(o)
    BY DEF FollowInv, RefundsFollowCancellations
  <2>1. CASE Sends(o) = {}
    BY <2>1 DEF Follows
  <2>2. CASE Sends(o) # {}
    <3>1. PICK t \in Tasks : t \in Sends(o)
      BY <2>2 DEF Sends
    <3>2. Sends(o) = {t}
      BY <3>1 DEF Follows
    <3> QED
      BY <2>2, <3>2 DEF Follows
  <2> QED
    BY <2>1, <2>2
<1> QED
  BY <1>1, FollowInit, FollowNext, OrdersAccount, PTL DEF Spec
=============================================================================
