------------------------------- MODULE Orders -------------------------------
(***************************************************************************)
(* The order service: createOrder() and updateOrderStatus(), which keep    *)
(* orders.orders and pay for and refund orders by HTTP calls to the wallet *)
(* service.  There is no transaction across the two: an order is a debit   *)
(* call, then a row, then perhaps a refund call, and every call may be     *)
(* refused, lost, answered too late, or made by a process that dies.       *)
(*                                                                         *)
(* The wallet service is Wallet; its other users are OtherWalletUse.  The  *)
(* service token is configured: without it walletDebit() and               *)
(* walletRefund() return at once and nothing is paid.                      *)
(***************************************************************************)
EXTENDS Wallet, FiniteSets

CONSTANTS
  Tasks,        \* slots for concurrently running handlers
  NoTask,       \* nobody waits for the answer of a call
  OrderIds,
  TopUps,       \* amounts customers top up
  MaxPostings   \* bound on the ledger a top-up is booked on

\* References the order service sends.  A payment carries the customer's id,
\* because the order has none yet.
PaymentRef(u) == <<"order", u>>
CancelRef(o) == <<"order", o>>
FailedRef(u) == <<"order_creation_failed", u>>

ASSUME OrdersAssumption ==
  /\ {"topup", "order_payment", "order_refund"} \subseteq TxTypes
  /\ \A u \in Users : {PaymentRef(u), FailedRef(u)} \subseteq Refs
  /\ \A o \in OrderIds : CancelRef(o) \in Refs
  /\ Users \cap OrderIds = {}
  /\ IsFiniteSet(Tasks) /\ IsFiniteSet(OrderIds)
  /\ NoTask \notin Tasks
  /\ TopUps \subseteq Amounts
  /\ MaxPostings \in Nat

VARIABLES
  orders,       \* orders.orders
  tasks,        \* the running handlers
  calls,        \* requests to the wallet service that are on their way
  doubtful,     \* history: orders whose COMMIT was never answered
  overtaken,    \* history: orders written while another handler held a check of them
  forgone       \* history: orders whose refund was not asked for, lost or refused

history == <<doubtful, overtaken, forgone>>
orderVars == <<orders, tasks, calls, history>>
vars == <<opened, balance, frozen, ledger, orders, tasks, calls, history>>

Statuses == {"pending", "confirmed", "preparing", "ready_for_pickup",
             "out_for_delivery", "delivered", "cancelled"}

AllowedNext ==
  [pending |-> {"confirmed", "cancelled"},
   confirmed |-> {"preparing", "cancelled"},
   preparing |-> {"ready_for_pickup", "cancelled"},
   ready_for_pickup |-> {"out_for_delivery", "cancelled"},
   out_for_delivery |-> {"delivered", "cancelled"},
   delivered |-> {}, cancelled |-> {}]

NoRow == [status |-> "none"]
Idle == [pc |-> "idle"]

\* Cash and card orders differ in nothing the service does.
Order == [status : Statuses, user : Users, payment : {"cash", "wallet"}, total : Amounts]
Creation == [pc : {"debit", "insert"}, user : Users, payment : {"cash", "wallet"},
             total : Amounts]
Update == [pc : {"write", "after"}, order : OrderIds, next : Statuses]

\* A request to POST /internal/debit or /internal/credit.  Two equal requests
\* count as one: the second would meet the first one's key.
Request == [from : Tasks \cup {NoTask}, user : Users, direction : Directions,
            amount : Amounts, type : TxTypes, ref : Refs]

TypeOK ==
  /\ WalletTypeOK
  /\ orders \in [OrderIds -> Order \cup {NoRow}]
  /\ tasks \in [Tasks -> Creation \cup Update \cup {Idle}]
  /\ calls \subseteq Request
  /\ doubtful \cup overtaken \cup forgone \subseteq OrderIds

Init ==
  /\ WalletInit
  /\ orders = [o \in OrderIds |-> NoRow]
  /\ tasks = [t \in Tasks |-> Idle]
  /\ calls = {}
  /\ doubtful = {} /\ overtaken = {} /\ forgone = {}

-----------------------------------------------------------------------------
End(t) == tasks' = [tasks EXCEPT ![t] = Idle]

Payment(t, u, a) ==
  [from |-> t, user |-> u, direction |-> "debit", amount |-> a,
   type |-> "order_payment", ref |-> PaymentRef(u)]

\* walletRefund(): no caller looks at the answer, so none is kept.
Refund(u, a, r) ==
  [from |-> NoTask, user |-> u, direction |-> "credit", amount |-> a,
   type |-> "order_refund", ref |-> r]

\* POST /orders up to its first effect: the menu, prices and address are
\* checked, then a wallet order asks for its debit.
CreateOrder(t, u, pay, a) ==
  /\ tasks[t] = Idle
  /\ tasks' = [tasks EXCEPT ![t] =
       [pc |-> IF pay = "wallet" THEN "debit" ELSE "insert",
        user |-> u, payment |-> pay, total |-> a]]
  /\ calls' = IF pay = "wallet" THEN calls \cup {Payment(t, u, a)} ELSE calls
  /\ UNCHANGED <<opened, balance, frozen, ledger, orders, history>>

\* Order.create() commits the row and its items.
InsertOrder(t, o) ==
  /\ tasks[t].pc = "insert"
  /\ orders[o] = NoRow
  /\ orders' = [orders EXCEPT ![o] =
       [status |-> "pending", user |-> tasks[t].user,
        payment |-> tasks[t].payment, total |-> tasks[t].total]]

\* The catch block around Order.create(): a wallet order is refunded.
RefundCreation(t) ==
  calls' = IF tasks[t].payment = "wallet"
             THEN calls \cup {Refund(tasks[t].user, tasks[t].total, FailedRef(tasks[t].user))}
             ELSE calls

\* Fault: the refund is in a finally block.
OrderCreatedAndRefunded(t, o) ==
  /\ InsertOrder(t, o)
  /\ RefundCreation(t)
  /\ End(t)
  /\ UNCHANGED <<opened, balance, frozen, ledger, history>>

OrderCreated(t, o) ==
  /\ InsertOrder(t, o)
  /\ End(t)
  /\ UNCHANGED <<opened, balance, frozen, ledger, calls, history>>

\* Order.create() rolls back and throws.
CreationFails(t) ==
  /\ tasks[t].pc = "insert"
  /\ RefundCreation(t)
  /\ End(t)
  /\ UNCHANGED <<opened, balance, frozen, ledger, orders, history>>

\* Order.create() throws because its COMMIT, which took effect, was not
\* answered.
CommitUnanswered(t, o) ==
  /\ InsertOrder(t, o)
  /\ RefundCreation(t)
  /\ End(t)
  /\ doubtful' = doubtful \cup {o}
  /\ UNCHANGED <<opened, balance, frozen, ledger, overtaken, forgone>>

\* Fault: the transition is not checked.
ReadForAnyUpdate(t, o, next) ==
  /\ tasks[t] = Idle
  /\ orders[o] # NoRow
  /\ tasks' = [tasks EXCEPT ![t] =
       [pc |-> "write", order |-> o, next |-> next]]
  /\ UNCHANGED <<opened, balance, frozen, ledger, orders, calls, history>>

\* PATCH /orders/:id/status reads the order and checks the transition.
ReadForUpdate(t, o, next) ==
  /\ tasks[t] = Idle
  /\ orders[o] # NoRow
  /\ next \in AllowedNext[orders[o].status]
  /\ tasks' = [tasks EXCEPT ![t] =
       [pc |-> "write", order |-> o, next |-> next]]
  /\ UNCHANGED <<opened, balance, frozen, ledger, orders, calls, history>>

\* Order.updateStatus(): UPDATE ... WHERE id, whatever the status is now.
WriteStatus(t) ==
  LET o == tasks[t].order IN
    /\ tasks[t].pc = "write"
    /\ orders' = [orders EXCEPT ![o].status = tasks[t].next]
    /\ tasks' = [tasks EXCEPT ![t].pc = "after"]
    /\ overtaken' = IF \E x \in Tasks \ {t} : tasks[x].pc = "write" /\ tasks[x].order = o
                      THEN overtaken \cup {o} ELSE overtaken
    /\ UNCHANGED <<opened, balance, frozen, ledger, calls, doubtful, forgone>>

\* The items are read; then the refund goes out, and nobody waits for it.  So
\* does, for a confirmed order, a request for a driver (see Delivery).
Notify(t) ==
  LET o == tasks[t].order IN
    /\ tasks[t].pc = "after"
    /\ calls' = IF tasks[t].next = "cancelled" /\ orders[o].payment = "wallet"
                  THEN calls \cup {Refund(orders[o].user, orders[o].total, CancelRef(o))}
                  ELSE calls
    /\ End(t)
    /\ UNCHANGED <<opened, balance, frozen, ledger, orders, history>>

\* The requests t waits for go on without it.
Detached(t) == {IF m.from = t THEN [m EXCEPT !.from = NoTask] ELSE m : m \in calls}

\* A handler stops between two of its steps: a query throws, the process dies,
\* or the debit is not answered in time.
Stop(t) ==
  /\ tasks[t] # Idle
  /\ End(t)
  /\ calls' = Detached(t)
  /\ forgone' = IF tasks[t].pc = "after" /\ tasks[t].next = "cancelled"
                  THEN forgone \cup {tasks[t].order} ELSE forgone
  /\ UNCHANGED <<opened, balance, frozen, ledger, orders, doubtful, overtaken>>

-----------------------------------------------------------------------------
\* Fault: walletDebit() does not look at response.ok.
AnswerUnread(m, ok) ==
  /\ calls' = calls \ {m}
  /\ tasks' = IF m.from = NoTask THEN tasks
               ELSE [tasks EXCEPT ![m.from].pc = "insert"]
  /\ UNCHANGED <<orders, doubtful, overtaken>>

\* The caller of m gets its answer: walletDebit() returns or throws.
Answer(m, ok) ==
  /\ calls' = calls \ {m}
  /\ tasks' = IF m.from = NoTask THEN tasks
               ELSE IF ok THEN [tasks EXCEPT ![m.from].pc = "insert"]
               ELSE [tasks EXCEPT ![m.from] = Idle]
  /\ UNCHANGED <<orders, doubtful, overtaken>>

\* POST /internal/debit and /internal/credit.  The ensureWallet() of a credit
\* finds the wallet its payment was taken from.
WalletMoves(m) ==
  /\ Move(m.user, m.direction, m.amount, m.type, m.ref)
  /\ Answer(m, TRUE)
  /\ UNCHANGED forgone

\* The orders whose refund m asks for.
RefundedBy(m) == {o \in OrderIds : m.type = "order_refund" /\ m.ref = CancelRef(o)}

\* 400, 402 or 500.
WalletRefuses(m) ==
  /\ ~CanMove(m.user, m.direction, m.amount, m.type, m.ref)
  /\ Answer(m, FALSE)
  /\ forgone' = forgone \cup RefundedBy(m)
  /\ UNCHANGED walletVars

\* The request does not arrive.
CallLost(m) ==
  /\ Answer(m, FALSE)
  /\ forgone' = forgone \cup RefundedBy(m)
  /\ UNCHANGED walletVars

\* Top-ups of the wallets the orders are paid from.  A freeze would only refuse
\* calls, which CallLost already does.
OtherWalletUse(u) ==
  /\ \/ EnsureWallet(u)
     \/ /\ Len(ledger[u]) < MaxPostings
        /\ \E a \in TopUps : Credit(u, a, "topup", NoRef)
  /\ UNCHANGED orderVars

Next ==
  \/ \E t \in Tasks :
       \/ \E u \in Users, pay \in {"cash", "wallet"}, a \in Amounts :
            CreateOrder(t, u, pay, a)
       \/ \E o \in OrderIds :
            \/ OrderCreated(t, o) \/ CommitUnanswered(t, o)
            \/ \E next \in Statuses : ReadForUpdate(t, o, next)
       \/ CreationFails(t) \/ WriteStatus(t) \/ Notify(t) \/ Stop(t)
  \/ \E m \in calls :
       WalletMoves(m) \/ WalletRefuses(m) \/ CallLost(m)
  \/ \E u \in Users : OtherWalletUse(u)

Spec == Init /\ [][Next]_vars

-----------------------------------------------------------------------------
\* The rows of u's ledger of type t and amount a.
Rows(u, t, a) ==
  {i \in 1..Len(ledger[u]) : ledger[u][i].type = t /\ ledger[u][i].amount = a}

WalletOrders(u, a) ==
  {o \in OrderIds : /\ orders[o] # NoRow /\ orders[o].payment = "wallet"
                    /\ orders[o].user = u /\ orders[o].total = a}

\* Creations that have been told their debit succeeded.
PaidCreations(u, a) ==
  {t \in Tasks : /\ tasks[t].pc = "insert" /\ tasks[t].payment = "wallet"
                 /\ tasks[t].user = u /\ tasks[t].total = a}

\* Every wallet order, and every one about to be written, has a debit of its
\* own: whatever is lost or late between the two services, no order is free
\* and no debit pays for two (orderController.ts:484-522).
OrdersArePaidFor ==
  \A u \in Users, a \in Amounts :
    Cardinality(WalletOrders(u, a)) + Cardinality(PaidCreations(u, a))
      <= Cardinality(Rows(u, "order_payment", a))

\* What the customer is given back was the customer's: over all cancellations
\* and failed creations, answered or not, refunds do not exceed payments, unless
\* the database left a COMMIT unanswered.  The service itself cannot tell:
\* payments and refunds carry references of different kinds.
RefundsWithinPayments ==
  \A u \in Users, a \in Amounts :
    WalletOrders(u, a) \cap doubtful = {} =>
      Cardinality(Rows(u, "order_refund", a)) <= Cardinality(Rows(u, "order_payment", a))

\* u is owed a refund of a under the reference r: for a wallet order, or for a
\* creation that was debited.
Owed(u, a, r) ==
  \/ \E o \in WalletOrders(u, a) : r = CancelRef(o)
  \/ r = FailedRef(u) /\ Rows(u, "order_payment", a) # {}

\* A refund, paid or on its way, is for a wallet order of that customer and
\* total, or for creations of a customer who was debited that much
\* (orderController.ts:511-520 and 952-960).
RefundsAreOwed ==
  /\ \A u \in Users : \A i \in 1..Len(ledger[u]) :
       ledger[u][i].type = "order_refund" => Owed(u, ledger[u][i].amount, ledger[u][i].ref)
  /\ \A m \in calls : m.type = "order_refund" => Owed(m.user, m.amount, m.ref)

\* The refund of order o: about to be asked for, on its way, or paid.
Sends(o) ==
  {t \in Tasks : tasks[t].pc = "after" /\ tasks[t].order = o /\ tasks[t].next = "cancelled"}

OnItsWay(o) == Refund(orders[o].user, orders[o].total, CancelRef(o)) \in calls
Refunded(o) == Recorded(orders[o].user, "order_refund", CancelRef(o))

RefundDue(o) ==
  orders[o].status = "cancelled" /\ orders[o].payment = "wallet" /\ o \notin forgone

\* The refund of an order and its status agree: of a wallet order that is
\* cancelled exactly one refund is about to be asked for, on its way or paid,
\* and of any other order none, so none of a delivered one.  Left out is an
\* order whose status was written while another handler held a check of it;
\* and a refund that was lost, refused or never asked for is not repeated
\* (orderController.ts:883-960).
RefundsFollowCancellations ==
  \A o \in OrderIds \ overtaken : orders[o] # NoRow =>
    IF RefundDue(o)
      THEN \/ (\E t \in Tasks : Sends(o) = {t}) /\ ~OnItsWay(o) /\ ~Refunded(o)
           \/ Sends(o) = {} /\ (OnItsWay(o) <=> ~Refunded(o))
      ELSE ~OnItsWay(o) /\ ~Refunded(o)

\* The refund of a failed creation of u over a is on its way or paid.
Issued(u, a) ==
  \/ \E m \in calls : /\ m.type = "order_refund" /\ m.user = u
                      /\ m.amount = a /\ m.ref = FailedRef(u)
  \/ \E i \in Rows(u, "order_refund", a) : ledger[u][i].ref = FailedRef(u)

\* A debit of u over a is spent once: on an order, on a creation that goes on,
\* or on the refund of one that failed.
SpentOnce(u, a) ==
  Cardinality(WalletOrders(u, a)) + Cardinality(PaidCreations(u, a))
    + (IF WalletOrders(u, a) \cap doubtful = {} /\ Issued(u, a) THEN 1 ELSE 0)
  <= Cardinality(Rows(u, "order_payment", a))

\* A handler waits only for its own payment, and updates only rows there are.
TasksFit ==
  /\ \A m \in calls : m.from # NoTask =>
       /\ tasks[m.from].pc = "debit"
       /\ m = Payment(m.from, tasks[m.from].user, tasks[m.from].total)
  /\ \A t \in Tasks :
       /\ tasks[t].pc = "debit" => tasks[t].payment = "wallet"
       /\ tasks[t].pc \in {"write", "after"} => orders[tasks[t].order] # NoRow

\* The inductive invariant: handlers, requests, orders and ledger account for
\* every debit (orderController.ts:484-522 and 952-960).
OrdersInv ==
  /\ TypeOK
  /\ TasksFit
  /\ RefundsAreOwed
  /\ \A u \in Users, a \in Amounts : SpentOnce(u, a)

\* The key of a payment that has not been booked is free: only an event that
\* was processed is refused as a duplicate (20260417000022_wallet_schema.sql:61,
\* "same event cannot be processed twice").
NewPaymentsAreAccepted ==
  \A m \in calls : m.from # NoTask => KeyFree(m.type, m.ref)
=============================================================================
