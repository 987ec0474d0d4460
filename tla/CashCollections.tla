-------------------------- MODULE CashCollections --------------------------
(***************************************************************************)
(* Cash orders leave money with whoever took it: the driver of a delivered *)
(* cash order, the restaurant's owner for one picked up.  Administrators   *)
(* record what they collect (cashCollectionController.ts and               *)
(* models/CashCollection.ts of the wallet service).                        *)
(*                                                                         *)
(* collectCash() reads what the holder earned, then what was collected,    *)
(* checks the amount and inserts: no transaction and no lock, while orders *)
(* are delivered and deliveries change their driver.                       *)
(***************************************************************************)
EXTENDS Settlement, FiniteSetsExt

CONSTANTS
  CashOrders,   \* orders with payment_type = 'cash'
  Pickups,      \* orders with order_type = 'pickup'
  Total,        \* total_amount of each order
  LabelOf,      \* name and phone of each restaurant
  CashAmounts,  \* amounts collected, in hundredths: toFixed(2) may leave 0
  Admins,       \* requests of administrators at once
  NoHolder,
  MaxCollections \* bound on the collections begun

ASSUME CashAssumption ==
  /\ IsFiniteSet(CashOrders) /\ IsFiniteSet(Restaurants) /\ IsFiniteSet(Admins)
  /\ CashOrders \subseteq Orders /\ Pickups \subseteq Orders
  /\ Total \in [Orders -> Nat]
  /\ CashAmounts \subseteq Nat
  /\ NoHolder \notin Users
  /\ MaxCollections \in Nat

VARIABLES
  orderStatus,  \* orders.status
  collected,    \* sums of wallet.cash_collections by collected_from_user_id
  visit,        \* the running collections
  visits,       \* collections begun so far
  peak,         \* history: the most each holder's orders had come to before
  unguarded     \* history: holders collected from when nothing was pending

cashVars == <<orderStatus, collected, visit, visits, peak, unguarded>>

Visit == [step : {"idle", "earned", "collected", "insert"},
          holder : Users \cup {NoHolder}, amount : CashAmounts \cup {0}, earned : Nat]

NoVisit == [step |-> "idle", holder |-> NoHolder, amount |-> 0, earned |-> 0]

\* An order is under way, or has ended either way.
CashTypeOK ==
  /\ orderStatus \in [Orders -> {"active", "delivered", "cancelled"}]
  /\ collected \in [Users -> Nat]
  /\ visit \in [Admins -> Visit]
  /\ visits \in 0..MaxCollections
  /\ peak \in [Users -> Nat]
  /\ unguarded \subseteq Users

CashInit ==
  /\ orderStatus = [o \in Orders |-> "active"]
  /\ collected = [u \in Users |-> 0]
  /\ visit = [a \in Admins |-> NoVisit]
  /\ visits = 0
  /\ peak = [u \in Users |-> 0]
  /\ unguarded = {}

-----------------------------------------------------------------------------
SumTotals(S) == MapThenSumSet(LAMBDA o : Total[o], S)

DeliveredCash == {o \in CashOrders : orderStatus[o] = "delivered"}

\* The orders whose cash u holds: by the driver of the delivery, or by the
\* owner of the restaurant.
HeldBy(u) ==
  IF u \in Drivers THEN {o \in DeliveredCash : carrier[o] = u}
  ELSE {o \in DeliveredCash \cap Pickups : Owner[o] = u}

Earned(u) == SumTotals(HeldBy(u))

\* pendingBalanceFor(), had it read both sums at once.
Pending(u) == Earned(u) - collected[u]

\* The orders of u's restaurants called l.
PickedUpAt(u, l) ==
  {o \in DeliveredCash \cap Pickups : Owner[o] = u /\ LabelOf[RestaurantOf[o]] = l}

\* Fault: the row forgets what was collected.
RowUncollected(u, l) == SumTotals(PickedUpAt(u, l))

\* A row of restaurantPendingSummary(): grouped by owner, name and phone, less
\* all that was collected from the owner; only positive rows are shown.
SummaryRow(u, l) == SumTotals(PickedUpAt(u, l)) - collected[u]

Labels == {LabelOf[r] : r \in Restaurants}

SummaryOf(u) == {l \in Labels : SummaryRow(u, l) > 0}

-----------------------------------------------------------------------------
\* updateOrderStatus() of the order service ends an order; a racing update may
\* turn one end into the other (see Orders).
EndOrder(o, status) ==
  /\ orderStatus' = [orderStatus EXCEPT ![o] = status]
  /\ UNCHANGED <<collected, visit, visits, unguarded>>

\* POST /admin/cash-collection with a positive amount.
CollectCash(a, u, amount) ==
  /\ visit[a] = NoVisit
  /\ visits < MaxCollections
  /\ visits' = visits + 1
  /\ visit' = [visit EXCEPT ![a] =
                 [step |-> "earned", holder |-> u, amount |-> amount, earned |-> 0]]
  /\ UNCHANGED <<orderStatus, collected, unguarded>>

\* pendingBalanceFor(): first what was earned.
ReadEarned(a) ==
  /\ visit[a].step = "earned"
  /\ visit' = [visit EXCEPT ![a].step = "collected",
                            ![a].earned = Earned(visit[a].holder)]
  /\ UNCHANGED <<orderStatus, collected, visits, unguarded>>

\* Fault: any amount passes.
PassesAny(amount, pending) == TRUE

\* The amount may not exceed what is pending, unless nothing is.
Passes(amount, pending) == amount <= pending \/ pending <= 0

\* Then what was collected, and the check.
ReadCollected(a) ==
  LET v == visit[a]
      pending == v.earned - collected[v.holder]
  IN
    /\ v.step = "collected"
    /\ IF Passes(v.amount, pending)
         THEN visit' = [visit EXCEPT ![a].step = "insert"]
         ELSE visit' = [visit EXCEPT ![a] = NoVisit]
    /\ unguarded' = IF pending <= 0 THEN unguarded \cup {v.holder} ELSE unguarded
    /\ UNCHANGED <<orderStatus, collected, visits>>

\* CashCollection.create(): the table takes positive amounts only.
InsertCollection(a) ==
  LET v == visit[a] IN
    /\ v.step = "insert"
    /\ collected' = IF v.amount > 0 THEN [collected EXCEPT ![v.holder] = @ + v.amount]
                    ELSE collected
    /\ visit' = [visit EXCEPT ![a] = NoVisit]
    /\ UNCHANGED <<orderStatus, visits, unguarded>>

\* A query throws or the process stops.
CollectionFails(a) ==
  /\ visit[a] # NoVisit
  /\ visit' = [visit EXCEPT ![a] = NoVisit]
  /\ UNCHANGED <<orderStatus, collected, visits, unguarded>>

CashStep(a) ==
  ReadEarned(a) \/ ReadCollected(a) \/ InsertCollection(a) \/ CollectionFails(a)

CashNext ==
  \/ \E o \in Orders, status \in {"delivered", "cancelled"} : EndOrder(o, status)
  \/ \E a \in Admins :
       \/ \E u \in Users, amount \in CashAmounts : CollectCash(a, u, amount)
       \/ CashStep(a)

MostEarned(u) == Max({peak[u], Earned(u)})

MarkPeak == peak' = [u \in Users |-> MostEarned(u)]

-----------------------------------------------------------------------------
TypeOK == SettlementTypeOK /\ CashTypeOK

moneyVars == <<walletVars, settlementVars, cashVars>>

Init == SettlementInit /\ CashInit

Next ==
  /\ \/ SettlementNext /\ UNCHANGED <<orderStatus, collected, visit, visits, unguarded>>
     \/ CashNext /\ UNCHANGED <<walletVars, settlementVars>>
  /\ MarkPeak

Spec == Init /\ [][Next]_moneyVars

\* A settlement that runs goes on, and a request on its way is processed unless
\* it is lost.
Processed(o) ==
  \E m \in calls : m.order = o /\ (CreditEnsures(m) \/ CreditPosts(m) \/ CreditRefused(m))

SettlesFairly ==
  /\ \A t \in Tasks : WF_<<walletVars, settlementVars>>(SendCredits(t))
  /\ \A o \in Orders : WF_<<walletVars, settlementVars>>(Processed(o))

-----------------------------------------------------------------------------
\* Administrators who check one balance at the same time may collect more than
\* is owed, but no more often than there are of them: while every check found
\* something pending, what was collected from a holder stays within that many
\* times the most the holder's orders ever came to
\* (cashCollectionController.ts:87-96).
CollectionsBounded ==
  \A u \in Users \ unguarded : collected[u] <= Cardinality(Admins) * MostEarned(u)

\* The summary of pending cash does not ask an owner for more than the balance
\* of that owner does, although it counts per name and phone of a restaurant
\* and collects per owner (CashCollection.ts:67-102 and 132-150).
SummaryWithinBalance ==
  \A u \in Users \ Drivers : SummaryOf(u) # {} =>
    MapThenSumSet(LAMBDA l : SummaryRow(u, l), SummaryOf(u)) <= Pending(u)

\* A delivered order is not forgotten: unless one of its credits failed, its
\* owner is paid, and a driver if it had one (deliveryController.ts:835-836).
DeliveredIsPaid ==
  \A o \in Orders :
    /\ (\E h \in handed : h[1] = o) ~> (o \in OwnerPaid \/ o \in missed)
    /\ (\E h \in handed : h[1] = o /\ h[2] \in Drivers) ~>
         ((\E h \in DriverPaid : h[1] = o) \/ o \in missed)
=============================================================================
