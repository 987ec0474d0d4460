----------------------------- MODULE Settlement -----------------------------
(***************************************************************************)
(* settleDeliveryEarnings() of the delivery service and the credits it     *)
(* asks of the wallet service.  Nobody waits for a settlement, nothing     *)
(* repeats one, and the two credits are separate calls: either may be      *)
(* refused or lost without the other.  A delivery can be written delivered *)
(* more than once and change its driver in between (see Delivery), so an   *)
(* order may be settled several times, for several drivers.                *)
(*                                                                         *)
(* The amounts are computed from the order's prices, which never change:   *)
(* here each order has its two shares, in hundredths.                      *)
(***************************************************************************)
EXTENDS Wallet

CONSTANTS
  Orders, Restaurants, Drivers,
  NoDriver,     \* deliveries.driver_user_id IS NULL
  RestaurantOf, \* orders.restaurant_id
  OwnerOf,      \* restaurants.user_id
  OwnerShare,   \* restaurantEarning of each order
  DriverShare,  \* driverEarning of each order
  Tasks,        \* slots for running settlements
  MaxSettlements \* bound on the settlements begun

OrderRef(o) == <<"order", o>>
DeliveryRef(o) == <<"delivery", o>>

ASSUME SettlementAssumption ==
  /\ {"order_earning", "delivery_earning"} \subseteq TxTypes
  /\ Drivers \subseteq Users /\ NoDriver \notin Users
  /\ RestaurantOf \in [Orders -> Restaurants]
  /\ OwnerOf \in [Restaurants -> Users]
  /\ OwnerShare \in [Orders -> Amounts] /\ DriverShare \in [Orders -> Amounts]
  /\ \A o \in Orders : {OrderRef(o), DeliveryRef(o)} \subseteq Refs
  /\ MaxSettlements \in Nat

VARIABLES
  carrier,      \* deliveries.driver_user_id of each order's delivery
  settling,     \* the running settlements
  calls,        \* credits on their way or being processed
  begun,        \* settlements begun so far
  handed,       \* history: which driver each delivered order was written with
  missed        \* history: orders one of whose credits failed for good

settlementVars == <<carrier, settling, calls, begun, handed, missed>>

Owner == [o \in Orders |-> OwnerOf[RestaurantOf[o]]]

NoTask == [order |-> "none"]

Task == [order : Orders, driver : Drivers \cup {NoDriver}]

\* A request to POST /internal/credit, before and after ensureWallet().
Request == [step : {"ensure", "credit"}, order : Orders, user : Users,
            amount : Amounts, type : {"order_earning", "delivery_earning"}, ref : Refs]

SettlementTypeOK ==
  /\ WalletTypeOK
  /\ carrier \in [Orders -> Drivers \cup {NoDriver}]
  /\ settling \in [Tasks -> Task \cup {NoTask}]
  /\ calls \subseteq Request
  /\ begun \in 0..MaxSettlements
  /\ handed \subseteq Orders \X (Drivers \cup {NoDriver})
  /\ missed \subseteq Orders

SettlementInit ==
  /\ WalletInit
  /\ carrier = [o \in Orders |-> NoDriver]
  /\ settling = [t \in Tasks |-> NoTask]
  /\ calls = {}
  /\ begun = 0
  /\ handed = {} /\ missed = {}

-----------------------------------------------------------------------------
\* A handler of the delivery service writes the driver of a delivery, perhaps a
\* late one after the delivery ended.
SetDriver(o, d) ==
  /\ carrier' = [carrier EXCEPT ![o] = d]
  /\ UNCHANGED <<walletVars, settling, calls, begun, handed, missed>>

\* The delivery is written delivered and its settlement begins.
Delivered(t, o) ==
  /\ settling[t] = NoTask
  /\ begun < MaxSettlements
  /\ begun' = begun + 1
  /\ handed' = handed \cup {<<o, carrier[o]>>}
  /\ settling' = [settling EXCEPT ![t] = [order |-> o, driver |-> carrier[o]]]
  /\ UNCHANGED <<walletVars, carrier, calls, missed>>

Finish(t) == settling' = [settling EXCEPT ![t] = NoTask]

\* The order or the restaurant cannot be fetched, or the process stops.
SettlementFails(t) ==
  /\ settling[t] # NoTask
  /\ Finish(t)
  /\ missed' = missed \cup {settling[t].order}
  /\ UNCHANGED <<walletVars, carrier, calls, begun, handed>>

OwnerCredit(o) ==
  [step |-> "ensure", order |-> o, user |-> Owner[o], amount |-> OwnerShare[o],
   type |-> "order_earning", ref |-> OrderRef(o)]

\* Fault: the credit carries no reference.
DriverCreditUnkeyed(o, d) ==
  [step |-> "ensure", order |-> o, user |-> d, amount |-> DriverShare[o],
   type |-> "delivery_earning", ref |-> NoRef]

DriverCredit(o, d) ==
  [step |-> "ensure", order |-> o, user |-> d, amount |-> DriverShare[o],
   type |-> "delivery_earning", ref |-> DeliveryRef(o)]

\* Fault: a delivery without a driver is credited to nobody.
CreditsAlways(o, d) == {OwnerCredit(o), DriverCredit(o, d)}

\* Fault: the driver is paid instead of the owner.
CreditsOne(o, d) ==
  IF d = NoDriver THEN {OwnerCredit(o)} ELSE {DriverCredit(o, d)}

Credits(o, d) ==
  {OwnerCredit(o)} \cup (IF d = NoDriver THEN {} ELSE {DriverCredit(o, d)})

\* Fault: the driver is the delivery's by now.
SendCreditsToCurrent(t) ==
  /\ settling[t] # NoTask
  /\ calls' = calls \cup Credits(settling[t].order, carrier[settling[t].order])
  /\ Finish(t)
  /\ UNCHANGED <<walletVars, carrier, begun, handed, missed>>

\* Promise.all sends the credits; their answers are not looked at.
SendCredits(t) ==
  /\ settling[t] # NoTask
  /\ calls' = calls \cup Credits(settling[t].order, settling[t].driver)
  /\ Finish(t)
  /\ UNCHANGED <<walletVars, carrier, begun, handed, missed>>

-----------------------------------------------------------------------------
\* creditWallet() of the wallet service makes sure there is a wallet, ...
CreditEnsures(m) ==
  /\ m.step = "ensure"
  /\ m.amount > 0
  /\ EnsureWallet(m.user)
  /\ calls' = (calls \ {m}) \cup {[m EXCEPT !.step = "credit"]}
  /\ UNCHANGED <<carrier, settling, begun, handed, missed>>

\* ... and credits it.
CreditPosts(m) ==
  /\ m.step = "credit"
  /\ Credit(m.user, m.amount, m.type, m.ref)
  /\ calls' = calls \ {m}
  /\ UNCHANGED <<carrier, settling, begun, handed, missed>>

\* 400 or 500: there is nothing to credit, the wallet is frozen or full, or the
\* event has been credited before.
CreditRefused(m) ==
  /\ \/ m.step = "ensure" /\ m.amount = 0
     \/ m.step = "credit" /\ ~CanCredit(m.user, m.amount, m.type, m.ref)
  /\ calls' = calls \ {m}
  /\ missed' = IF KeyFree(m.type, m.ref) THEN missed \cup {m.order} ELSE missed
  /\ UNCHANGED <<walletVars, carrier, settling, begun, handed>>

\* The request does not arrive, or the wallet service stops at it.
CallLost(m) ==
  /\ calls' = calls \ {m}
  /\ missed' = missed \cup {m.order}
  /\ UNCHANGED <<walletVars, carrier, settling, begun, handed>>

\* An administrator freezes or unfreezes a wallet.
FreezeWallet(u, b) ==
  /\ SetFrozen(u, b)
  /\ UNCHANGED settlementVars

SettlementNext ==
  \/ \E o \in Orders :
       \/ \E d \in Drivers \cup {NoDriver} : SetDriver(o, d)
       \/ \E t \in Tasks : Delivered(t, o)
  \/ \E t \in Tasks : SettlementFails(t) \/ SendCredits(t)
  \/ \E m \in calls :
       CreditEnsures(m) \/ CreditPosts(m) \/ CreditRefused(m) \/ CallLost(m)
  \/ \E u \in Users, b \in BOOLEAN : FreezeWallet(u, b)

SettlementSpec == SettlementInit /\ [][SettlementNext]_<<walletVars, settlementVars>>

-----------------------------------------------------------------------------
OwnerPaid == {o \in Orders : Recorded(Owner[o], "order_earning", OrderRef(o))}

DriverPaid ==
  {h \in Orders \X Drivers : Recorded(h[2], "delivery_earning", DeliveryRef(h[1]))}

E == INSTANCE Earnings WITH
       Payees <- Users, Carriers <- Drivers \cup {NoDriver}, CarrierShare <- DriverShare,
       handovers <- handed, ownerPaid <- OwnerPaid, carrierPaid <- DriverPaid,
       income <- balance

\* However often an order is settled, for whichever drivers, and whatever calls
\* are lost or overtake each other, its owner is paid at most once, at most one
\* driver is, only one it was written delivered with, and balances move by
\* exactly those shares (deliveryController.ts:155-197).
EarningsOnce == E!EarningsSpec

\* A request on its way is one of a settlement that was begun.
CallFits(m) ==
  \/ m.type = "order_earning" /\ m.user = Owner[m.order]
     /\ m.amount = OwnerShare[m.order] /\ m.ref = OrderRef(m.order)
     /\ \E d \in Drivers \cup {NoDriver} : <<m.order, d>> \in handed
  \/ m.type = "delivery_earning" /\ m.user \in Drivers
     /\ m.amount = DriverShare[m.order] /\ m.ref = DeliveryRef(m.order)
     /\ <<m.order, m.user>> \in handed

\* The inductive invariant behind EarningsOnce: settlements, requests and
\* postings are all of deliveries written delivered.
SettlementInv ==
  /\ SettlementTypeOK
  /\ \A t \in Tasks : settling[t] # NoTask =>
       <<settling[t].order, settling[t].driver>> \in handed
  /\ \A m \in calls : CallFits(m)
  /\ \A u \in Users : \A i \in 1..Len(ledger[u]) : \E o \in Orders :
       \/ /\ ledger[u][i].type = "order_earning" /\ ledger[u][i].ref = OrderRef(o)
          /\ u = Owner[o]
       \/ /\ ledger[u][i].type = "delivery_earning" /\ ledger[u][i].ref = DeliveryRef(o)
          /\ u \in Drivers
=============================================================================
