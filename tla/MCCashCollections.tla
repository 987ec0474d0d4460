------------------------- MODULE MCCashCollections -------------------------
(* Two workloads: settlements, and collections of cash.  Order o1 is         *)
(* delivered, by a driver who may change; o2, o3 and o4 are pick-ups from    *)
(* three restaurants of one owner, two of them with one name and phone, and  *)
(* earn no driver.  Three settlements: o1 twice,                             *)
(* for two drivers or none, and o2 in between, their credits in any order.   *)
(* MaxBalance lets the owner's wallet fill up.  Three collections by two     *)
(* administrators at once, of amounts the owner's and the driver's orders are*)
(* worth once or twice; amount 0 changes nothing and is left out.  As        *)
(* liveness is checked, there is no symmetry.                                *)
EXTENDS CashCollections

CONSTANTS o1, o2, o3, o4, r1, r2, r3, u1, d1, d2

VARIABLE load

MCRestaurantOf == [o \in Orders |-> CASE o = o3 -> r2 [] o = o4 -> r3 [] OTHER -> r1]
MCLabelOf == [r \in Restaurants |-> IF r = r1 THEN "one" ELSE "other"]
MCOwnerOf == [r \in Restaurants |-> u1]
MCOwnerShare == [o \in Orders |-> 2]
MCDriverShare == [o \in Orders |-> IF o = o1 THEN 1 ELSE 0]
MCTotal == [o \in Orders |-> IF o \in {o2, o4} THEN 1 ELSE 2]
MCRefs == {OrderRef(o) : o \in Orders} \cup {DeliveryRef(o) : o \in Orders}

Loads == {"settlement", "cash"}

MCInit == Init /\ load \in Loads

\* One delivery may change its driver between settlements; the other has none.
SettlementLoad ==
  \/ \E d \in Drivers : calls = {} /\ carrier[o1] # d /\ SetDriver(o1, d)
  \/ \E t \in Tasks :
       \/ \E o \in {o1, o2} : Delivered(t, o)
       \/ SettlementFails(t) \/ SendCredits(t)
  \/ \E m \in calls :
       CreditEnsures(m) \/ CreditPosts(m) \/ CreditRefused(m) \/ CallLost(m)
  \/ FreezeWallet(u1, ~frozen[u1])

\* The administrators collect from the owner, who has the cash of two pick-ups,
\* or from the driver of the third order, which may be cancelled late or change
\* its driver.
CashLoad ==
  \/ /\ \/ \E o \in {o1, o2} : orderStatus[o] = "active" /\ EndOrder(o, "delivered")
        \/ /\ orderStatus[o2] = "delivered" /\ orderStatus[o3] = "active"
           /\ EndOrder(o3, "delivered")
        \/ /\ orderStatus[o3] = "delivered" /\ orderStatus[o4] = "active"
           /\ EndOrder(o4, "delivered")
        \/ orderStatus[o1] = "delivered" /\ EndOrder(o1, "cancelled")
        \/ \E a \in Admins :
             \/ \E u \in {u1, d1}, amount \in CashAmounts :
                  /\ \A b \in Admins : visit[b].holder \in {u, NoHolder}
                  /\ CollectCash(a, u, amount)
             \/ CashStep(a)
     /\ UNCHANGED <<walletVars, settlementVars>>
  \/ /\ \/ carrier[o1] = NoDriver /\ SetDriver(o1, d1)
        \/ carrier[o1] = d1 /\ SetDriver(o1, d2)
     /\ UNCHANGED <<orderStatus, collected, visit, visits, unguarded>>

MCNext ==
  /\ \/ /\ load = "settlement" /\ SettlementLoad
        /\ UNCHANGED <<orderStatus, collected, visit, visits, unguarded>>
     \/ load = "cash" /\ CashLoad
  /\ MarkPeak
  /\ UNCHANGED load

MCSpec == MCInit /\ [][MCNext]_<<moneyVars, load>> /\ SettlesFairly
=============================================================================
