------------------------ MODULE CashCollectionsProofs -----------------------
(***************************************************************************)
(* What settlements and collections of cash guarantee for every set of     *)
(* orders, restaurants, owners, drivers and administrators, any number of  *)
(* settlements and collections at once and any loss of calls.              *)
(*                                                                         *)
(* Settlement implements Earnings; the refinement rests on SettlementInv,  *)
(* which says where each call and each ledger row came from.  Collections  *)
(* keep within their limit by MoneyInv, which says what a collection that  *)
(* is about to be recorded may still add.  Sums of totals are folds, so    *)
(* what is needed of them is proved first, by induction over the subsets   *)
(* of a finite set.                                                        *)
(***************************************************************************)
EXTENDS CashCollections, WalletProofs, FiniteSetTheorems

\* A move records its event and no other.
LEMMA MoveRecords ==
  ASSUME WalletTypeOK, NEW u \in Users, NEW d \in Directions, NEW a \in Amounts,
         NEW t \in TxTypes, NEW r \in Refs \cup {NoRef}, Move(u, d, a, t, r),
         NEW v \in Users, NEW x, NEW y
  PROVE  Recorded(v, x, y)' <=> Recorded(v, x, y) \/ (v = u /\ x = t /\ y = r)
<1> DEFINE e == Posting(u, d, a, t, r)
           n == Len(ledger[u]) + 1
<1>1. e.type = t /\ e.ref = r
  BY DEF Posting
<1>2. /\ n \in 1..Len(ledger'[u]) /\ ledger'[u][n] = e
      /\ \A i \in 1..Len(ledger[v]) :
           i \in 1..Len(ledger'[v]) /\ ledger'[v][i] = ledger[v][i]
      /\ \A i \in 1..Len(ledger'[v]) :
           \/ i \in 1..Len(ledger[v]) /\ ledger'[v][i] = ledger[v][i]
           \/ v = u /\ i = n
  BY MoveAppends
<1> HIDE DEF e, n
<1>3. ASSUME Recorded(v, x, y)' PROVE Recorded(v, x, y) \/ (v = u /\ x = t /\ y = r)
  <2>1. PICK i \in 1..Len(ledger'[v]) : ledger'[v][i].type = x /\ ledger'[v][i].ref = y
    BY <1>3 DEF Recorded
  <2> QED
    BY <1>1, <1>2, <2>1 DEF Recorded
<1>4. ASSUME Recorded(v, x, y) PROVE Recorded(v, x, y)'
  <2>1. PICK i \in 1..Len(ledger[v]) : ledger[v][i].type = x /\ ledger[v][i].ref = y
    BY <1>4 DEF Recorded
  <2> QED
    BY <1>2, <2>1 DEF Recorded
<1>5. ASSUME v = u, x = t, y = r PROVE Recorded(v, x, y)'
  BY <1>1, <1>2, <1>5 DEF Recorded
<1> QED
  BY <1>3, <1>4, <1>5

-----------------------------------------------------------------------------
\* What CreditPosts does, in the words of Wallet: m is a call of the owner's or
\* of a driver's credit, and posts it.
LEMMA PostIsMove ==
  ASSUME SettlementInv, NEW m \in calls, CreditPosts(m)
  PROVE  /\ WalletTypeOK /\ "credit" \in Directions
         /\ m \in Request /\ m.user \in Users /\ m.amount \in Amounts
         /\ m.type \in TxTypes /\ m.ref \in Refs /\ m.ref # NoRef /\ m.order \in Orders
         /\ m.amount \in Nat
         /\ Move(m.user, "credit", m.amount, m.type, m.ref)
         /\ CallFits(m)
<1>1. m \in Request
  BY DEF SettlementInv, SettlementTypeOK
<1>2. m.ref # NoRef /\ m.type \in TxTypes /\ m.amount \in Nat
  BY <1>1, SettlementAssumption, WalletAssumption DEF Request
<1> QED
  BY <1>1, <1>2 DEF SettlementInv, SettlementTypeOK, Request, CreditPosts, Credit, Directions

LEMMA SettlementInitInv == SettlementInit => SettlementInv
<1> SUFFICES ASSUME SettlementInit PROVE SettlementInv
  OBVIOUS
<1>1. SettlementTypeOK
  BY WalletInitType, SettlementAssumption DEF SettlementInit, SettlementTypeOK
<1>2. \A u \in Users : ledger[u] = <<>>
  BY DEF SettlementInit, WalletInit
<1>3. \A u \in Users : \A i \in 1..Len(ledger[u]) : FALSE
  BY <1>2
<1> QED
  BY <1>1, <1>3 DEF SettlementInit, SettlementInv

\* The requests a settlement sends are well-formed.
LEMMA CreditsFit ==
  ASSUME NEW o \in Orders, NEW d \in Drivers \cup {NoDriver}, <<o, d>> \in handed,
         NEW m \in Credits(o, d)
  PROVE  m \in Request /\ CallFits(m)
<1>1. Owner[o] \in Users /\ Drivers \subseteq Users
      /\ OwnerShare[o] \in Amounts /\ DriverShare[o] \in Amounts
      /\ OrderRef(o) \in Refs /\ DeliveryRef(o) \in Refs
  BY SettlementAssumption DEF Owner
<1>2. CASE m = OwnerCredit(o)
  BY <1>1, <1>2 DEF OwnerCredit, Request, CallFits
<1>3. CASE d \in Drivers /\ m = DriverCredit(o, d)
  BY <1>1, <1>3 DEF DriverCredit, Request, CallFits
<1> QED
  BY <1>2, <1>3 DEF Credits

\* Steps that touch neither ledger nor calls keep what SettlementInv says of them.
LEMMA RowsFit ==
  ASSUME SettlementInv, ledger' = ledger,
         handed \subseteq handed',
         SettlementTypeOK',
         \A m \in calls' : m \in calls \/ CallFits(m)',
         \A t \in Tasks : settling'[t] # NoTask =>
           <<settling'[t].order, settling'[t].driver>> \in handed'
  PROVE  SettlementInv'
<1>1. ASSUME NEW m \in calls PROVE CallFits(m)'
  BY <1>1 DEF SettlementInv, CallFits
<1> QED
  BY <1>1 DEF SettlementInv

LEMMA SettlementNextInv ==
  SettlementInv /\ [SettlementNext]_<<walletVars, settlementVars>> => SettlementInv'
<1> SUFFICES ASSUME SettlementInv, [SettlementNext]_<<walletVars, settlementVars>>
             PROVE  SettlementInv'
  OBVIOUS
<1> USE DEF settlementVars, walletVars
<1>1. SettlementTypeOK /\ WalletTypeOK
  BY DEF SettlementInv, SettlementTypeOK
<1>2. ASSUME NEW o \in Orders, NEW d \in Drivers \cup {NoDriver}, SetDriver(o, d)
      PROVE  SettlementInv'
  <2>1. SettlementTypeOK'
    BY <1>1, <1>2 DEF SetDriver, SettlementTypeOK, WalletTypeOK
  <2> QED
    BY <1>2, <2>1, RowsFit DEF SetDriver, SettlementInv
<1>3. ASSUME NEW t \in Tasks, NEW o \in Orders, Delivered(t, o)
      PROVE  SettlementInv'
  <2>1. SettlementTypeOK'
    <3>1. [order |-> o, driver |-> carrier[o]] \in Task
      BY <1>1 DEF SettlementTypeOK, Task
    <3>2. begun' \in 0..MaxSettlements
      BY <1>1, <1>3, SettlementAssumption DEF Delivered, SettlementTypeOK
    <3> QED
      BY <1>1, <1>3, <3>1, <3>2 DEF Delivered, SettlementTypeOK, WalletTypeOK
  <2>2. ASSUME NEW k \in Tasks, settling'[k] # NoTask
        PROVE  <<settling'[k].order, settling'[k].driver>> \in handed'
    <3>1. CASE k = t
      BY <1>1, <1>3, <3>1 DEF Delivered, SettlementTypeOK
    <3>2. CASE k # t
      BY <1>1, <1>3, <2>2, <3>2 DEF Delivered, SettlementInv, SettlementTypeOK
    <3> QED
      BY <3>1, <3>2
  <2> QED
    BY <1>3, <2>1, <2>2, RowsFit DEF Delivered
<1>4. ASSUME NEW t \in Tasks, SettlementFails(t)
      PROVE  SettlementInv'
  <2>1. settling[t] \in Task
    BY <1>1, <1>4 DEF SettlementFails, SettlementTypeOK
  <2>2. SettlementTypeOK'
    BY <1>1, <1>4, <2>1 DEF SettlementFails, Finish, Task, SettlementTypeOK, WalletTypeOK
  <2> QED
    BY <1>1, <1>4, <2>2, RowsFit DEF SettlementFails, Finish, SettlementInv, SettlementTypeOK
<1>5. ASSUME NEW t \in Tasks, SendCredits(t)
      PROVE  SettlementInv'
  <2> DEFINE o == settling[t].order
             d == settling[t].driver
  <2>1. settling[t] \in Task /\ <<o, d>> \in handed
    BY <1>1, <1>5 DEF SendCredits, SettlementTypeOK, SettlementInv
  <2>2. o \in Orders /\ d \in Drivers \cup {NoDriver}
    BY <2>1 DEF Task
  <2> HIDE DEF o, d
  <2>3. \A m \in Credits(o, d) : m \in Request /\ CallFits(m)
    BY <2>1, <2>2, CreditsFit
  <2>4. calls' = calls \cup Credits(o, d) /\ handed' = handed
    BY <1>5 DEF SendCredits, o, d
  <2>5. SettlementTypeOK'
    BY <1>1, <1>5, <2>3, <2>4 DEF SendCredits, Finish, SettlementTypeOK, WalletTypeOK
  <2>6. \A m \in Credits(o, d) : CallFits(m)'
    BY <2>3, <2>4 DEF CallFits
  <2> QED
    BY <1>1, <1>5, <2>4, <2>5, <2>6, RowsFit
    DEF SendCredits, Finish, SettlementInv, SettlementTypeOK
<1>6. ASSUME NEW m \in calls, CreditEnsures(m)
      PROVE  SettlementInv'
  <2> DEFINE n == [m EXCEPT !.step = "credit"]
  <2>1. m \in Request /\ CallFits(m)
    BY <1>1 DEF SettlementTypeOK, SettlementInv
  <2>2. n \in Request /\ CallFits(n)
    BY <2>1 DEF Request, CallFits
  <2>3. calls' = (calls \ {m}) \cup {n} /\ handed' = handed
    BY <1>6 DEF CreditEnsures
  <2> HIDE DEF n
  <2>4. SettlementTypeOK'
    BY <1>1, <1>6, <2>1, <2>2, <2>3
    DEF CreditEnsures, EnsureWallet, Request, SettlementTypeOK, WalletTypeOK
  <2>5. CallFits(n)'
    BY <2>2, <2>3 DEF CallFits
  <2> QED
    BY <1>6, <2>3, <2>4, <2>5, RowsFit DEF CreditEnsures, EnsureWallet, SettlementInv
<1>7. ASSUME NEW m \in calls, CreditPosts(m)
      PROVE  SettlementInv'
  <2>1. /\ m.user \in Users /\ m.amount \in Amounts
        /\ m.type \in TxTypes /\ m.ref \in Refs \cup {NoRef} /\ m.order \in Orders
        /\ "credit" \in Directions
        /\ Move(m.user, "credit", m.amount, m.type, m.ref)
        /\ CallFits(m)
    BY <1>7, PostIsMove
  <2>2. WalletTypeOK'
    BY <1>1, <2>1, MoveType
  <2>3. SettlementTypeOK'
    BY <1>1, <1>7, <2>2 DEF CreditPosts, SettlementTypeOK
  <2>4. ASSUME NEW u \in Users, NEW i \in 1..Len(ledger'[u])
        PROVE  \E o \in Orders :
                 \/ /\ ledger'[u][i].type = "order_earning" /\ ledger'[u][i].ref = OrderRef(o)
                    /\ u = Owner[o]
                 \/ /\ ledger'[u][i].type = "delivery_earning"
                    /\ ledger'[u][i].ref = DeliveryRef(o)
                    /\ u \in Drivers
    <3>1. /\ \/ i \in 1..Len(ledger[u]) /\ ledger'[u][i] = ledger[u][i]
             \/ u = m.user /\ i = Len(ledger[m.user]) + 1
          /\ ledger'[m.user][Len(ledger[m.user]) + 1] =
               Posting(m.user, "credit", m.amount, m.type, m.ref)
      BY <1>1, <2>1, MoveAppends
    <3>2. CASE i \in 1..Len(ledger[u]) /\ ledger'[u][i] = ledger[u][i]
      BY <3>2 DEF SettlementInv
    <3>3. CASE u = m.user /\ i = Len(ledger[m.user]) + 1
      <4>1. ledger'[u][i].type = m.type /\ ledger'[u][i].ref = m.ref
        BY <3>1, <3>3 DEF Posting
      <4> QED
        BY <2>1, <3>3, <4>1 DEF CallFits
    <3> QED
      BY <3>1, <3>2, <3>3
  <2>5. \A n \in calls' : CallFits(n)'
    BY <1>7 DEF CreditPosts, CallFits, SettlementInv
  <2> QED
    BY <1>7, <2>3, <2>4, <2>5 DEF CreditPosts, SettlementInv
<1>8. ASSUME NEW m \in calls, CreditRefused(m) \/ CallLost(m)
      PROVE  SettlementInv'
  <2>1. m.order \in Orders
    BY <1>1 DEF SettlementTypeOK, Request
  <2>2. SettlementTypeOK'
    BY <1>1, <1>8, <2>1 DEF CreditRefused, CallLost, SettlementTypeOK, WalletTypeOK
  <2> QED
    BY <1>8, <2>2, RowsFit DEF CreditRefused, CallLost, SettlementInv
<1>9. ASSUME NEW u \in Users, NEW b \in BOOLEAN, FreezeWallet(u, b)
      PROVE  SettlementInv'
  <2>1. SettlementTypeOK'
    BY <1>1, <1>9 DEF FreezeWallet, SetFrozen, SettlementTypeOK, WalletTypeOK
  <2> QED
    BY <1>9, <2>1, RowsFit DEF FreezeWallet, SetFrozen, SettlementInv
<1>10. CASE UNCHANGED <<walletVars, settlementVars>>
  <2>1. SettlementTypeOK'
    BY <1>1, <1>10 DEF SettlementTypeOK, WalletTypeOK
  <2> QED
    BY <1>10, <2>1, RowsFit DEF SettlementInv
<1> QED
  BY <1>2, <1>3, <1>4, <1>5, <1>6, <1>7, <1>8, <1>9, <1>10 DEF SettlementNext

\* Settlements, calls and ledger rows are all of deliveries written delivered,
\* and of the people the code pays for them.
THEOREM SettlementsFit == SettlementSpec => []SettlementInv
<1> QED
  BY SettlementInitInv, SettlementNextInv, PTL DEF SettlementSpec

-----------------------------------------------------------------------------
\* A posting pays one owner or one driver, who was not paid before.
LEMMA PostPays ==
  ASSUME SettlementInv, NEW m \in calls, CreditPosts(m)
  PROVE  /\ \A v \in Users : \A x, y :
              Recorded(v, x, y)' <=> Recorded(v, x, y) \/ (v = m.user /\ x = m.type /\ y = m.ref)
         /\ \A v \in Users : ~Recorded(v, m.type, m.ref)
         /\ balance' = [balance EXCEPT ![m.user] = @ + m.amount]
         /\ UNCHANGED handed
<1>1. /\ WalletTypeOK /\ "credit" \in Directions
      /\ m.user \in Users /\ m.amount \in Amounts /\ m.type \in TxTypes
      /\ m.ref \in Refs \cup {NoRef} /\ m.ref # NoRef
      /\ Move(m.user, "credit", m.amount, m.type, m.ref)
  BY PostIsMove
<1>2. ASSUME NEW v \in Users, NEW x, NEW y
      PROVE  Recorded(v, x, y)' <=> Recorded(v, x, y) \/ (v = m.user /\ x = m.type /\ y = m.ref)
  BY <1>1, MoveRecords
<1>3. \A v \in Users : ~Recorded(v, m.type, m.ref)
  BY <1>1 DEF Move, CanMove, KeyFree
<1>4. balance' = [balance EXCEPT ![m.user] = @ + m.amount]
  BY <1>1 DEF Move, Signed
<1> QED
  BY <1>2, <1>3, <1>4 DEF CreditPosts

LEMMA SettlementInitEarns == SettlementInit => E!EarningsInit
<1> SUFFICES ASSUME SettlementInit PROVE E!EarningsInit
  OBVIOUS
<1>1. Drivers \subseteq Users /\ \A o \in Orders : Owner[o] \in Users
  BY SettlementAssumption DEF Owner
<1>2. \A u \in Users : \A i \in 1..Len(ledger[u]) : FALSE
  <2>1. \A u \in Users : ledger[u] = <<>>
    BY DEF SettlementInit, WalletInit
  <2> QED
    BY <2>1
<1>3. \A u \in Users : \A x, y : ~Recorded(u, x, y)
  BY <1>2 DEF Recorded
<1>4. OwnerPaid = {} /\ DriverPaid = {}
  BY <1>1, <1>3 DEF OwnerPaid, DriverPaid
<1> QED
  BY <1>4 DEF E!EarningsInit, SettlementInit, WalletInit

LEMMA SettlementStepEarns ==
  SettlementInv /\ [SettlementNext]_<<walletVars, settlementVars>>
    => [E!EarningsNext]_(E!earningsVars)
<1> SUFFICES ASSUME SettlementInv, [SettlementNext]_<<walletVars, settlementVars>>
             PROVE  [E!EarningsNext]_(E!earningsVars)
  OBVIOUS
<1>1. Drivers \subseteq Users /\ \A o \in Orders : Owner[o] \in Users
  BY SettlementAssumption DEF Owner
<1>2. ASSUME ledger' = ledger PROVE OwnerPaid' = OwnerPaid /\ DriverPaid' = DriverPaid
  BY <1>2 DEF OwnerPaid, DriverPaid, Recorded
<1>3. CASE UNCHANGED <<ledger, balance, handed>>
  BY <1>2, <1>3 DEF E!earningsVars
<1>4. ASSUME NEW t \in Tasks, NEW o \in Orders, Delivered(t, o)
      PROVE  E!EarningsNext
  <2>1. carrier[o] \in Drivers \cup {NoDriver}
    BY DEF SettlementInv, SettlementTypeOK
  <2>2. E!HandOver(o, carrier[o])
    BY <1>2, <1>4 DEF Delivered, walletVars, E!HandOver
  <2> QED
    BY <2>1, <2>2 DEF E!EarningsNext
<1>5. ASSUME NEW m \in calls, CreditPosts(m)
      PROVE  E!EarningsNext
  <2>1. m.order \in Orders /\ CallFits(m)
    BY <1>5, PostIsMove
  <2>2. /\ \A v \in Users : \A x, y :
             Recorded(v, x, y)' <=> Recorded(v, x, y) \/ (v = m.user /\ x = m.type /\ y = m.ref)
        /\ \A v \in Users : ~Recorded(v, m.type, m.ref)
        /\ balance' = [balance EXCEPT ![m.user] = @ + m.amount]
        /\ UNCHANGED handed
    BY <1>5, PostPays
  <2>3. CASE /\ m.type = "order_earning" /\ m.user = Owner[m.order]
             /\ m.amount = OwnerShare[m.order] /\ m.ref = OrderRef(m.order)
             /\ \E d \in Drivers \cup {NoDriver} : <<m.order, d>> \in handed
    <3>1. OwnerPaid' = OwnerPaid \cup {m.order} /\ m.order \notin OwnerPaid
      BY <1>1, <2>1, <2>2, <2>3 DEF OwnerPaid, OrderRef
    <3>2. DriverPaid' = DriverPaid
      BY <1>1, <2>2, <2>3 DEF DriverPaid
    <3>3. \E h \in handed : h[1] = m.order
      BY <2>3
    <3>4. E!PayOwner(m.order)
      BY <2>2, <2>3, <3>1, <3>2, <3>3 DEF E!PayOwner
    <3> QED
      BY <2>1, <3>4 DEF E!EarningsNext
  <2>4. CASE /\ m.type = "delivery_earning" /\ m.user \in Drivers
             /\ m.amount = DriverShare[m.order] /\ m.ref = DeliveryRef(m.order)
             /\ <<m.order, m.user>> \in handed
    <3>1. OwnerPaid' = OwnerPaid
      BY <1>1, <2>2, <2>4 DEF OwnerPaid
    <3>2. DriverPaid' = DriverPaid \cup {<<m.order, m.user>>}
      BY <1>1, <2>1, <2>2, <2>4 DEF DriverPaid, DeliveryRef
    <3>3. \A h \in DriverPaid : h[1] # m.order
      BY <1>1, <2>2, <2>4 DEF DriverPaid
    <3>4. E!PayCarrier(m.order, m.user)
      BY <2>2, <2>4, <3>1, <3>2, <3>3 DEF E!PayCarrier
    <3> QED
      BY <1>1, <2>1, <2>4, <3>4 DEF E!EarningsNext
  <2> QED
    BY <2>1, <2>3, <2>4 DEF CallFits
<1> QED
  BY <1>3, <1>4, <1>5
  DEF SettlementNext, SetDriver, SettlementFails, SendCredits, CreditEnsures, EnsureWallet,
      CreditRefused, CallLost, FreezeWallet, SetFrozen, walletVars, settlementVars

\* Settlement implements Earnings: an order pays its owner at most once and at
\* most one driver, one it was written delivered with, and balances move by
\* exactly those shares.
THEOREM EarningsArePaidOnce == SettlementSpec => EarningsOnce
<1> QED
  BY SettlementsFit, SettlementInitEarns, SettlementStepEarns, PTL
  DEF SettlementSpec, EarningsOnce, E!EarningsSpec

-----------------------------------------------------------------------------
-----------------------------------------------------------------------------
(* Sums over finite sets.                                                  *)

LEMMA LeastNumber ==
  ASSUME NEW T, T \subseteq Nat, T # {}
  PROVE  \E n \in T : \A m \in T : n <= m
<1>1. PICK n \in T : \A m \in T : ~ (<<m, n>> \in OpToRel(<, Nat))
  BY NatLessThanWellFounded, WFMin, Zenon
<1>2. \A m \in T : ~(m < n)
  BY <1>1 DEF OpToRel
<1> QED
  BY <1>2

\* Induction over the subsets of a finite set, the set of good ones given.
LEMMA SubsetInduction ==
  ASSUME NEW S, IsFiniteSet(S), NEW Good,
         \A s \in SUBSET S : (\A t \in SUBSET s : t # s => t \in Good) => s \in Good
  PROVE  \A s \in SUBSET S : s \in Good
<1> SUFFICES ASSUME NEW b \in SUBSET S, b \notin Good PROVE FALSE
  OBVIOUS
<1> DEFINE Bad == {s \in SUBSET S : s \notin Good}
           T == {Cardinality(s) : s \in Bad}
<1>1. \A s \in SUBSET S : IsFiniteSet(s) /\ Cardinality(s) \in Nat
  BY FS_Subset, FS_CardinalityType
<1>2. T \subseteq Nat /\ T # {}
  BY <1>1
<1>3. PICK n \in T : \A m \in T : n <= m
  <2> HIDE DEF T
  <2> QED
    BY <1>2, LeastNumber
<1>4. PICK s \in Bad : Cardinality(s) = n
  OBVIOUS
<1>5. PICK t \in SUBSET s : t # s /\ t \notin Good
  BY <1>4
<1>6. t \in Bad /\ Cardinality(t) < Cardinality(s)
  BY <1>1, <1>4, <1>5, FS_Subset
<1>7. Cardinality(t) \in T
  BY <1>6
<1> QED
  BY <1>1, <1>2, <1>3, <1>4, <1>6, <1>7

\* The recursive equation of the sums of w over the subsets of S, and its
\* solution at S: what the fold of the community modules computes.
First(s) == CHOOSE x \in s : TRUE

Sums(w, S, g) ==
  g = [s \in SUBSET S |-> IF s = {} THEN 0 ELSE w[First(s)] + g[s \ {First(s)}]]

SumOf(w, S) == (CHOOSE g : Sums(w, S, g))[S]

LEMMA TotalsSum == ASSUME NEW S PROVE SumTotals(S) = SumOf(Total, S)
BY DEF SumTotals, MapThenSumSet, MapThenFoldSet, SumOf, Sums, First

LEMMA FirstIs == ASSUME NEW s, s # {} PROVE First(s) \in s
BY DEF First

LEMMA RowsSum ==
  ASSUME NEW u, NEW X
  PROVE  MapThenSumSet(LAMBDA l : SummaryRow(u, l), X) = SumOf([l \in X |-> SummaryRow(u, l)], X)
<1> DEFINE w == [l \in X |-> SummaryRow(u, l)]
           Rows(g) == [s \in SUBSET X |->
             IF s = {} THEN 0 ELSE SummaryRow(u, First(s)) + g[s \ {First(s)}]]
<1>1. ASSUME NEW g PROVE (g = Rows(g)) <=> Sums(w, X, g)
  <2>1. \A s \in SUBSET X : s # {} => w[First(s)] = SummaryRow(u, First(s))
    BY FirstIs
  <2> HIDE DEF w
  <2>2. Rows(g) = [s \in SUBSET X |->
                     IF s = {} THEN 0 ELSE w[First(s)] + g[s \ {First(s)}]]
    BY <2>1
  <2> QED
    BY <2>2 DEF Sums
<1>2. (CHOOSE g : g = Rows(g)) = (CHOOSE g : Sums(w, X, g))
  <2> HIDE DEF w, Rows
  <2> QED
    BY <1>1
<1>3. MapThenSumSet(LAMBDA l : SummaryRow(u, l), X) = (CHOOSE g : g = Rows(g))[X]
  BY DEF MapThenSumSet, MapThenFoldSet, First
<1> QED
  BY <1>2, <1>3 DEF SumOf

LEMMA SumsAt ==
  ASSUME NEW w, NEW S, NEW g, Sums(w, S, g), NEW s \in SUBSET S
  PROVE  g[s] = IF s = {} THEN 0 ELSE w[First(s)] + g[s \ {First(s)}]
<1> DEFINE f == [x \in SUBSET S |-> IF x = {} THEN 0 ELSE w[First(x)] + g[x \ {First(x)}]]
<1>1. g = f
  BY DEF Sums
<1>2. f[s] = IF s = {} THEN 0 ELSE w[First(s)] + g[s \ {First(s)}]
  OBVIOUS
<1> HIDE DEF f
<1> QED
  BY <1>1, <1>2

\* The equation has one solution at most ...
LEMMA SumsAgree ==
  ASSUME NEW w, NEW S, IsFiniteSet(S), NEW R, NEW g, NEW h, Sums(w, S, g), Sums(w, R, h)
  PROVE  \A s \in SUBSET S : s \in SUBSET R => g[s] = h[s]
<1> DEFINE Good == {s \in SUBSET S : s \in SUBSET R => g[s] = h[s]}
<1>1. ASSUME NEW s \in SUBSET S, \A t \in SUBSET s : t # s => t \in Good PROVE s \in Good
  <2> SUFFICES ASSUME s \in SUBSET R PROVE g[s] = h[s]
    OBVIOUS
  <2>1. /\ g[s] = IF s = {} THEN 0 ELSE w[First(s)] + g[s \ {First(s)}]
        /\ h[s] = IF s = {} THEN 0 ELSE w[First(s)] + h[s \ {First(s)}]
    BY SumsAt
  <2>2. CASE s = {}
    BY <2>1, <2>2
  <2>3. CASE s # {}
    <3>1. s \ {First(s)} \in Good
      BY <1>1, <2>3, FirstIs
    <3>2. g[s \ {First(s)}] = h[s \ {First(s)}]
      BY <3>1
    <3> QED
      BY <2>1, <2>3, <3>2
  <2> QED
    BY <2>2, <2>3
<1>2. \A s \in SUBSET S : s \in Good
  <2> HIDE DEF Good
  <2> QED
    BY <1>1, SubsetInduction
<1> QED
  BY <1>2

\* ... and, over a finite set, has one.
LEMMA SumStep ==
  ASSUME NEW w, NEW t, IsFiniteSet(t),
         \E g : Sums(w, t, g), t # {} => \E g : Sums(w, t \ {First(t)}, g)
  PROVE  SumOf(w, t) = IF t = {} THEN 0 ELSE w[First(t)] + SumOf(w, t \ {First(t)})
<1>1. PICK g : g = CHOOSE f : Sums(w, t, f)
  OBVIOUS
<1>2. Sums(w, t, g) /\ SumOf(w, t) = g[t]
  BY <1>1 DEF SumOf
<1>3. g[t] = IF t = {} THEN 0 ELSE w[First(t)] + g[t \ {First(t)}]
  BY <1>2, SumsAt
<1>4. CASE t # {}
  <2>1. PICK r : r = t \ {First(t)}
    OBVIOUS
  <2>2. PICK h : h = CHOOSE f : Sums(w, r, f)
    OBVIOUS
  <2>3. Sums(w, r, h) /\ SumOf(w, r) = h[r]
    BY <1>4, <2>1, <2>2 DEF SumOf
  <2>4. IsFiniteSet(r) /\ r \in SUBSET r /\ r \in SUBSET t
    BY <2>1, FS_RemoveElement
  <2>5. h[r] = g[r]
    BY <1>2, <2>3, <2>4, SumsAgree
  <2> QED
    BY <1>2, <1>3, <1>4, <2>1, <2>3, <2>5
<1> QED
  BY <1>2, <1>3, <1>4

LEMMA SumsExist == ASSUME NEW w, NEW S, IsFiniteSet(S) PROVE \E g : Sums(w, S, g)
<1> DEFINE Good == {s \in SUBSET S : \E g : Sums(w, s, g)}
<1>1. ASSUME NEW s \in SUBSET S, \A t \in SUBSET s : t # s => t \in Good PROVE s \in Good
  <2> DEFINE g == [t \in SUBSET s |->
                     IF t = {} THEN 0 ELSE w[First(t)] + SumOf(w, t \ {First(t)})]
  <2>1. ASSUME NEW t \in SUBSET s, t # s PROVE g[t] = SumOf(w, t)
    <3>1. \E f : Sums(w, t, f)
      BY <1>1, <2>1
    <3>2. t # {} => \E f : Sums(w, t \ {First(t)}, f)
      <4> SUFFICES ASSUME t # {} PROVE \E f : Sums(w, t \ {First(t)}, f)
        OBVIOUS
      <4>1. t \ {First(t)} \in SUBSET s /\ t \ {First(t)} # s
        BY FirstIs
      <4>2. t \ {First(t)} \in Good
        BY <1>1, <4>1
      <4> QED
        BY <4>2
    <3>3. IsFiniteSet(t)
      BY FS_Subset
    <3>4. SumOf(w, t) = IF t = {} THEN 0 ELSE w[First(t)] + SumOf(w, t \ {First(t)})
      BY <3>1, <3>2, <3>3, SumStep
    <3> QED
      BY <3>4
  <2>2. ASSUME NEW t \in SUBSET s, t # {}
        PROVE  SumOf(w, t \ {First(t)}) = g[t \ {First(t)}]
    <3>1. t \ {First(t)} \in SUBSET s /\ t \ {First(t)} # s
      BY <2>2, FirstIs
    <3> HIDE DEF g
    <3> QED
      BY <2>1, <3>1
  <2>3. PICK f : f = g
    OBVIOUS
  <2>4. \A t \in SUBSET s : t # {} => SumOf(w, t \ {First(t)}) = f[t \ {First(t)}]
    BY <2>2, <2>3
  <2>5. f = [t \in SUBSET s |->
                IF t = {} THEN 0 ELSE w[First(t)] + SumOf(w, t \ {First(t)})]
    BY <2>3
  <2> HIDE DEF g
  <2>6. Sums(w, s, f)
    BY <2>4, <2>5 DEF Sums
  <2> QED
    BY <2>6
<1>2. \A s \in SUBSET S : s \in Good
  <2> HIDE DEF Good
  <2> QED
    BY <1>1, SubsetInduction
<1> QED
  BY <1>2

LEMMA SumIs ==
  ASSUME NEW w, NEW S, IsFiniteSet(S)
  PROVE  SumOf(w, S) = IF S = {} THEN 0 ELSE w[First(S)] + SumOf(w, S \ {First(S)})
<1>1. \E g : Sums(w, S, g)
  BY SumsExist
<1>2. IsFiniteSet(S \ {First(S)})
  BY FS_RemoveElement
<1>3. \E g : Sums(w, S \ {First(S)}, g)
  BY <1>2, SumsExist
<1> QED
  BY <1>1, <1>3, SumStep

-----------------------------------------------------------------------------
LEMMA SumType ==
  ASSUME NEW D, NEW w \in [D -> Int], NEW S, S \subseteq D, IsFiniteSet(S)
  PROVE  SumOf(w, S) \in Int /\ (w \in [D -> Nat] => SumOf(w, S) \in Nat)
<1> DEFINE Good == {s \in SUBSET S :
                      SumOf(w, s) \in Int /\ (w \in [D -> Nat] => SumOf(w, s) \in Nat)}
<1>1. ASSUME NEW s \in SUBSET S, \A t \in SUBSET s : t # s => t \in Good PROVE s \in Good
  <2>1. SumOf(w, s) = IF s = {} THEN 0 ELSE w[First(s)] + SumOf(w, s \ {First(s)})
    BY FS_Subset, SumIs
  <2>2. CASE s # {}
    <3>1. s \ {First(s)} \in Good /\ First(s) \in D
      BY <1>1, <2>2, FirstIs
    <3> QED
      BY <2>1, <2>2, <3>1
  <2> QED
    BY <2>1, <2>2
<1>2. \A s \in SUBSET S : s \in Good
  <2> HIDE DEF Good
  <2> QED
    BY <1>1, SubsetInduction
<1> QED
  BY <1>2

\* The order of a sum does not matter.
LEMMA SumRemove ==
  ASSUME NEW D, NEW w \in [D -> Int], NEW S, S \subseteq D, IsFiniteSet(S)
  PROVE  \A x \in S : SumOf(w, S) = w[x] + SumOf(w, S \ {x})
<1> DEFINE Good == {s \in SUBSET S : \A x \in s : SumOf(w, s) = w[x] + SumOf(w, s \ {x})}
<1>1. ASSUME NEW s \in SUBSET S, \A t \in SUBSET s : t # s => t \in Good PROVE s \in Good
  <2> SUFFICES ASSUME NEW x \in s PROVE SumOf(w, s) = w[x] + SumOf(w, s \ {x})
    OBVIOUS
  <2>1. PICK y : y = First(s)
    OBVIOUS
  <2>2. y \in s /\ SumOf(w, s) = w[y] + SumOf(w, s \ {y})
    BY <2>1, FirstIs, FS_Subset, SumIs
  <2>3. CASE x # y
    <3>1. s \ {x} \in Good /\ s \ {y} \in Good
      BY <1>1, <2>2
    <3>2. /\ SumOf(w, s \ {x}) = w[y] + SumOf(w, (s \ {x}) \ {y})
          /\ SumOf(w, s \ {y}) = w[x] + SumOf(w, (s \ {y}) \ {x})
      BY <2>2, <2>3, <3>1
    <3>3. PICK u : u = (s \ {x}) \ {y}
      OBVIOUS
    <3>4. u = (s \ {y}) \ {x} /\ u \subseteq D /\ IsFiniteSet(u)
      BY <3>3, FS_Subset
    <3>5. SumOf(w, u) \in Int /\ w[x] \in Int /\ w[y] \in Int
      BY <2>2, <3>4, SumType
    <3>6. /\ SumOf(w, s \ {x}) = w[y] + SumOf(w, u)
          /\ SumOf(w, s \ {y}) = w[x] + SumOf(w, u)
      BY <3>2, <3>3, <3>4
    <3> QED
      BY <2>2, <3>5, <3>6
  <2> QED
    BY <2>2, <2>3
<1>2. \A s \in SUBSET S : s \in Good
  <2> HIDE DEF Good
  <2> QED
    BY <1>1, SubsetInduction
<1> QED
  BY <1>2

\* A part of a set sums to no more than the whole.
LEMMA SumGrows ==
  ASSUME NEW D, NEW w \in [D -> Nat], NEW S, S \subseteq D, IsFiniteSet(S)
  PROVE  \A R \in SUBSET S : SumOf(w, R) <= SumOf(w, S)
<1> DEFINE Good == {s \in SUBSET S : \A R \in SUBSET s : SumOf(w, R) <= SumOf(w, s)}
<1>0. /\ w \in [D -> Int]
      /\ \A s \in SUBSET S : IsFiniteSet(s) /\ SumOf(w, s) \in Nat
  <2>1. w \in [D -> Int]
    OBVIOUS
  <2> QED
    BY <2>1, FS_Subset, SumType
<1>1. ASSUME NEW s \in SUBSET S, \A t \in SUBSET s : t # s => t \in Good PROVE s \in Good
  <2> SUFFICES ASSUME NEW R \in SUBSET s PROVE SumOf(w, R) <= SumOf(w, s)
    OBVIOUS
  <2>1. CASE R = s
    BY <1>0, <2>1
  <2>2. CASE R # s
    <3>1. PICK x \in s : x \notin R
      BY <2>2
    <3>2. SumOf(w, s) = w[x] + SumOf(w, s \ {x}) /\ w[x] \in Nat
      BY <1>0, SumRemove
    <3>3. s \ {x} \in Good /\ R \in SUBSET (s \ {x})
      BY <1>1, <3>1
    <3>4. SumOf(w, R) <= SumOf(w, s \ {x})
      BY <3>3
    <3> QED
      BY <1>0, <3>2, <3>4
  <2> QED
    BY <2>1, <2>2
<1>2. \A s \in SUBSET S : s \in Good
  <2> HIDE DEF Good
  <2> QED
    BY <1>1, SubsetInduction
<1> QED
  BY <1>2

\* Two parts sum to the whole.
LEMMA SumParts ==
  ASSUME NEW D, NEW w \in [D -> Int], NEW A, NEW B, A \subseteq D, B \subseteq D,
         IsFiniteSet(A), IsFiniteSet(B), A \cap B = {}
  PROVE  SumOf(w, A \cup B) = SumOf(w, A) + SumOf(w, B)
<1> DEFINE Good == {s \in SUBSET A : SumOf(w, s \cup B) = SumOf(w, s) + SumOf(w, B)}
<1>0. SumOf(w, B) \in Int
  BY SumType
<1>1. ASSUME NEW s \in SUBSET A, \A t \in SUBSET s : t # s => t \in Good PROVE s \in Good
  <2>1. CASE s = {}
    <3>1. SumOf(w, {}) = 0
      BY SumIs, FS_EmptySet
    <3> QED
      BY <1>0, <2>1, <3>1
  <2>2. CASE s # {}
    <3>1. PICK x \in s : TRUE
      BY <2>2
    <3>2. PICK u : u = s \ {x}
      OBVIOUS
    <3>3. /\ IsFiniteSet(s) /\ IsFiniteSet(u) /\ IsFiniteSet(s \cup B) /\ u \subseteq D
          /\ x \in s \cup B /\ s \cup B \subseteq D
      BY <3>2, FS_Subset, FS_Union
    <3>4. (s \cup B) \ {x} = u \cup B
      BY <3>2
    <3>5. SumOf(w, s \cup B) = w[x] + SumOf(w, u \cup B) /\ SumOf(w, s) = w[x] + SumOf(w, u)
      BY <3>2, <3>3, <3>4, SumRemove
    <3>6. u \in Good
      BY <1>1, <3>2
    <3>7. SumOf(w, u) \in Int /\ w[x] \in Int
      BY <3>3, SumType
    <3> QED
      BY <1>0, <3>5, <3>6, <3>7
  <2> QED
    BY <2>1, <2>2
<1>2. \A s \in SUBSET A : s \in Good
  <2> HIDE DEF Good
  <2> QED
    BY <1>1, SubsetInduction
<1> QED
  BY <1>2

\* Only the values at the members matter.
LEMMA SumSame ==
  ASSUME NEW w, NEW v, NEW S, IsFiniteSet(S), \A x \in S : w[x] = v[x]
  PROVE  SumOf(w, S) = SumOf(v, S)
<1> DEFINE Good == {s \in SUBSET S : SumOf(w, s) = SumOf(v, s)}
<1>1. ASSUME NEW s \in SUBSET S, \A t \in SUBSET s : t # s => t \in Good PROVE s \in Good
  <2>1. /\ SumOf(w, s) = IF s = {} THEN 0 ELSE w[First(s)] + SumOf(w, s \ {First(s)})
        /\ SumOf(v, s) = IF s = {} THEN 0 ELSE v[First(s)] + SumOf(v, s \ {First(s)})
    BY FS_Subset, SumIs
  <2>2. CASE s # {}
    <3>1. s \ {First(s)} \in Good /\ First(s) \in S
      BY <1>1, <2>2, FirstIs
    <3> QED
      BY <2>1, <2>2, <3>1
  <2> QED
    BY <2>1, <2>2
<1>2. \A s \in SUBSET S : s \in Good
  <2> HIDE DEF Good
  <2> QED
    BY <1>1, SubsetInduction
<1> QED
  BY <1>2

-----------------------------------------------------------------------------
(* Collections of cash.                                                    *)

\* What a collection has at each of its steps.
VisitFits(v) ==
  /\ v.step = "idle" => v = NoVisit
  /\ v.step # "idle" => v.holder \in Users
  /\ v.step \in {"collected", "insert"} => v.earned <= MostEarned(v.holder)
  /\ v.step = "insert" /\ v.holder \notin unguarded => v.amount <= MostEarned(v.holder)

\* The administrators about to record a collection from u.
Inserting(u) == {a \in Admins : visit[a].step = "insert" /\ visit[a].holder = u}

\* The administrators who are not about to insert.
Rest(u) == Cardinality(Admins) - Cardinality(Inserting(u))

\* What was collected from u leaves room for those about to insert: each takes
\* no more than u ever had, and one of them was let pass when all that was
\* collected by then was within it.
Within(u) ==
  \/ collected[u] <= Rest(u) * MostEarned(u)
  \/ \E a \in Inserting(u) :
       collected[u] + visit[a].amount <= (Rest(u) + 1) * MostEarned(u)

MoneyInv ==
  /\ SettlementInv /\ CashTypeOK
  /\ \A a \in Admins : VisitFits(visit[a])
  /\ \A u \in Users \ unguarded : Within(u)

LEMMA EarnedIsNat == \A u : Earned(u) \in Nat
<1> SUFFICES ASSUME NEW u PROVE Earned(u) \in Nat
  OBVIOUS
<1>1. HeldBy(u) \subseteq CashOrders /\ CashOrders \subseteq Orders /\ IsFiniteSet(CashOrders)
  BY CashAssumption DEF HeldBy, DeliveredCash
<1>2. PICK T : T = HeldBy(u)
  OBVIOUS
<1>3. T \subseteq Orders /\ IsFiniteSet(T)
  BY <1>1, <1>2, FS_Subset
<1>4. Total \in [Orders -> Nat] /\ Total \in [Orders -> Int]
  BY CashAssumption
<1>5. SumOf(Total, T) \in Nat
  BY <1>3, <1>4, SumType
<1> QED
  BY <1>2, <1>5, TotalsSum DEF Earned

LEMMA EarnedIsNatThen == (\A u : Earned(u) \in Nat)'
BY EarnedIsNat, PTL

LEMMA MaxIs ==
  ASSUME NEW x \in Nat, NEW y \in Nat
  PROVE  Max({x, y}) \in Nat /\ x <= Max({x, y}) /\ y <= Max({x, y})
<1>1. \E m \in {x, y} : \A k \in {x, y} : m >= k
  OBVIOUS
<1>2. Max({x, y}) \in {x, y} /\ \A k \in {x, y} : Max({x, y}) >= k
  BY <1>1 DEF Max
<1> QED
  BY <1>2

LEMMA MostIsNat ==
  ASSUME CashTypeOK, NEW u \in Users
  PROVE  MostEarned(u) \in Nat /\ Earned(u) <= MostEarned(u)
<1>1. peak[u] \in Nat /\ Earned(u) \in Nat
  BY EarnedIsNat DEF CashTypeOK
<1> QED
  BY <1>1, MaxIs DEF MostEarned

\* The most a holder ever had only grows.
LEMMA MostGrows ==
  ASSUME CashTypeOK, MarkPeak
  PROVE  /\ peak' \in [Users -> Nat]
         /\ \A u \in Users : MostEarned(u)' \in Nat /\ MostEarned(u) <= MostEarned(u)'
<1>1. \A u \in Users : MostEarned(u) \in Nat
  BY MostIsNat
<1>2. peak' \in [Users -> Nat] /\ \A u \in Users : peak'[u] = MostEarned(u)
  BY <1>1 DEF MarkPeak
<1>3. ASSUME NEW u \in Users PROVE MostEarned(u)' \in Nat /\ MostEarned(u) <= MostEarned(u)'
  <2>1. PICK x, y : x = peak'[u] /\ y = Earned(u)'
    OBVIOUS
  <2>2. x \in Nat /\ y \in Nat /\ x = MostEarned(u) /\ MostEarned(u)' = Max({x, y})
    BY <1>1, <1>2, <2>1, EarnedIsNatThen DEF MostEarned
  <2> QED
    BY <2>2, MaxIs
<1> QED
  BY <1>2, <1>3

LEMMA AdminsCount ==
  ASSUME NEW T, T \subseteq Admins
  PROVE  /\ IsFiniteSet(T) /\ Cardinality(T) \in Nat /\ Cardinality(Admins) \in Nat
         /\ Cardinality(T) <= Cardinality(Admins)
BY CashAssumption, FS_Subset, FS_CardinalityType

\* A limit that many times as high, for a higher limit.
LEMMA Times ==
  ASSUME NEW k \in Nat, NEW l \in Nat, NEW x \in Nat, NEW y \in Nat, k <= l, x <= y
  PROVE  /\ k * x <= l * y /\ k * x \in Nat /\ l * y \in Nat
         /\ (l + 1) * y = l * y + y /\ y <= (l + 1) * y
<1>1. k * x \in Nat /\ l * y \in Nat /\ k * y \in Nat
  OBVIOUS
<1>2. k * x <= k * y
  <2>1. PICK d \in Nat : y = x + d
    BY SMT
  <2>2. k * y = k * x + k * d /\ k * d \in Nat
    BY <2>1
  <2> QED
    BY <1>1, <2>2
<1>3. k * y <= l * y
  <2>1. PICK d \in Nat : l = k + d
    BY SMT
  <2>2. l * y = k * y + d * y /\ d * y \in Nat
    BY <2>1
  <2> QED
    BY <1>1, <2>2
<1>4. (l + 1) * y = l * y + y
  OBVIOUS
<1> QED
  BY <1>1, <1>2, <1>3, <1>4

LEMMA RestIsNat ==
  \A u : /\ Rest(u) \in Nat /\ IsFiniteSet(Inserting(u)) /\ Inserting(u) \subseteq Admins
         /\ Cardinality(Inserting(u)) \in Nat /\ Cardinality(Admins) \in Nat
<1> TAKE u
<1>1. Inserting(u) \subseteq Admins
  BY DEF Inserting
<1>2. /\ IsFiniteSet(Inserting(u)) /\ Cardinality(Inserting(u)) \in Nat
      /\ Cardinality(Admins) \in Nat /\ Cardinality(Inserting(u)) <= Cardinality(Admins)
  BY <1>1, AdminsCount
<1> QED
  BY <1>1, <1>2 DEF Rest

LEMMA RestIsNatThen ==
  (\A u : /\ Rest(u) \in Nat /\ IsFiniteSet(Inserting(u)) /\ Inserting(u) \subseteq Admins
          /\ Cardinality(Inserting(u)) \in Nat /\ Cardinality(Admins) \in Nat)'
BY RestIsNat, PTL

LEMMA VisitIs ==
  ASSUME NEW v \in Visit
  PROVE  /\ v.amount \in Nat /\ v.earned \in Nat /\ v.amount \in CashAmounts \cup {0}
         /\ v.step \in {"idle", "earned", "collected", "insert"}
<1>1. CashAmounts \subseteq Nat
  BY CashAssumption
<1>2. v.amount \in CashAmounts \cup {0}
  BY DEF Visit
<1>3. v.earned \in Nat
  BY DEF Visit
<1>4. v.step \in {"idle", "earned", "collected", "insert"}
  BY DEF Visit
<1>5. v.amount \in Nat
  <2>1. PICK x : x = v.amount
    OBVIOUS
  <2>2. x \in CashAmounts \cup {0}
    BY <1>2, <2>1
  <2>3. x \in Nat
    BY <1>1, <2>2
  <2> QED
    BY <2>1, <2>3
<1> QED
  BY <1>2, <1>3, <1>4, <1>5

\* What holds of a collection that waits.
LEMMA VisitStays ==
  ASSUME CashTypeOK, MarkPeak, unguarded \subseteq unguarded', NEW v \in Visit, VisitFits(v)
  PROVE  VisitFits(v)'
<1>1. v.step # "idle" =>
        /\ v.holder \in Users /\ MostEarned(v.holder) \in Nat
        /\ MostEarned(v.holder)' \in Nat /\ MostEarned(v.holder) <= MostEarned(v.holder)'
  BY MostIsNat, MostGrows DEF VisitFits
<1>2. v.amount \in Nat /\ v.earned \in Nat
  BY VisitIs
<1> QED
  BY <1>1, <1>2 DEF VisitFits

LEMMA NoVisitFits == NoVisit \in Visit /\ VisitFits(NoVisit)' /\ NoVisit.step = "idle"
BY DEF NoVisit, Visit, VisitFits

LEMMA OneVisit ==
  ASSUME MoneyInv, MarkPeak, unguarded \subseteq unguarded', NEW a \in Admins,
         NEW q \in Visit, VisitFits(q)', visit' = [visit EXCEPT ![a] = q]
  PROVE  /\ visit' \in [Admins -> Visit] /\ visit'[a] = q
         /\ \A x \in Admins : x # a => visit'[x] = visit[x]
         /\ (\A x \in Admins : VisitFits(visit[x]))'
<1>1. CashTypeOK /\ visit \in [Admins -> Visit]
  BY DEF MoneyInv, CashTypeOK
<1>2. /\ visit' \in [Admins -> Visit] /\ visit'[a] = q
      /\ \A x \in Admins : x # a => visit'[x] = visit[x]
  BY <1>1
<1>3. ASSUME NEW x \in Admins PROVE VisitFits(visit[x])'
  <2>1. PICK v : v = visit'[x]
    OBVIOUS
  <2>2. CASE x = a
    BY <1>2, <2>2 DEF VisitFits
  <2>3. CASE x # a
    <3>1. v \in Visit /\ VisitFits(v)
      BY <1>1, <1>2, <2>1, <2>3 DEF MoneyInv
    <3>2. VisitFits(v)'
      BY <1>1, <3>1, VisitStays
    <3> QED
      BY <2>1, <3>2 DEF VisitFits
  <2> QED
    BY <2>2, <2>3
<1> QED
  BY <1>2, <1>3

\* Nobody new is about to insert, and nothing more is collected.
LEMMA WithinStays ==
  ASSUME MoneyInv, MarkPeak, NEW u \in Users \ unguarded, collected'[u] = collected[u],
         Inserting(u)' \subseteq Inserting(u),
         \A a \in Inserting(u)' : visit'[a].amount = visit[a].amount
  PROVE  Within(u)'
<1>1. PICK c, m, n, k, l : /\ c = collected[u] /\ m = MostEarned(u) /\ n = MostEarned(u)'
                           /\ k = Rest(u) /\ l = Rest(u)'
  OBVIOUS
<1>2. /\ c \in Nat /\ m \in Nat /\ n \in Nat /\ m <= n
  BY <1>1, MostIsNat, MostGrows DEF MoneyInv, CashTypeOK
<1>3. k \in Nat /\ l \in Nat /\ k <= l
      /\ (Inserting(u)' # Inserting(u) => k + 1 <= l)
  <2>1. k = Cardinality(Admins) - Cardinality(Inserting(u)) /\ k \in Nat
        /\ IsFiniteSet(Inserting(u)) /\ Cardinality(Inserting(u)) \in Nat
        /\ Cardinality(Admins) \in Nat
    BY <1>1, RestIsNat DEF Rest
  <2>2. l = Cardinality(Admins) - Cardinality(Inserting(u)') /\ l \in Nat
        /\ Cardinality(Inserting(u)') \in Nat
    BY <1>1, RestIsNatThen DEF Rest
  <2>3. /\ Cardinality(Inserting(u)') <= Cardinality(Inserting(u))
        /\ Cardinality(Inserting(u)') = Cardinality(Inserting(u)) =>
             Inserting(u) = Inserting(u)'
    BY <2>1, FS_Subset
  <2> QED
    BY <2>1, <2>2, <2>3
<1>4. Within(u)
  BY DEF MoneyInv
<1>5. CASE c <= k * m
  <2>1. c <= l * n
    BY <1>2, <1>3, <1>5, Times
  <2> QED
    BY <1>1, <2>1 DEF Within
<1>6. ASSUME NEW a \in Inserting(u), c + visit[a].amount <= (k + 1) * m PROVE Within(u)'
  <2>1. visit[a].amount \in Nat
    <3>1. visit[a] \in Visit
      BY RestIsNat DEF MoneyInv, CashTypeOK
    <3> QED
      BY <3>1, VisitIs
  <2>2. CASE a \in Inserting(u)'
    <3>1. (k + 1) * m <= (l + 1) * n /\ (k + 1) * m \in Nat /\ (l + 1) * n \in Nat
      BY <1>2, <1>3, Times
    <3>2. c + visit'[a].amount <= (l + 1) * n
      BY <1>2, <1>6, <2>1, <2>2, <3>1
    <3> QED
      BY <1>1, <2>2, <3>2 DEF Within
  <2>3. CASE a \notin Inserting(u)'
    <3>1. (k + 1) * m <= l * n /\ (k + 1) * m \in Nat /\ l * n \in Nat
      BY <1>2, <1>3, <2>3, Times
    <3>2. c <= l * n
      BY <1>2, <1>6, <2>1, <3>1
    <3> QED
      BY <1>1, <3>2 DEF Within
  <2> QED
    BY <2>2, <2>3
<1> QED
  BY <1>1, <1>4, <1>5, <1>6 DEF Within

\* A collection moves on and is not about to insert.
LEMMA QuietVisit ==
  ASSUME MoneyInv, MarkPeak, SettlementInv', NEW a \in Admins, NEW q \in Visit,
         VisitFits(q)', q.step # "insert", visit' = [visit EXCEPT ![a] = q],
         UNCHANGED <<orderStatus, collected>>, visits' \in 0..MaxCollections,
         unguarded \subseteq unguarded', unguarded' \subseteq Users
  PROVE  MoneyInv'
<1>1. /\ visit' \in [Admins -> Visit] /\ visit'[a] = q
      /\ \A x \in Admins : x # a => visit'[x] = visit[x]
      /\ (\A x \in Admins : VisitFits(visit[x]))'
  BY OneVisit
<1>2. peak' \in [Users -> Nat]
  BY MostGrows DEF MoneyInv
<1>3. CashTypeOK'
  BY <1>1, <1>2 DEF MoneyInv, CashTypeOK
<1>4. ASSUME NEW u \in Users, u \notin unguarded' PROVE Within(u)'
  <2>1. /\ Inserting(u)' \subseteq Inserting(u)
        /\ \A x \in Inserting(u)' : visit'[x].amount = visit[x].amount
    BY <1>1 DEF Inserting
  <2> QED
    BY <1>4, <2>1, WithinStays
<1> QED
  BY <1>1, <1>3, <1>4 DEF MoneyInv

\* No collection moves.
LEMMA OthersMove ==
  ASSUME MoneyInv, MarkPeak, SettlementInv', UNCHANGED <<collected, visit, visits, unguarded>>,
         orderStatus' \in [Orders -> {"active", "delivered", "cancelled"}]
  PROVE  MoneyInv'
<1>1. CashTypeOK /\ visit \in [Admins -> Visit]
  BY DEF MoneyInv, CashTypeOK
<1>2. CashTypeOK'
  BY <1>1, MostGrows DEF MoneyInv, CashTypeOK
<1>3. ASSUME NEW x \in Admins PROVE VisitFits(visit[x])'
  <2>1. PICK v : v = visit[x]
    OBVIOUS
  <2>2. VisitFits(v)' /\ v = visit'[x]
    BY <1>1, <2>1, VisitStays DEF MoneyInv
  <2> QED
    BY <2>2 DEF VisitFits
<1>4. ASSUME NEW u \in Users, u \notin unguarded' PROVE Within(u)'
  <2>1. /\ Inserting(u)' \subseteq Inserting(u)
        /\ \A x \in Inserting(u)' : visit'[x].amount = visit[x].amount
    BY DEF Inserting
  <2> QED
    BY <1>4, <2>1, WithinStays
<1> QED
  BY <1>2, <1>3, <1>4 DEF MoneyInv

-----------------------------------------------------------------------------
(* The steps of a collection.                                              *)

LEMMA NextInit == Init => MoneyInv
<1> SUFFICES ASSUME Init PROVE MoneyInv
  OBVIOUS
<1>1. SettlementInv /\ CashTypeOK
  BY SettlementInitInv, NoVisitFits, CashAssumption DEF Init, CashInit, CashTypeOK
<1>2. \A a \in Admins : visit[a] = NoVisit
  BY DEF Init, CashInit
<1>3. \A a \in Admins : VisitFits(visit[a])
  BY <1>2 DEF VisitFits, NoVisit
<1>4. ASSUME NEW u \in Users PROVE Within(u)
  <2>1. collected[u] = 0 /\ MostEarned(u) \in Nat /\ Rest(u) \in Nat
    BY <1>1, MostIsNat, RestIsNat DEF Init, CashInit
  <2>2. 0 <= Rest(u) * MostEarned(u)
    BY <2>1, Times
  <2> QED
    BY <2>1, <2>2 DEF Within
<1> QED
  BY <1>1, <1>3, <1>4 DEF MoneyInv

LEMMA CollectCashKeeps ==
  ASSUME MoneyInv, MarkPeak, SettlementInv', NEW a \in Admins, NEW u \in Users,
         NEW amount \in CashAmounts, CollectCash(a, u, amount)
  PROVE  MoneyInv'
<1>1. PICK q : q = [step |-> "earned", holder |-> u, amount |-> amount, earned |-> 0]
  OBVIOUS
<1>2. q \in Visit /\ q.step = "earned" /\ q.holder = u
  BY <1>1 DEF Visit
<1>3. VisitFits(q)'
  BY <1>2 DEF VisitFits
<1>4. visits' \in 0..MaxCollections
  BY CashAssumption DEF CollectCash, MoneyInv, CashTypeOK
<1> QED
  BY <1>1, <1>2, <1>3, <1>4, QuietVisit DEF CollectCash, MoneyInv, CashTypeOK

LEMMA ReadEarnedKeeps ==
  ASSUME MoneyInv, MarkPeak, SettlementInv', NEW a \in Admins, ReadEarned(a)
  PROVE  MoneyInv'
<1>1. PICK v : v = visit[a]
  OBVIOUS
<1>2. /\ v \in Visit /\ v.step = "earned" /\ v.holder \in Users
      /\ CashTypeOK /\ visit \in [Admins -> Visit]
  BY <1>1 DEF MoneyInv, CashTypeOK, VisitFits, ReadEarned
<1>3. PICK e, h : e = Earned(v.holder) /\ h = v.holder
  OBVIOUS
<1>4. e \in Nat /\ e <= MostEarned(h)'
  <2>1. e \in Nat /\ e <= MostEarned(h) /\ MostEarned(h) \in Nat
    BY <1>2, <1>3, EarnedIsNat, MostIsNat
  <2>2. MostEarned(h)' \in Nat /\ MostEarned(h) <= MostEarned(h)'
    BY <1>2, <1>3, MostGrows
  <2> QED
    BY <2>1, <2>2
<1>5. PICK q : q = [v EXCEPT !.step = "collected", !.earned = e]
  OBVIOUS
<1>6. q \in Visit /\ q.step = "collected" /\ q.holder = h /\ q.earned = e
  BY <1>2, <1>3, <1>4, <1>5 DEF Visit
<1>7. visit' = [visit EXCEPT ![a] = q]
  BY <1>1, <1>2, <1>3, <1>5 DEF ReadEarned
<1>8. VisitFits(q)'
  BY <1>2, <1>3, <1>4, <1>6 DEF VisitFits
<1> QED
  BY <1>6, <1>7, <1>8, QuietVisit DEF ReadEarned, MoneyInv, CashTypeOK

LEMMA VisitEnds ==
  ASSUME MoneyInv, MarkPeak, SettlementInv', NEW a \in Admins,
         visit' = [visit EXCEPT ![a] = NoVisit],
         UNCHANGED <<orderStatus, collected, visits>>,
         unguarded \subseteq unguarded', unguarded' \subseteq Users
  PROVE  MoneyInv'
BY NoVisitFits, QuietVisit DEF MoneyInv, CashTypeOK

LEMMA PassKeeps ==
  ASSUME MoneyInv, MarkPeak, SettlementInv', NEW a \in Admins, ReadCollected(a),
         Passes(visit[a].amount, visit[a].earned - collected[visit[a].holder])
  PROVE  MoneyInv'
<1>1. PICK v, h, c : v = visit[a] /\ h = v.holder /\ c = collected[h]
  OBVIOUS
<1>2. /\ v \in Visit /\ v.step = "collected" /\ h \in Users /\ v.earned <= MostEarned(h)
      /\ CashTypeOK /\ visit \in [Admins -> Visit] /\ c \in Nat
  BY <1>1 DEF MoneyInv, CashTypeOK, VisitFits, ReadCollected
<1>3. PICK q : q = [v EXCEPT !.step = "insert"]
  OBVIOUS
<1>4. /\ q \in Visit /\ q.step = "insert" /\ q.holder = h /\ q.amount = v.amount
      /\ q.earned = v.earned /\ q.amount \in Nat /\ q.earned \in Nat
  BY <1>1, <1>2, <1>3, VisitIs DEF Visit
<1>5. visit' = [visit EXCEPT ![a] = q] /\ UNCHANGED <<orderStatus, collected, visits>>
  BY <1>1, <1>2, <1>3 DEF ReadCollected
<1>6. unguarded' = IF v.earned - c <= 0 THEN unguarded \cup {h} ELSE unguarded
  BY <1>1 DEF ReadCollected
<1>7. /\ MostEarned(h) \in Nat /\ MostEarned(h)' \in Nat
      /\ v.earned <= MostEarned(h)' /\ \A u \in Users : MostEarned(u)' \in Nat
  <2>1. /\ MostEarned(h) \in Nat /\ MostEarned(h)' \in Nat /\ MostEarned(h) <= MostEarned(h)'
        /\ \A u \in Users : MostEarned(u)' \in Nat
    BY <1>2, MostIsNat, MostGrows
  <2> QED
    BY <1>2, <1>4, <2>1
\* Something was pending: the amount is within it.
<1>8. h \notin unguarded' => c + q.amount <= MostEarned(h)'
  <2> SUFFICES ASSUME h \notin unguarded' PROVE c + q.amount <= MostEarned(h)'
    OBVIOUS
  <2>1. ~(v.earned - c <= 0)
    BY <1>6
  <2>2. q.amount <= v.earned - c
    BY <1>1, <1>4, <2>1 DEF Passes
  <2> QED
    BY <1>2, <1>4, <1>7, <2>2
<1>9. VisitFits(q)'
  BY <1>2, <1>4, <1>7, <1>8 DEF VisitFits
<1>10. /\ visit' \in [Admins -> Visit] /\ visit'[a] = q
       /\ \A x \in Admins : x # a => visit'[x] = visit[x]
       /\ (\A x \in Admins : VisitFits(visit[x]))'
  BY <1>4, <1>5, <1>6, <1>9, OneVisit
<1>11. CashTypeOK'
  BY <1>1, <1>2, <1>5, <1>6, <1>10, MostGrows DEF MoneyInv, CashTypeOK
<1>12. ASSUME NEW u \in Users, u \notin unguarded' PROVE Within(u)'
  <2>1. CASE u = h
    <3>1. a \in Inserting(u)'
      BY <1>4, <1>10, <2>1 DEF Inserting
    <3>2. PICK k, m : k = Rest(u)' /\ m = MostEarned(u)'
      OBVIOUS
    <3>3. k \in Nat /\ m \in Nat /\ m <= (k + 1) * m /\ (k + 1) * m \in Nat
      BY <1>7, <3>2, RestIsNatThen, Times
    <3>4. collected'[u] + visit'[a].amount <= m
      BY <1>1, <1>5, <1>8, <1>10, <1>12, <2>1, <3>2
    <3>5. collected'[u] + visit'[a].amount <= (k + 1) * m
      BY <1>1, <1>2, <1>4, <1>5, <1>10, <2>1, <3>3, <3>4
    <3> QED
      BY <3>1, <3>2, <3>5 DEF Within
  <2>2. CASE u # h
    <3>1. /\ Inserting(u)' \subseteq Inserting(u)
          /\ \A x \in Inserting(u)' : visit'[x].amount = visit[x].amount
      BY <1>4, <1>10, <2>2 DEF Inserting
    <3> QED
      BY <1>5, <1>6, <1>12, <3>1, WithinStays
  <2> QED
    BY <2>1, <2>2
<1> QED
  BY <1>10, <1>11, <1>12 DEF MoneyInv

LEMMA InsertKeeps ==
  ASSUME MoneyInv, MarkPeak, SettlementInv', NEW a \in Admins, InsertCollection(a)
  PROVE  MoneyInv'
<1>1. PICK v, h, c : v = visit[a] /\ h = v.holder /\ c = collected[h]
  OBVIOUS
<1>2. /\ v \in Visit /\ v.step = "insert" /\ h \in Users /\ v.amount \in Nat
      /\ CashTypeOK /\ visit \in [Admins -> Visit] /\ c \in Nat
      /\ collected \in [Users -> Nat]
  BY <1>1, VisitIs DEF MoneyInv, CashTypeOK, VisitFits, InsertCollection
<1>3. /\ visit' = [visit EXCEPT ![a] = NoVisit] /\ UNCHANGED <<orderStatus, visits, unguarded>>
      /\ collected' = IF v.amount > 0 THEN [collected EXCEPT ![h] = @ + v.amount] ELSE collected
  BY <1>1 DEF InsertCollection
<1>4. /\ collected' \in [Users -> Nat] /\ collected'[h] = c + v.amount
      /\ \A u \in Users : u # h => collected'[u] = collected[u]
  <2>1. CASE v.amount > 0
    BY <1>1, <1>2, <1>3, <2>1
  <2>2. CASE v.amount = 0
    BY <1>1, <1>2, <1>3, <2>2
  <2> QED
    BY <1>2, <2>1, <2>2
<1>5. /\ visit' \in [Admins -> Visit] /\ visit'[a] = NoVisit
      /\ \A x \in Admins : x # a => visit'[x] = visit[x]
      /\ (\A x \in Admins : VisitFits(visit[x]))'
  BY <1>3, NoVisitFits, OneVisit
<1>6. CashTypeOK'
  BY <1>2, <1>3, <1>4, <1>5, MostGrows DEF MoneyInv, CashTypeOK
<1>7. ASSUME h \notin unguarded PROVE Within(h)'
  <2>1. PICK m, n, k, l : /\ m = MostEarned(h) /\ n = MostEarned(h)'
                          /\ k = Rest(h) /\ l = Rest(h)'
    OBVIOUS
  <2>2. m \in Nat /\ n \in Nat /\ m <= n /\ v.amount <= m
    BY <1>1, <1>2, <1>7, <2>1, MostIsNat, MostGrows DEF MoneyInv, VisitFits
  <2>3. k \in Nat /\ l = k + 1
    <3>1. Inserting(h)' = Inserting(h) \ {a} /\ a \in Inserting(h)
      BY <1>1, <1>2, <1>5, NoVisitFits DEF Inserting
    <3>2. k = Cardinality(Admins) - Cardinality(Inserting(h)) /\ k \in Nat
          /\ IsFiniteSet(Inserting(h)) /\ Cardinality(Inserting(h)) \in Nat
          /\ Cardinality(Admins) \in Nat
      BY <2>1, RestIsNat DEF Rest
    <3>3. l = Cardinality(Admins) - Cardinality(Inserting(h)')
      BY <2>1 DEF Rest
    <3>4. Cardinality(Inserting(h)') = Cardinality(Inserting(h)) - 1
      BY <3>1, <3>2, FS_RemoveElement
    <3> QED
      BY <3>2, <3>3, <3>4
  <2>4. /\ k * m \in Nat /\ (k + 1) * m = k * m + m /\ (k + 1) * m \in Nat
        /\ (k + 1) * m <= l * n /\ l * n \in Nat
        /\ (l + 1) * n = l * n + n
    <3>1. k + 1 \in Nat /\ k <= k + 1 /\ l \in Nat /\ k + 1 <= l
      BY <2>3
    <3>2. k * m \in Nat /\ (k + 1) * m = k * m + m
      BY <2>2, <2>3, Times
    <3>3. (k + 1) * m <= l * n /\ (k + 1) * m \in Nat /\ l * n \in Nat /\ (l + 1) * n = l * n + n
      BY <2>2, <3>1, Times
    <3> QED
      BY <3>2, <3>3
  <2>5. Within(h)
    BY <1>2, <1>7 DEF MoneyInv
  <2>6. CASE c <= k * m
    <3>1. c + v.amount <= l * n
      BY <1>2, <2>2, <2>4, <2>6
    <3> QED
      BY <1>4, <2>1, <3>1 DEF Within
  <2>7. ASSUME NEW x \in Inserting(h), c + visit[x].amount <= (k + 1) * m PROVE Within(h)'
    <3>1. CASE x = a
      <4>1. c + v.amount <= l * n
        BY <1>1, <1>2, <2>4, <2>7, <3>1
      <4> QED
        BY <1>4, <2>1, <4>1 DEF Within
    <3>2. CASE x # a
      <4>1. x \in Admins /\ x \in Inserting(h)' /\ visit'[x].amount = visit[x].amount
        BY <1>5, <2>7, <3>2 DEF Inserting
      <4>2. visit[x].amount \in Nat
        BY <1>2, <4>1, VisitIs
      <4>3. (c + v.amount) + visit'[x].amount <= (l + 1) * n
        BY <1>2, <2>2, <2>4, <2>7, <4>1, <4>2
      <4> QED
        BY <1>4, <2>1, <4>1, <4>3 DEF Within
    <3> QED
      BY <3>1, <3>2
  <2> QED
    BY <1>1, <2>1, <2>5, <2>6, <2>7 DEF Within
<1>8. ASSUME NEW u \in Users, u \notin unguarded' PROVE Within(u)'
  <2>1. CASE u = h
    BY <1>3, <1>7, <1>8, <2>1 DEF Within, Inserting, Rest, MostEarned, Earned
  <2>2. CASE u # h
    <3>1. /\ Inserting(u)' \subseteq Inserting(u)
          /\ \A x \in Inserting(u)' : visit'[x].amount = visit[x].amount
      BY <1>5, NoVisitFits DEF Inserting
    <3> QED
      BY <1>3, <1>4, <1>8, <2>2, <3>1, WithinStays
  <2> QED
    BY <2>1, <2>2
<1> QED
  BY <1>5, <1>6, <1>8 DEF MoneyInv

-----------------------------------------------------------------------------
LEMMA MoneyNextInv == MoneyInv /\ [Next]_moneyVars => MoneyInv'
<1> SUFFICES ASSUME MoneyInv, [Next]_moneyVars PROVE MoneyInv'
  OBVIOUS
<1>1. SettlementInv'
  <2>1. [SettlementNext]_<<walletVars, settlementVars>>
    BY DEF Next, moneyVars
  <2> QED
    BY <2>1, SettlementNextInv DEF MoneyInv
<1>2. ASSUME MarkPeak, NEW a \in Admins, CashStep(a) PROVE MoneyInv'
  <2>1. CASE ReadCollected(a) /\ ~Passes(visit[a].amount, visit[a].earned - collected[visit[a].holder])
    <3>1. visit[a].holder \in Users
      BY <2>1 DEF ReadCollected, MoneyInv, VisitFits
    <3>2. /\ visit' = [visit EXCEPT ![a] = NoVisit] /\ UNCHANGED <<orderStatus, collected, visits>>
          /\ unguarded \subseteq unguarded' /\ unguarded' \subseteq Users
      BY <2>1, <3>1 DEF ReadCollected, MoneyInv, CashTypeOK
    <3> QED
      BY <1>1, <1>2, <3>2, VisitEnds
  <2>2. CASE CollectionFails(a)
    BY <1>1, <1>2, <2>2, VisitEnds DEF CollectionFails, MoneyInv, CashTypeOK
  <2> QED
    BY <1>1, <1>2, <2>1, <2>2, ReadEarnedKeeps, PassKeeps, InsertKeeps DEF CashStep
<1>3. ASSUME MarkPeak, NEW o \in Orders, NEW status \in {"delivered", "cancelled"},
             EndOrder(o, status)
      PROVE  MoneyInv'
  BY <1>1, <1>3, OthersMove DEF EndOrder, MoneyInv, CashTypeOK
<1>4. ASSUME MarkPeak, UNCHANGED <<orderStatus, collected, visit, visits, unguarded>>
      PROVE  MoneyInv'
  BY <1>1, <1>4, OthersMove DEF MoneyInv, CashTypeOK
<1>5. CASE UNCHANGED moneyVars
  <2>1. UNCHANGED <<orderStatus, collected, visit, visits, peak, unguarded, carrier>>
    BY <1>5 DEF moneyVars, cashVars, settlementVars
  <2>2. CashTypeOK'
    BY <2>1 DEF MoneyInv, CashTypeOK
  <2>3. \A u : MostEarned(u)' = MostEarned(u)
    BY <2>1 DEF MostEarned, Earned, HeldBy, DeliveredCash
  <2>4. (\A a \in Admins : VisitFits(visit[a]))'
    BY <2>1, <2>3 DEF MoneyInv, VisitFits
  <2>5. \A u : Inserting(u)' = Inserting(u) /\ Rest(u)' = Rest(u)
    BY <2>1 DEF Inserting, Rest
  <2>6. (\A u \in Users \ unguarded : Within(u))'
    BY <2>1, <2>3, <2>5 DEF MoneyInv, Within
  <2> QED
    BY <1>1, <2>2, <2>4, <2>6 DEF MoneyInv
<1> QED
  BY <1>1, <1>2, <1>3, <1>4, <1>5, CollectCashKeeps DEF Next, CashNext

LEMMA MoneyAlways == Spec => []MoneyInv
<1> QED
  BY NextInit, MoneyNextInv, PTL DEF Spec

\* The tables and whatever works on them keep their types, every sum of totals
\* that a collection has read included.
THEOREM TypeCorrect == Spec => []TypeOK
<1>1. MoneyInv => TypeOK
  BY DEF MoneyInv, SettlementInv, TypeOK
<1> QED
  BY <1>1, MoneyAlways, PTL

\* Collections by any number of administrators at once stay within that many
\* times the most the holder's orders ever came to, as long as each of them
\* found something pending.
THEOREM CollectionsStayBounded == Spec => []CollectionsBounded
<1>1. MoneyInv => CollectionsBounded
  <2> SUFFICES ASSUME MoneyInv, NEW u \in Users \ unguarded
               PROVE  collected[u] <= Cardinality(Admins) * MostEarned(u)
    BY DEF CollectionsBounded
  <2>1. PICK c, m, n, k : /\ c = collected[u] /\ m = MostEarned(u) /\ k = Rest(u)
                          /\ n = Cardinality(Admins)
    OBVIOUS
  <2>2. /\ c \in Nat /\ m \in Nat /\ k \in Nat /\ n \in Nat
        /\ k = n - Cardinality(Inserting(u)) /\ Cardinality(Inserting(u)) \in Nat
    BY <2>1, MostIsNat, RestIsNat DEF MoneyInv, CashTypeOK, Rest
  <2>3. CASE c <= k * m
    <3>1. k <= n
      BY <2>2
    <3>2. k * m <= n * m /\ k * m \in Nat /\ n * m \in Nat
      BY <2>2, <3>1, Times
    <3> QED
      BY <2>1, <2>2, <2>3, <3>2
  <2>4. ASSUME NEW a \in Inserting(u), c + visit[a].amount <= (k + 1) * m
        PROVE  c <= n * m
    <3>1. visit[a] \in Visit /\ visit[a].amount \in Nat
      BY RestIsNat, VisitIs DEF MoneyInv, CashTypeOK
    <3>2. k + 1 <= n
      <4>1. Cardinality(Inserting(u)) # 0
        BY RestIsNat, FS_EmptySet
      <4> QED
        BY <2>2, <4>1
    <3>3. (k + 1) * m <= n * m /\ (k + 1) * m \in Nat /\ n * m \in Nat
      BY <2>2, <3>2, Times
    <3> QED
      BY <2>2, <2>4, <3>1, <3>3
  <2> QED
    BY <2>1, <2>3, <2>4 DEF MoneyInv, Within
<1> QED
  BY <1>1, MoneyAlways, PTL

-----------------------------------------------------------------------------
(* The summary of pending cash.                                            *)

\* The delivered cash orders picked up from u's restaurants with labels in X.
PickedUp(u, X) ==
  {o \in DeliveredCash \cap Pickups : Owner[o] = u /\ LabelOf[RestaurantOf[o]] \in X}

LEMMA PickedUpFits ==
  ASSUME NEW u, NEW X
  PROVE  /\ PickedUp(u, X) \subseteq Orders /\ IsFiniteSet(PickedUp(u, X))
         /\ SumOf(Total, PickedUp(u, X)) \in Nat
<1>1. PickedUp(u, X) \subseteq CashOrders /\ CashOrders \subseteq Orders /\ IsFiniteSet(CashOrders)
  BY CashAssumption DEF PickedUp, DeliveredCash
<1>2. PICK T : T = PickedUp(u, X)
  OBVIOUS
<1>3. T \subseteq Orders /\ IsFiniteSet(T)
  BY <1>1, <1>2, FS_Subset
<1>4. Total \in [Orders -> Nat] /\ Total \in [Orders -> Int]
  BY CashAssumption
<1>5. SumOf(Total, T) \in Nat
  BY <1>3, <1>4, SumType
<1> QED
  BY <1>2, <1>3, <1>5

\* What an owner's restaurants took, label by label.
LEMMA PickedUpParts ==
  ASSUME NEW u, NEW X, NEW l \in X
  PROVE  SumOf(Total, PickedUp(u, X)) = SumOf(Total, PickedUp(u, {l})) + SumOf(Total, PickedUp(u, X \ {l}))
<1>1. PICK A, B : A = PickedUp(u, {l}) /\ B = PickedUp(u, X \ {l})
  OBVIOUS
<1>2. PickedUp(u, X) = A \cup B /\ A \cap B = {}
  BY <1>1 DEF PickedUp
<1>3. A \subseteq Orders /\ B \subseteq Orders /\ IsFiniteSet(A) /\ IsFiniteSet(B)
  BY <1>1, PickedUpFits
<1>4. Total \in [Orders -> Int]
  BY CashAssumption
<1>5. SumOf(Total, A \cup B) = SumOf(Total, A) + SumOf(Total, B)
  BY <1>3, <1>4, <1>2, SumParts
<1> QED
  BY <1>1, <1>2, <1>5

LEMMA RowIs ==
  ASSUME CashTypeOK, NEW u \in Users, NEW l
  PROVE  /\ SummaryRow(u, l) = SumOf(Total, PickedUp(u, {l})) - collected[u]
         /\ SummaryRow(u, l) \in Int
<1>1. PickedUpAt(u, l) = PickedUp(u, {l})
  BY DEF PickedUp, PickedUpAt
<1>2. SummaryRow(u, l) = SumOf(Total, PickedUp(u, {l})) - collected[u]
  BY <1>1, TotalsSum DEF SummaryRow
<1>3. collected[u] \in Nat
  BY DEF CashTypeOK
<1>4. SumOf(Total, PickedUp(u, {l})) \in Nat
  BY PickedUpFits
<1> QED
  BY <1>2, <1>3, <1>4

LEMMA LabelsFinite == IsFiniteSet(Labels)
<1> DEFINE f == [r \in Restaurants |-> LabelOf[r]]
<1>1. f \in Surjection(Restaurants, Labels)
  BY DEF Labels, Surjection
<1> QED
  BY <1>1, CashAssumption, FS_Surjection

\* Rows of one owner add up to what the restaurants took, less what was
\* collected from the owner for each: at least once when there is any row.
LEMMA RowsWithin ==
  ASSUME CashTypeOK, NEW u \in Users, NEW X, X \subseteq Labels
  PROVE  X # {} => SumOf([l \in X |-> SummaryRow(u, l)], X) + collected[u]
                     <= SumOf(Total, PickedUp(u, X))
<1>1. PICK w, c : w = [l \in X |-> SummaryRow(u, l)] /\ c = collected[u]
  OBVIOUS
<1>2. c \in Nat
  BY <1>1 DEF CashTypeOK
<1>3. IsFiniteSet(X)
  BY LabelsFinite, FS_Subset
<1>4. w \in [X -> Int] /\ \A l \in X : w[l] = SumOf(Total, PickedUp(u, {l})) - c
  BY <1>1, RowIs
<1> DEFINE Good == {s \in SUBSET X : s # {} => SumOf(w, s) + c <= SumOf(Total, PickedUp(u, s))}
<1>5. ASSUME NEW s \in SUBSET X, \A t \in SUBSET s : t # s => t \in Good PROVE s \in Good
  <2> SUFFICES ASSUME s # {} PROVE SumOf(w, s) + c <= SumOf(Total, PickedUp(u, s))
    OBVIOUS
  <2>1. PICK l \in s : TRUE
    OBVIOUS
  <2>2. IsFiniteSet(s) /\ IsFiniteSet(s \ {l}) /\ s \subseteq X /\ s \ {l} \subseteq X
    BY <1>3, FS_Subset
  <2>3. SumOf(w, s) = w[l] + SumOf(w, s \ {l})
    BY <1>4, <2>2, SumRemove
  <2>4. SumOf(w, s \ {l}) \in Int
    BY <1>4, <2>2, SumType
  <2>5. PICK p, q : p = SumOf(Total, PickedUp(u, {l})) /\ q = SumOf(Total, PickedUp(u, s \ {l}))
    OBVIOUS
  <2>6. p \in Nat /\ q \in Nat /\ SumOf(Total, PickedUp(u, s)) = p + q /\ w[l] = p - c
    BY <1>4, <2>5, PickedUpFits, PickedUpParts
  <2>7. CASE s \ {l} = {}
    <3>1. SumOf(w, {}) = 0
      BY SumIs, FS_EmptySet
    <3> QED
      BY <1>2, <2>3, <2>6, <2>7, <3>1
  <2>8. CASE s \ {l} # {}
    <3>1. s \ {l} \in Good
      BY <1>5
    <3>2. SumOf(w, s \ {l}) + c <= q
      BY <2>5, <2>8, <3>1
    <3> QED
      BY <1>2, <2>3, <2>4, <2>6, <3>2
  <2> QED
    BY <2>7, <2>8
<1> HIDE DEF Good
<1>6. X \in Good
  BY <1>3, <1>5, SubsetInduction
<1> QED
  BY <1>1, <1>6 DEF Good

\* What an owner's restaurants took is held by the owner.
LEMMA PickedUpIsHeld ==
  ASSUME NEW u \in Users \ Drivers, NEW X
  PROVE  SumOf(Total, PickedUp(u, X)) <= Earned(u)
<1>1. PICK H, P : H = HeldBy(u) /\ P = PickedUp(u, X)
  OBVIOUS
<1>2. P \subseteq H
  BY <1>1 DEF PickedUp, HeldBy
<1>3. H \subseteq CashOrders /\ CashOrders \subseteq Orders /\ IsFiniteSet(CashOrders)
  BY <1>1, CashAssumption DEF HeldBy, DeliveredCash
<1>4. H \subseteq Orders /\ IsFiniteSet(H) /\ Total \in [Orders -> Nat]
  BY <1>3, CashAssumption, FS_Subset
<1>5. SumOf(Total, P) <= SumOf(Total, H)
  BY <1>2, <1>4, SumGrows
<1> QED
  BY <1>1, <1>5, TotalsSum DEF Earned

\* The summary of pending cash never asks an owner for more than the balance of
\* that owner does, however many restaurants share the owner's collections.
THEOREM SummaryStaysWithin == Spec => []SummaryWithinBalance
<1>1. MoneyInv => SummaryWithinBalance
  <2> SUFFICES ASSUME MoneyInv, NEW u \in Users \ Drivers, SummaryOf(u) # {}
               PROVE  MapThenSumSet(LAMBDA l : SummaryRow(u, l), SummaryOf(u)) <= Pending(u)
    BY DEF SummaryWithinBalance
  <2>1. PICK X : X = SummaryOf(u)
    OBVIOUS
  <2>2. X \subseteq Labels /\ X # {}
    BY <2>1 DEF SummaryOf
  <2>3. PICK s, p, c, e : /\ s = SumOf([l \in X |-> SummaryRow(u, l)], X) /\ c = collected[u]
                          /\ p = SumOf(Total, PickedUp(u, X)) /\ e = Earned(u)
    OBVIOUS
  <2>4. s + c <= p /\ p <= e
    BY <2>2, <2>3, RowsWithin, PickedUpIsHeld DEF MoneyInv
  <2>5. p \in Nat /\ e \in Nat /\ c \in Nat
    BY <2>3, PickedUpFits, EarnedIsNat DEF MoneyInv, CashTypeOK
  <2>6. s \in Int
    <3>1. [l \in X |-> SummaryRow(u, l)] \in [X -> Int]
      BY <2>2, RowIs DEF MoneyInv
    <3>2. IsFiniteSet(X)
      BY <2>2, LabelsFinite, FS_Subset
    <3> QED
      BY <2>3, <3>1, <3>2, SumType
  <2>7. s <= e - c
    BY <2>4, <2>5, <2>6
  <2> QED
    BY <2>1, <2>3, <2>7, RowsSum DEF Pending
<1> QED
  BY <1>1, MoneyAlways, PTL

-----------------------------------------------------------------------------
\* What settlement guarantees, it guarantees among the collections too.
LEMMA SettlesToo == Spec => SettlementSpec
<1>1. Init => SettlementInit
  BY DEF Init
<1>2. [Next]_moneyVars => [SettlementNext]_<<walletVars, settlementVars>>
  BY DEF Next, moneyVars
<1> QED
  BY <1>1, <1>2, PTL DEF Spec, SettlementSpec

\* Among the collections too, settlements, requests and postings are all of
\* deliveries written delivered.
THEOREM SettlementsFitAmongCollections == Spec => []SettlementInv
<1> QED
  BY SettlesToo, SettlementsFit, PTL

\* Among the collections too, an owner is paid at most once for an order, at
\* most one driver is, and balances move by exactly those shares.
THEOREM EarningsArePaidOnceAmongCollections == Spec => EarningsOnce
<1> QED
  BY SettlesToo, EarningsArePaidOnce, PTL

-----------------------------------------------------------------------------
\* A step of a settlement is one of the ledger, or leaves the ledger alone.
LEMMA SettlementMovesLedger ==
  SettlementInv /\ [SettlementNext]_<<walletVars, settlementVars>> => [WalletNext]_walletVars
<1> SUFFICES ASSUME SettlementInv, [SettlementNext]_<<walletVars, settlementVars>>
             PROVE  [WalletNext]_walletVars
  OBVIOUS
<1>1. CASE UNCHANGED walletVars
  BY <1>1
<1>2. ASSUME NEW m \in calls, CreditEnsures(m) PROVE WalletNext
  <2>1. m.user \in Users
    BY DEF SettlementInv, SettlementTypeOK, Request
  <2> QED
    BY <1>2, <2>1 DEF CreditEnsures, WalletNext
<1>3. ASSUME NEW m \in calls, CreditPosts(m) PROVE WalletNext
  <2>1. m.user \in Users /\ m.amount \in Amounts /\ m.type \in TxTypes /\ m.ref \in Refs
    BY <1>3, PostIsMove
  <2> QED
    BY <1>3, <2>1 DEF CreditPosts, WalletNext
<1>4. ASSUME NEW u \in Users, NEW b \in BOOLEAN, FreezeWallet(u, b) PROVE WalletNext
  BY <1>4 DEF FreezeWallet, WalletNext
<1>5. ASSUME NEW m \in calls, CreditRefused(m) \/ CallLost(m) PROVE UNCHANGED walletVars
  BY <1>5 DEF CreditRefused, CallLost
<1>6. ASSUME NEW t \in Tasks, SettlementFails(t) \/ SendCredits(t) PROVE UNCHANGED walletVars
  BY <1>6 DEF SettlementFails, SendCredits
<1>7. ASSUME NEW o \in Orders, \/ \E d \in Drivers \cup {NoDriver} : SetDriver(o, d)
                              \/ \E t \in Tasks : Delivered(t, o)
      PROVE  UNCHANGED walletVars
  BY <1>7 DEF SetDriver, Delivered
<1> QED
  BY <1>1, <1>2, <1>3, <1>4, <1>5, <1>6, <1>7 DEF SettlementNext, walletVars

\* Settlements use the ledger only as Wallet allows: the wallet part of every
\* behaviour is one of Wallet, whose theorems hold of it.
LEMMA SettlementKeepsToWallet == Spec => WalletSpec
<1>1. SettlementInit => WalletInit
  BY DEF SettlementInit
<1> QED
  BY <1>1, SettlesToo, SettlementsFitAmongCollections, SettlementMovesLedger, PTL
  DEF SettlementSpec, WalletSpec

\* Whatever settlements overlap, and whatever calls are lost, the ledger explains
\* every balance they have changed and has booked each earning once.
THEOREM EarningsAreLedgered == Spec => [](LedgerExplainsBalance /\ EventRecordedOnce)
<1> QED
  BY SettlementKeepsToWallet, LedgerAlwaysExplains, EventsRecordedOnce, PTL
=============================================================================
