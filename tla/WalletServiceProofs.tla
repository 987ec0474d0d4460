------------------------ MODULE WalletServiceProofs -------------------------
(***************************************************************************)
(* The handlers of the wallet service, for any number of them running at a *)
(* time and any of them stopping anywhere: payouts are funded, rejected    *)
(* ones are returned, paid driver payments are credited, and the ledger is *)
(* moved only as Wallet allows.                                            *)
(***************************************************************************)
EXTENDS WalletService, WalletProofs, FiniteSetTheorems, FunctionTheorems

USE ServiceAssumption

\* Every step on the tables of the ledger is a step of Wallet.
LEMMA ServiceImplementsWallet == TypeOK /\ [Next]_vars => [WalletNext]_walletVars
<1> SUFFICES ASSUME TypeOK, [Next]_vars PROVE [WalletNext]_walletVars
  OBVIOUS
<1>1. ASSUME NEW c \in Calls, MoveFunds(c) PROVE WalletNext
  <2>1. call[c] \in Call
    BY <1>1 DEF TypeOK, MoveFunds
  <2>2. Move(call[c].user, call[c].direction, call[c].amount, call[c].type, call[c].ref)
    BY <1>1 DEF MoveFunds
  <2>3. \/ Credit(call[c].user, call[c].amount, call[c].type, call[c].ref)
        \/ Debit(call[c].user, call[c].amount, call[c].type, call[c].ref)
    BY <2>1, <2>2 DEF Credit, Debit, Call, Directions
  <2> QED
    BY <2>1, <2>3 DEF WalletNext, Call
<1>2. ASSUME NEW c \in Calls, Ensure(c) PROVE WalletNext
  <2>1. call[c] \in Call /\ EnsureWallet(call[c].user)
    BY <1>2 DEF TypeOK, Ensure
  <2> QED
    BY <2>1 DEF WalletNext, Call
<1>3. ASSUME NEW u \in Users, NEW b \in BOOLEAN, FreezeWallet(u, b) PROVE WalletNext
  BY <1>3 DEF FreezeWallet, WalletNext
<1>4. ASSUME NEW c \in Calls, NEW op, NEW pc, NEW u, NEW d, NEW a, NEW t, NEW r, NEW id,
             Start(c, op, pc, u, d, a, t, r, id)
      PROVE  UNCHANGED walletVars
  BY <1>4 DEF Start, walletVars
<1>5. ASSUME NEW c \in Calls, NEW p \in PayoutIds,
             ApprovePayout(c, p) \/ RejectPayout(c, p) \/ CreatePayout(c, p)
      PROVE  UNCHANGED walletVars
  BY <1>5 DEF ApprovePayout, RejectPayout, CreatePayout, Start, walletVars
<1>6. ASSUME NEW c \in Calls,
             MoveRefused(c) \/ UpdatePayoutStatus(c) \/ MarkPaid(c) \/ Abandon(c)
      PROVE  UNCHANGED walletVars
  BY <1>6 DEF MoveRefused, UpdatePayoutStatus, MarkPaid, Abandon, walletVars
<1>7. ASSUME NEW c \in Calls, NEW u \in Users, NEW a \in Amounts,
             \/ TopUp(c, u, a)
             \/ \E d \in Directions : AdjustWallet(c, u, d, a)
             \/ \E t \in ServiceTypes, r \in ServiceRefs :
                  CreditWallet(c, u, a, t, r) \/ DebitWallet(c, u, a, t, r)
             \/ RequestPayout(c, u, a)
      PROVE  UNCHANGED walletVars
  BY <1>7, <1>4 DEF TopUp, AdjustWallet, CreditWallet, DebitWallet, RequestPayout
<1>8. ASSUME NEW d \in PaymentIds,
             \/ \E u \in Users, a \in Amounts : CreatePayment(d, u, a)
             \/ \E c \in Calls : MarkAsPaid(c, d)
      PROVE  UNCHANGED walletVars
  BY <1>8, <1>4 DEF CreatePayment, MarkAsPaid, walletVars
<1>9. UNCHANGED vars => UNCHANGED walletVars
  BY DEF vars, walletVars
<1> QED
  BY <1>1, <1>2, <1>3, <1>5, <1>6, <1>7, <1>8, <1>9 DEF Next
-----------------------------------------------------------------------------
\* Rows of the ledger stay: what was booked remains booked.
LEMMA IsStable ==
  ASSUME WalletTypeOK, NEW u \in Users, NEW d \in Directions, NEW a \in Amounts,
         NEW t \in TxTypes, NEW r \in Refs \cup {NoRef}, Move(u, d, a, t, r),
         NEW v \in Users, NEW i, NEW d2, NEW a2, NEW t2, NEW r2,
         Is(v, i, d2, a2, t2, r2)
  PROVE  Is(v, i, d2, a2, t2, r2)'
BY MoveAppends DEF Is

\* The row a move books, at the place n behind the rows there were.
LEMMA MoveBooks ==
  ASSUME WalletTypeOK, NEW u \in Users, NEW d \in Directions, NEW a \in Amounts,
         NEW t \in TxTypes, NEW r \in Refs \cup {NoRef}, Move(u, d, a, t, r),
         NEW n \in Nat, n = Len(ledger[u]) + 1
  PROVE  n \in 1..Len(ledger'[u]) /\ Is(u, n, d, a, t, r)'
<1>1. n \in 1..Len(ledger'[u]) /\ ledger'[u][n] = Posting(u, d, a, t, r)
  BY MoveAppends
<1> QED
  BY <1>1 DEF Is, Posting

LEMMA ReturnedStable ==
  ASSUME TypeOK, NEW u \in Users, NEW d \in Directions, NEW a \in Amounts,
         NEW t \in TxTypes, NEW r \in Refs \cup {NoRef}, Move(u, d, a, t, r),
         UNCHANGED payouts, NEW p \in PayoutIds, payouts[p] # NoRow, Returned(p)
  PROVE  Returned(p)'
<1>1. payouts[p] \in Payout
  BY DEF TypeOK
<1>2. PICK i \in 1..Len(ledger[payouts[p].user]) :
        Is(payouts[p].user, i, "credit", payouts[p].amount, "payout_reversal", PayoutRef(p))
  BY DEF Returned
<1>3. payouts[p].user \in Users
  BY <1>1 DEF Payout
<1>4. i \in 1..Len(ledger'[payouts[p].user])
  BY <1>2, <1>3, MoveAppends DEF TypeOK
<1>5. Is(payouts[p].user, i, "credit", payouts[p].amount, "payout_reversal", PayoutRef(p))'
  BY <1>2, <1>3, IsStable DEF TypeOK
<1> QED
  BY <1>4, <1>5 DEF Returned

LEMMA CreditedStable ==
  ASSUME TypeOK, NEW u \in Users, NEW d \in Directions, NEW a \in Amounts,
         NEW t \in TxTypes, NEW r \in Refs \cup {NoRef}, Move(u, d, a, t, r),
         UNCHANGED payments, NEW p \in PaymentIds, payments[p] # NoRow, Credited(p)
  PROVE  Credited(p)'
<1>1. payments[p] \in Payment
  BY DEF TypeOK
<1>2. PICK i \in 1..Len(ledger[payments[p].user]) :
        Is(payments[p].user, i, "credit", payments[p].amount, "adjustment", PaymentRef(p))
  BY DEF Credited
<1>3. payments[p].user \in Users
  BY <1>1 DEF Payment
<1>4. i \in 1..Len(ledger'[payments[p].user])
  BY <1>2, <1>3, MoveAppends DEF TypeOK
<1>5. Is(payments[p].user, i, "credit", payments[p].amount, "adjustment", PaymentRef(p))'
  BY <1>2, <1>3, IsStable DEF TypeOK
<1> QED
  BY <1>4, <1>5 DEF Credited

\* What a handler knows survives every move of the ledger.
LEMMA FitsUnderMove ==
  ASSUME TypeOK, NEW u \in Users, NEW d \in Directions, NEW a \in Amounts,
         NEW t \in TxTypes, NEW r \in Refs \cup {NoRef}, Move(u, d, a, t, r),
         UNCHANGED <<payouts, payments>>, NEW k \in Call, CallFits(k)
  PROVE  CallFits(k)'
<1>1. ASSUME Is(k.user, k.transaction, "debit", k.amount, "payout_request", NoRef)
      PROVE  Is(k.user, k.transaction, "debit", k.amount, "payout_request", NoRef)'
  BY <1>1, IsStable DEF TypeOK, Call
<1>2. ASSUME k.id \in PayoutIds, payouts[k.id] # NoRow, Returned(k.id)
      PROVE  Returned(k.id)'
  BY <1>2, ReturnedStable
<1>3. ASSUME k.id \in PaymentIds, payments[k.id] # NoRow, Credited(k.id)
      PROVE  Credited(k.id)'
  BY <1>3, CreditedStable
<1> QED
  BY <1>1, <1>2, <1>3 DEF CallFits
-----------------------------------------------------------------------------
\* What the handlers rely on, apart from the handlers themselves.
TableInv == PayoutsAreFunded /\ ReturnsMatchPayouts /\ PaidMeansCredited

Tables == <<ledger, payouts, payments>>

\* A handler starts at k, which is at most a read past the tables.
Started(c, k) ==
  /\ call[c] = Idle
  /\ call' = [call EXCEPT ![c] = k]
  /\ k.pc = "write" => k.op = "approve"
  /\ UNCHANGED <<opened, balance, frozen, ledger, payouts, payments>>

\* Every way a handler starts is one Started: its first read fits the tables.
LEMMA StartsFit ==
  ASSUME TypeOK, NEW c \in Calls,
         \/ \E u \in Users, a \in Amounts :
              \/ TopUp(c, u, a)
              \/ \E d \in Directions : AdjustWallet(c, u, d, a)
              \/ \E t \in ServiceTypes, r \in ServiceRefs :
                   CreditWallet(c, u, a, t, r) \/ DebitWallet(c, u, a, t, r)
              \/ RequestPayout(c, u, a)
         \/ \E p \in PayoutIds : ApprovePayout(c, p) \/ RejectPayout(c, p)
         \/ \E d \in PaymentIds : MarkAsPaid(c, d)
  PROVE  \E k \in Call : CallFits(k) /\ Started(c, k)
<1> DEFINE K(op, pc, u, d, a, t, r, id) ==
             [op |-> op, pc |-> pc, user |-> u, direction |-> d, amount |-> a,
              type |-> t, ref |-> r, id |-> id, transaction |-> 0]
<1>1. ASSUME NEW u \in Users, NEW a \in Amounts, NEW d \in Directions,
             NEW t \in TxTypes \ {"payout_request", "payout_reversal"},
             NEW r \in Refs \cup {NoRef}, NEW pc \in {"ensure", "move"},
             Start(c, "plain", pc, u, d, a, t, r, NoId)
      PROVE  \E k \in Call : CallFits(k) /\ Started(c, k)
  <2>1. K("plain", pc, u, d, a, t, r, NoId) \in Call
    BY DEF Call
  <2>2. CallFits(K("plain", pc, u, d, a, t, r, NoId))
    BY DEF CallFits
  <2>3. Started(c, K("plain", pc, u, d, a, t, r, NoId))
    BY <1>1 DEF Start, Started
  <2> QED
    BY <2>1, <2>2, <2>3
<1>2. ASSUME NEW u \in Users, NEW a \in Amounts,
             Start(c, "request", "ensure", u, "debit", a, "payout_request", NoRef, NoId)
      PROVE  \E k \in Call : CallFits(k) /\ Started(c, k)
  <2> DEFINE k == K("request", "ensure", u, "debit", a, "payout_request", NoRef, NoId)
  <2>1. k \in Call
    BY DEF Call, Directions, OwnTypes
  <2>2. CallFits(k)
    BY DEF CallFits
  <2>3. Started(c, k)
    BY <1>2 DEF Start, Started
  <2> QED
    BY <2>1, <2>2, <2>3
<1>3. ASSUME NEW p \in PayoutIds, payouts[p].status = "pending",
             NEW op, NEW pc, <<op, pc>> \in {<<"approve", "write">>, <<"reject", "move">>},
             Start(c, op, pc, payouts[p].user, "credit", payouts[p].amount,
                   "payout_reversal", PayoutRef(p), p)
      PROVE  \E k \in Call : CallFits(k) /\ Started(c, k)
  <2> DEFINE k == K(op, pc, payouts[p].user, "credit", payouts[p].amount,
                    "payout_reversal", PayoutRef(p), p)
  <2>1. payouts[p] # NoRow /\ payouts[p] \in Payout
    BY <1>3 DEF TypeOK, NoRow
  <2>2. payouts[p].user \in Users /\ payouts[p].amount \in Amounts
    BY <2>1 DEF Payout
  <2>3. k \in Call
    BY <1>3, <2>2 DEF Call, Directions, OwnTypes
  <2>4. CallFits(k)
    BY <1>3, <2>1 DEF CallFits
  <2>5. Started(c, k)
    BY <1>3 DEF Start, Started
  <2> QED
    BY <2>3, <2>4, <2>5
<1>4. ASSUME NEW d \in PaymentIds, payments[d].status = "pending",
             Start(c, "pay", "ensure", payments[d].user, "credit", payments[d].amount,
                   "adjustment", PaymentRef(d), d)
      PROVE  \E k \in Call : CallFits(k) /\ Started(c, k)
  <2> DEFINE k == K("pay", "ensure", payments[d].user, "credit", payments[d].amount,
                    "adjustment", PaymentRef(d), d)
  <2>1. payments[d] # NoRow /\ payments[d] \in Payment
    BY <1>4 DEF TypeOK, NoRow
  <2>2. payments[d].user \in Users /\ payments[d].amount \in Amounts
    BY <2>1 DEF Payment
  <2>3. k \in Call
    BY <2>2 DEF Call, Directions, OwnTypes
  <2>4. CallFits(k)
    BY <2>1 DEF CallFits
  <2>5. Started(c, k)
    BY <1>4 DEF Start, Started
  <2> QED
    BY <2>3, <2>4, <2>5
<1> HIDE DEF K
<1>5. ASSUME NEW u \in Users, NEW a \in Amounts,
             \/ TopUp(c, u, a)
             \/ \E d \in Directions : AdjustWallet(c, u, d, a)
             \/ \E t \in ServiceTypes, r \in ServiceRefs :
                  CreditWallet(c, u, a, t, r) \/ DebitWallet(c, u, a, t, r)
      PROVE  \E k \in Call : CallFits(k) /\ Started(c, k)
  <2>1. CASE TopUp(c, u, a)
    BY <1>1, <2>1 DEF TopUp, Directions, OwnTypes
  <2>2. CASE \E d \in Directions : AdjustWallet(c, u, d, a)
    BY <1>1, <2>2 DEF AdjustWallet, OwnTypes
  <2>3. CASE \E t \in ServiceTypes, r \in ServiceRefs :
               CreditWallet(c, u, a, t, r) \/ DebitWallet(c, u, a, t, r)
    BY <1>1, <2>3 DEF CreditWallet, DebitWallet, Directions, OwnTypes
  <2> QED
    BY <1>5, <2>1, <2>2, <2>3
<1>6. ASSUME NEW u \in Users, NEW a \in Amounts, RequestPayout(c, u, a)
      PROVE  \E k \in Call : CallFits(k) /\ Started(c, k)
  BY <1>2, <1>6 DEF RequestPayout
<1>7. ASSUME NEW p \in PayoutIds, ApprovePayout(c, p) \/ RejectPayout(c, p)
      PROVE  \E k \in Call : CallFits(k) /\ Started(c, k)
  BY <1>3, <1>7 DEF ApprovePayout, RejectPayout
<1>8. ASSUME NEW d \in PaymentIds, MarkAsPaid(c, d)
      PROVE  \E k \in Call : CallFits(k) /\ Started(c, k)
  BY <1>4, <1>8 DEF MarkAsPaid
<1> QED
  BY <1>5, <1>6, <1>7, <1>8
-----------------------------------------------------------------------------
\* What a handler knows is about the tables alone.
LEMMA FitsIsAboutTables ==
  ASSUME UNCHANGED Tables, NEW k, CallFits(k)
  PROVE  CallFits(k)'
BY DEF Tables, CallFits, Is, Returned, Credited

LEMMA TableInvIsAboutTables ==
  ASSUME UNCHANGED Tables, TableInv
  PROVE  TableInv'
<1>1. PayoutsAreFunded'
  BY DEF TableInv, Tables, PayoutsAreFunded, Is
<1>2. ReturnsMatchPayouts'
  BY DEF TableInv, Tables, ReturnsMatchPayouts, Returned, Is
<1>3. PaidMeansCredited'
  BY DEF TableInv, Tables, PaidMeansCredited, Credited, Is
<1> QED
  BY <1>1, <1>2, <1>3 DEF TableInv

\* A step of one handler keeps CallsMatchRows when what the others know still
\* fits, and what it knows itself fits and shares no debit with them.
LEMMA OneCallStep ==
  ASSUME TypeOK, CallsMatchRows, NEW c \in Calls, NEW m \in Call \cup {Idle},
         call' = [call EXCEPT ![c] = m],
         \A b \in Calls \ {c}, k \in Call : call[b] = k => CallFits(k)',
         \/ m = Idle
         \/ /\ CallFits(m)'
            /\ \A b \in Calls \ {c} :
                 call[b] # Idle => ~SameDebit(call[b], m) /\ ~SameDebit(m, call[b])
  PROVE  CallsMatchRows'
<1>1. call'[c] = m /\ \A b \in Calls \ {c} : call'[b] = call[b]
  BY DEF TypeOK
<1>2. ASSUME NEW b \in Calls, NEW k, k = call'[b], k # Idle PROVE CallFits(k)'
  <2>1. CASE b = c
    BY <1>1, <1>2, <2>1
  <2>2. CASE b # c
    <3>1. call[b] = k /\ k \in Call
      BY <1>1, <1>2, <2>2 DEF TypeOK
    <3> QED
      BY <3>1, <2>2
  <2> QED
    BY <2>1, <2>2
<1>3. ASSUME NEW b \in Calls, NEW d \in Calls, call'[b] # Idle, call'[d] # Idle,
             SameDebit(call'[b], call'[d])
      PROVE  b = d
  <2>1. CASE b # c /\ d # c
    BY <1>1, <1>3, <2>1 DEF CallsMatchRows
  <2>2. CASE b = c \/ d = c
    BY <1>1, <1>3, <2>2
  <2> QED
    BY <2>1, <2>2
<1>4. ASSUME NEW b \in Calls PROVE (call[b] # Idle => CallFits(call[b]))'
  BY <1>2 DEF CallFits, Idle
<1> QED
  BY <1>3, <1>4 DEF CallsMatchRows, SameDebit, Idle

\* A running handler is no idle slot, and its knowledge fits.
LEMMA RunningFits ==
  ASSUME CallsMatchRows, NEW c \in Calls, NEW k \in Call, call[c] = k
  PROVE  k # Idle /\ CallFits(k)
<1>1. k # Idle
  BY DEF Call, Idle
<1> QED
  BY <1>1 DEF CallsMatchRows
-----------------------------------------------------------------------------
\* One lemma for each kind of step: it keeps the relations between the tables
\* and what the handlers know of them.

\* A handler starts: it read the tables and changes none.
LEMMA StartKeeps ==
  ASSUME ServiceInv, NEW c \in Calls, NEW k \in Call, CallFits(k), Started(c, k)
  PROVE  CallsMatchRows' /\ TableInv'
<1>1. UNCHANGED Tables
  BY DEF Started, Tables
<1>2. \A b \in Calls \ {c}, m \in Call : call[b] = m => CallFits(m)'
  BY <1>1, RunningFits, FitsIsAboutTables DEF ServiceInv
<1>3. CallFits(k)'
  BY <1>1, FitsIsAboutTables
<1>4. \A b \in Calls \ {c} :
        call[b] # Idle => ~SameDebit(call[b], k) /\ ~SameDebit(k, call[b])
  BY DEF Started, SameDebit
<1>5. CallsMatchRows'
  BY <1>2, <1>3, <1>4, OneCallStep DEF ServiceInv, Started
<1> QED
  BY <1>1, <1>5, TableInvIsAboutTables DEF ServiceInv, TableInv

\* A handler ends, or stops anywhere: what it leaves behind is consistent.
LEMMA EndKeeps ==
  ASSUME ServiceInv, NEW c \in Calls, Finish(c), UNCHANGED Tables
  PROVE  CallsMatchRows' /\ TableInv'
<1>1. \A b \in Calls \ {c}, m \in Call : call[b] = m => CallFits(m)'
  BY RunningFits, FitsIsAboutTables DEF ServiceInv
<1>2. CallsMatchRows'
  BY <1>1, OneCallStep DEF ServiceInv, Finish
<1> QED
  BY <1>2, TableInvIsAboutTables DEF ServiceInv, TableInv

LEMMA EnsureKeeps ==
  ASSUME ServiceInv, NEW c \in Calls, Ensure(c)
  PROVE  CallsMatchRows' /\ TableInv'
<1>1. UNCHANGED Tables
  BY DEF Ensure, EnsureWallet, Tables
<1>2. CASE Finish(c)
  BY <1>1, <1>2, EndKeeps
<1>3. CASE call' = [call EXCEPT ![c].pc = "move"]
  <2>1. PICK k \in Call : call[c] = k /\ k.pc = "ensure"
    BY DEF Ensure, ServiceInv, TypeOK
  <2> DEFINE m == [k EXCEPT !.pc = "move"]
  <2>2. m \in Call /\ call' = [call EXCEPT ![c] = m]
    BY <1>3, <2>1 DEF Call, ServiceInv, TypeOK
  <2>3. /\ m.pc = "move" /\ m.op = k.op /\ m.user = k.user /\ m.amount = k.amount
        /\ m.direction = k.direction /\ m.type = k.type /\ m.ref = k.ref
        /\ m.id = k.id
    BY <2>1 DEF Call
  <2> HIDE DEF m
  <2>4. CallFits(m)
    <3>1. CallFits(k)
      BY <2>1, RunningFits DEF ServiceInv
    <3> QED
      BY <2>1, <2>3, <3>1 DEF CallFits
  <2>5. CallFits(m)' /\ \A b \in Calls \ {c}, n \in Call : call[b] = n => CallFits(n)'
    BY <1>1, <2>4, RunningFits, FitsIsAboutTables DEF ServiceInv
  <2>6. \A b \in Calls \ {c} :
          call[b] # Idle => ~SameDebit(call[b], m) /\ ~SameDebit(m, call[b])
    BY <2>3 DEF SameDebit
  <2>7. CallsMatchRows'
    BY <2>2, <2>5, <2>6, OneCallStep DEF ServiceInv
  <2> QED
    BY <1>1, <2>7, TableInvIsAboutTables DEF ServiceInv, TableInv
<1> QED
  BY <1>2, <1>3 DEF Ensure

\* What a move leaves true of the tables when it is no reversal, or the
\* reversal of a payout there is.
LEMMA TableInvUnderMove ==
  ASSUME ServiceInv, NEW u \in Users, NEW d \in Directions, NEW a \in Amounts,
         NEW t \in TxTypes, NEW r \in Refs \cup {NoRef}, Move(u, d, a, t, r),
         UNCHANGED <<payouts, payments>>,
         t = "payout_reversal" =>
           \E p \in PayoutIds : /\ payouts[p] # NoRow /\ payouts[p].user = u
                                /\ d = "credit" /\ a = payouts[p].amount
                                /\ r = PayoutRef(p)
  PROVE  TableInv'
<1>1. PayoutsAreFunded'
  <2>1. ASSUME NEW p \in PayoutIds, payouts[p] # NoRow
        PROVE  Is(payouts[p].user, payouts[p].transaction, "debit", payouts[p].amount,
                  "payout_request", NoRef)'
    <3>1. payouts[p] \in Payout
      BY <2>1 DEF ServiceInv, TypeOK
    <3>2. payouts[p].user \in Users
      BY <3>1 DEF Payout
    <3> QED
      BY <2>1, <3>2, IsStable DEF ServiceInv, TypeOK, PayoutsAreFunded
  <2> QED
    BY <2>1 DEF ServiceInv, PayoutsAreFunded
<1>2. ASSUME NEW p \in PayoutIds, payouts[p].status = "rejected"
      PROVE  Returned(p)'
  <2>1. payouts[p] # NoRow
    BY <1>2 DEF NoRow
  <2> QED
    BY <1>2, <2>1, ReturnedStable DEF ServiceInv, ReturnsMatchPayouts
<1>3. ASSUME NEW v \in Users, NEW i \in 1..Len(ledger'[v]),
             ledger'[v][i].type = "payout_reversal"
      PROVE  \E p \in PayoutIds :
               /\ payouts[p] # NoRow
               /\ payouts[p].user = v
               /\ Is(v, i, "credit", payouts[p].amount, "payout_reversal", PayoutRef(p))'
  <2>1. CASE i \in 1..Len(ledger[v]) /\ ledger'[v][i] = ledger[v][i]
    <3>1. PICK p \in PayoutIds :
            /\ payouts[p] # NoRow
            /\ payouts[p].user = v
            /\ Is(v, i, "credit", payouts[p].amount, "payout_reversal", PayoutRef(p))
      BY <1>3, <2>1 DEF ServiceInv, ReturnsMatchPayouts
    <3>2. Is(v, i, "credit", payouts[p].amount, "payout_reversal", PayoutRef(p))'
      BY <3>1, IsStable DEF ServiceInv, TypeOK
    <3> QED
      BY <3>1, <3>2
  <2>2. CASE v = u /\ i = Len(ledger[u]) + 1
    <3>1. i \in Nat
      OBVIOUS
    <3>2. Is(v, i, d, a, t, r)'
      BY <2>2, <3>1, MoveBooks DEF ServiceInv, TypeOK
    <3>3. t = "payout_reversal"
      BY <1>3, <3>2 DEF Is
    <3> QED
      BY <2>2, <3>2, <3>3
  <2> QED
    BY <2>1, <2>2, MoveAppends DEF ServiceInv, TypeOK
<1>4. ReturnsMatchPayouts'
  BY <1>2, <1>3 DEF ReturnsMatchPayouts
<1>5. ASSUME NEW p \in PaymentIds, payments[p].status = "paid"
      PROVE  Credited(p)'
  <2>1. payments[p] # NoRow
    BY <1>5 DEF NoRow
  <2> QED
    BY <1>5, <2>1, CreditedStable DEF ServiceInv, PaidMeansCredited
<1>6. PaidMeansCredited'
  BY <1>5 DEF PaidMeansCredited
<1> QED
  BY <1>1, <1>4, <1>6 DEF TableInv

\* A move commits: its handler ends, or goes on knowing what it booked.
LEMMA MoveFundsKeeps ==
  ASSUME ServiceInv, NEW c \in Calls, MoveFunds(c)
  PROVE  CallsMatchRows' /\ TableInv'
<1>1. PICK k \in Call : call[c] = k /\ k.pc = "move"
  BY DEF MoveFunds, ServiceInv, TypeOK
<1>2. PICK n \in Nat : n = Len(ledger[k.user]) + 1
  BY <1>1 DEF Call, ServiceInv, TypeOK, WalletTypeOK
<1>3. /\ Move(k.user, k.direction, k.amount, k.type, k.ref)
      /\ UNCHANGED <<payouts, payments>>
      /\ k.user \in Users /\ k.direction \in Directions /\ k.amount \in Amounts
      /\ k.type \in TxTypes /\ k.ref \in Refs \cup {NoRef}
  BY <1>1 DEF MoveFunds, Call
<1>4. CallFits(k)
  BY <1>1, RunningFits DEF ServiceInv
<1>5. TableInv'
  <2>1. k.type = "payout_reversal" =>
          \E p \in PayoutIds : /\ payouts[p] # NoRow /\ payouts[p].user = k.user
                               /\ k.direction = "credit" /\ k.amount = payouts[p].amount
                               /\ k.ref = PayoutRef(p)
    BY <1>4 DEF CallFits, Call
  <2> QED
    BY <1>3, <2>1, TableInvUnderMove
<1>6. \A b \in Calls \ {c}, m \in Call : call[b] = m => CallFits(m)'
  BY <1>3, RunningFits, FitsUnderMove DEF ServiceInv
<1>7. CASE Finish(c)
  BY <1>5, <1>6, <1>7, OneCallStep DEF ServiceInv, Finish
<1>8. CASE k.op # "plain" /\ call' = [call EXCEPT ![c].pc = "write", ![c].transaction = n]
  <2> DEFINE m == [k EXCEPT !.pc = "write", !.transaction = n]
  <2>1. m \in Call /\ call' = [call EXCEPT ![c] = m]
    BY <1>1, <1>8 DEF Call, ServiceInv, TypeOK
  <2>2. /\ m.pc = "write" /\ m.op = k.op /\ m.user = k.user /\ m.amount = k.amount
        /\ m.direction = k.direction /\ m.type = k.type /\ m.ref = k.ref
        /\ m.id = k.id /\ m.transaction = n
    BY DEF Call
  <2> HIDE DEF m
  <2>3. n \in 1..Len(ledger'[k.user]) /\ Is(k.user, n, k.direction, k.amount, k.type, k.ref)'
    BY <1>2, <1>3, MoveBooks DEF ServiceInv, TypeOK
  \* No row and no other request points at the transaction n, which is new.
  <2>4. ASSUME NEW p \in PayoutIds, payouts[p] # NoRow, payouts[p].user = k.user
        PROVE  payouts[p].transaction # n
    BY <1>2, <1>3, <2>4 DEF ServiceInv, PayoutsAreFunded, Is
  <2>5. \A b \in Calls \ {c} :
          call[b] # Idle => ~SameDebit(call[b], m) /\ ~SameDebit(m, call[b])
    <3>1. ASSUME NEW b \in Calls \ {c}, NEW l \in Call, call[b] = l
          PROVE  ~SameDebit(l, m) /\ ~SameDebit(m, l)
      <4>1. CASE l.op = "request" /\ l.pc = "write" /\ l.user = k.user
        <5>1. Is(l.user, l.transaction, "debit", l.amount, "payout_request", NoRef)
          BY <3>1, <4>1, RunningFits DEF CallFits, ServiceInv
        <5>2. l.transaction # n
          BY <1>2, <1>3, <4>1, <5>1 DEF Is
        <5> QED
          BY <2>2, <5>2 DEF SameDebit
      <4>2. CASE ~(l.op = "request" /\ l.pc = "write" /\ l.user = k.user)
        BY <2>2, <4>2 DEF SameDebit
      <4> QED
        BY <4>1, <4>2
    <3> QED
      BY <3>1 DEF ServiceInv, TypeOK
  <2>6. CallFits(m)'
    <3>1. k.op = "request" => Is(k.user, n, "debit", k.amount, "payout_request", NoRef)'
      BY <1>4, <2>3 DEF CallFits
    <3>2. k.op = "reject" => Returned(k.id)'
      <4>1. SUFFICES ASSUME k.op = "reject" PROVE Returned(k.id)'
        OBVIOUS
      <4>2. /\ k.id \in PayoutIds /\ payouts'[k.id] = payouts[k.id]
            /\ payouts[k.id].user = k.user /\ payouts[k.id].amount = k.amount
            /\ k.direction = "credit" /\ k.type = "payout_reversal"
            /\ k.ref = PayoutRef(k.id)
        BY <1>3, <1>4, <4>1 DEF CallFits
      <4> QED
        BY <2>3, <4>2 DEF Returned, Is
    <3>3. k.op = "pay" => Credited(k.id)'
      <4>1. SUFFICES ASSUME k.op = "pay" PROVE Credited(k.id)'
        OBVIOUS
      <4>2. /\ k.id \in PaymentIds /\ payments'[k.id] = payments[k.id]
            /\ payments[k.id].user = k.user /\ payments[k.id].amount = k.amount
            /\ k.direction = "credit" /\ k.type = "adjustment"
            /\ k.ref = PaymentRef(k.id)
        BY <1>3, <1>4, <4>1 DEF CallFits
      <4> QED
        BY <2>3, <4>2 DEF Credited, Is
    <3>4. payouts' = payouts /\ payments' = payments
      BY <1>3
    <3> QED
      BY <1>4, <1>8, <2>2, <2>4, <3>1, <3>2, <3>3, <3>4 DEF CallFits
  <2>7. CallsMatchRows'
    BY <1>6, <2>1, <2>5, <2>6, OneCallStep DEF ServiceInv
  <2> QED
    BY <1>5, <2>7
<1> QED
  BY <1>1, <1>2, <1>7, <1>8 DEF MoveFunds

\* A payout row appears: the request that wrote it held the only claim to its
\* debit.
LEMMA CreatePayoutKeeps ==
  ASSUME ServiceInv, NEW c \in Calls, NEW p \in PayoutIds, CreatePayout(c, p)
  PROVE  CallsMatchRows' /\ TableInv'
<1>1. PICK k \in Call : call[c] = k /\ k.op = "request" /\ k.pc = "write"
  BY DEF CreatePayout, ServiceInv, TypeOK
<1> DEFINE row == [status |-> "pending", user |-> k.user, amount |-> k.amount,
                   transaction |-> k.transaction]
<1>2. /\ payouts[p] = NoRow
      /\ payouts'[p] = row
      /\ \A q \in PayoutIds \ {p} : payouts'[q] = payouts[q]
      /\ payments' = payments /\ ledger' = ledger
      /\ Finish(c)
  BY <1>1 DEF CreatePayout, ServiceInv, TypeOK
<1>3. /\ row.status = "pending" /\ row.user = k.user /\ row.amount = k.amount
      /\ row.transaction = k.transaction /\ row # NoRow
  BY DEF NoRow
<1> HIDE DEF row
<1>4. CallFits(k)
  BY <1>1, RunningFits DEF ServiceInv
<1>5. Is(k.user, k.transaction, "debit", k.amount, "payout_request", NoRef)
  BY <1>1, <1>4 DEF CallFits
<1>6. \A q \in PayoutIds : payouts[q] # NoRow /\ payouts[q].user = k.user
                             => payouts[q].transaction # k.transaction
  BY <1>1, <1>4 DEF CallFits
<1>7. ASSUME NEW b \in Calls \ {c}, NEW m \in Call, call[b] = m
      PROVE  CallFits(m)'
  <2>1. CallFits(m) /\ m # Idle
    BY <1>7, RunningFits DEF ServiceInv
  <2>2. m.op = "request" /\ m.pc = "write" /\ m.user = k.user
          => m.transaction # k.transaction
    BY <1>1, <1>7, <2>1 DEF ServiceInv, CallsMatchRows, SameDebit, Idle, Call
  <2>3. m.op \in {"approve", "reject"} => m.id # p
    BY <1>2, <2>1 DEF CallFits
  <2>4. ASSUME m.op = "reject", m.pc = "write" PROVE Returned(m.id)'
    BY <1>2, <2>1, <2>3, <2>4 DEF CallFits, Returned, Is
  <2>5. ASSUME m.op = "pay", m.pc = "write" PROVE Credited(m.id)'
    BY <1>2, <2>1, <2>5 DEF CallFits, Credited, Is
  <2>6. ASSUME NEW u, NEW i, NEW d, NEW a, NEW t, NEW r, Is(u, i, d, a, t, r)
        PROVE  Is(u, i, d, a, t, r)'
    BY <1>2, <2>6 DEF Is
  <2> QED
    BY <1>2, <1>3, <2>1, <2>2, <2>3, <2>4, <2>5, <2>6 DEF CallFits
<1>8. CallsMatchRows'
  BY <1>2, <1>7, OneCallStep DEF ServiceInv, Finish
<1>9. PayoutsAreFunded'
  <2>1. ASSUME NEW q \in PayoutIds, payouts'[q] # NoRow
        PROVE  Is(payouts[q].user, payouts[q].transaction, "debit", payouts[q].amount,
                  "payout_request", NoRef)'
    BY <1>2, <1>3, <1>5, <2>1 DEF ServiceInv, PayoutsAreFunded, Is
  <2>2. ASSUME NEW q \in PayoutIds, NEW s \in PayoutIds,
               payouts'[q] # NoRow, payouts'[s] # NoRow,
               payouts'[q].user = payouts'[s].user,
               payouts'[q].transaction = payouts'[s].transaction
        PROVE  q = s
    BY <1>2, <1>3, <1>6, <2>2 DEF ServiceInv, PayoutsAreFunded
  <2> QED
    BY <2>1, <2>2 DEF PayoutsAreFunded
<1>10. ReturnsMatchPayouts'
  <2>1. ASSUME NEW q \in PayoutIds, payouts'[q].status = "rejected"
        PROVE  Returned(q)'
    BY <1>2, <1>3, <2>1 DEF ServiceInv, ReturnsMatchPayouts, Returned, Is
  <2>2. ASSUME NEW u \in Users, NEW i \in 1..Len(ledger[u]),
               ledger[u][i].type = "payout_reversal"
        PROVE  \E q \in PayoutIds :
                 /\ payouts'[q] # NoRow /\ payouts'[q].user = u
                 /\ Is(u, i, "credit", payouts[q].amount, "payout_reversal", PayoutRef(q))'
    <3>1. PICK q \in PayoutIds :
            /\ payouts[q] # NoRow /\ payouts[q].user = u
            /\ Is(u, i, "credit", payouts[q].amount, "payout_reversal", PayoutRef(q))
      BY <2>2 DEF ServiceInv, ReturnsMatchPayouts
    <3>2. payouts'[q] = payouts[q]
      BY <1>2, <3>1
    <3> QED
      BY <1>2, <3>1, <3>2 DEF Is
  <2> QED
    BY <1>2, <2>1, <2>2 DEF ReturnsMatchPayouts
<1>11. PaidMeansCredited'
  BY <1>2 DEF ServiceInv, PaidMeansCredited, Credited, Is
<1> QED
  BY <1>8, <1>9, <1>10, <1>11 DEF TableInv

\* A review writes its status: "rejected" only after the return.
LEMMA UpdatePayoutStatusKeeps ==
  ASSUME ServiceInv, NEW c \in Calls, UpdatePayoutStatus(c)
  PROVE  CallsMatchRows' /\ TableInv'
<1>1. PICK k \in Call : /\ call[c] = k /\ k.op \in {"approve", "reject"} /\ k.pc = "write"
  BY DEF UpdatePayoutStatus, ServiceInv, TypeOK
<1>2. CallFits(k)
  BY <1>1, RunningFits DEF ServiceInv
<1>3. k.id \in PayoutIds /\ payouts[k.id] \in Payout
  BY <1>1, <1>2 DEF CallFits, ServiceInv, TypeOK
<1>4. PICK st \in {"approved", "rejected"} :
        /\ payouts' = [payouts EXCEPT ![k.id].status = st]
        /\ st = "rejected" => k.op = "reject"
  BY <1>1 DEF UpdatePayoutStatus
<1>5. payments' = payments /\ ledger' = ledger /\ Finish(c)
  BY DEF UpdatePayoutStatus
<1>6. \A q \in PayoutIds :
        /\ payouts[q] # NoRow => /\ payouts'[q] # NoRow
                                 /\ payouts'[q].user = payouts[q].user
                                 /\ payouts'[q].amount = payouts[q].amount
                                 /\ payouts'[q].transaction = payouts[q].transaction
        /\ q # k.id => payouts'[q] = payouts[q]
        /\ payouts[q] = NoRow => payouts'[q] = NoRow
  <2>1. \A q \in PayoutIds : q # k.id => payouts'[q] = payouts[q]
    BY <1>3, <1>4 DEF ServiceInv, TypeOK
  <2>2. payouts'[k.id] = [payouts[k.id] EXCEPT !.status = st]
    BY <1>3, <1>4 DEF ServiceInv, TypeOK
  <2>3. /\ payouts'[k.id].status = st /\ payouts'[k.id].user = payouts[k.id].user
        /\ payouts'[k.id].amount = payouts[k.id].amount
        /\ payouts'[k.id].transaction = payouts[k.id].transaction
    BY <1>3, <2>2 DEF Payout
  <2>4. payouts[k.id] # NoRow /\ payouts'[k.id] # NoRow
    BY <1>3, <2>3 DEF NoRow, Payout
  <2> QED
    BY <2>1, <2>3, <2>4
<1>7. ASSUME NEW u, NEW i, NEW d, NEW a, NEW t, NEW r
      PROVE  Is(u, i, d, a, t, r)' <=> Is(u, i, d, a, t, r)
  BY <1>5 DEF Is
<1>8. ASSUME NEW q \in PayoutIds, payouts[q] # NoRow, Returned(q) PROVE Returned(q)'
  BY <1>5, <1>6, <1>8 DEF Returned, Is
<1>9. ASSUME NEW d \in PaymentIds, Credited(d) PROVE Credited(d)'
  BY <1>5, <1>9 DEF Credited, Is
<1>10. ASSUME NEW b \in Calls \ {c}, NEW m \in Call, call[b] = m
       PROVE  CallFits(m)'
  <2>1. CallFits(m)
    BY <1>10, RunningFits DEF ServiceInv
  <2> QED
    BY <1>5, <1>6, <1>7, <1>8, <1>9, <2>1 DEF CallFits
<1>11. CallsMatchRows'
  BY <1>5, <1>10, OneCallStep DEF ServiceInv, Finish
<1>12. PayoutsAreFunded'
  <2>1. ASSUME NEW q \in PayoutIds, payouts'[q] # NoRow
        PROVE  Is(payouts[q].user, payouts[q].transaction, "debit", payouts[q].amount,
                  "payout_request", NoRef)'
    BY <1>5, <1>6, <2>1 DEF ServiceInv, PayoutsAreFunded, Is
  <2> QED
    BY <1>6, <2>1 DEF ServiceInv, PayoutsAreFunded
<1>13. ReturnsMatchPayouts'
  <2>1. ASSUME NEW q \in PayoutIds, payouts'[q].status = "rejected"
        PROVE  Returned(q)'
    <3>1. CASE q = k.id
      <4>1. st = "rejected"
        BY <1>3, <1>4, <2>1, <3>1 DEF ServiceInv, TypeOK, Payout
      <4> QED
        BY <1>1, <1>2, <1>4, <1>8, <3>1, <4>1 DEF CallFits
    <3>2. CASE q # k.id
      <4>1. payouts[q].status = "rejected" /\ payouts[q] # NoRow
        BY <1>6, <2>1, <3>2 DEF NoRow
      <4> QED
        BY <1>8, <4>1 DEF ServiceInv, ReturnsMatchPayouts
    <3> QED
      BY <3>1, <3>2
  <2>2. ASSUME NEW u \in Users, NEW i \in 1..Len(ledger[u]),
               ledger[u][i].type = "payout_reversal"
        PROVE  \E q \in PayoutIds :
                 /\ payouts'[q] # NoRow /\ payouts'[q].user = u
                 /\ Is(u, i, "credit", payouts[q].amount, "payout_reversal", PayoutRef(q))'
    <3>1. PICK q \in PayoutIds :
            /\ payouts[q] # NoRow /\ payouts[q].user = u
            /\ Is(u, i, "credit", payouts[q].amount, "payout_reversal", PayoutRef(q))
      BY <2>2 DEF ServiceInv, ReturnsMatchPayouts
    <3> QED
      BY <1>5, <1>6, <3>1 DEF Is
  <2> QED
    BY <1>5, <2>1, <2>2 DEF ReturnsMatchPayouts
<1>14. PaidMeansCredited'
  BY <1>5, <1>9 DEF ServiceInv, PaidMeansCredited
<1> QED
  BY <1>11, <1>12, <1>13, <1>14 DEF TableInv

\* A driver payment is entered, or marked paid after its credit.
LEMMA PaymentsKeep ==
  ASSUME ServiceInv, NEW c \in Calls, NEW m0 \in {call[c], Idle},
         payouts' = payouts, ledger' = ledger, call' = [call EXCEPT ![c] = m0],
         \A d \in PaymentIds :
           /\ payments[d] # NoRow => /\ payments'[d] # NoRow
                                     /\ payments'[d].user = payments[d].user
                                     /\ payments'[d].amount = payments[d].amount
           /\ payments'[d].status = "paid" => payments[d] # NoRow /\ Credited(d)
  PROVE  CallsMatchRows' /\ TableInv'
<1>1. ASSUME NEW u, NEW i, NEW d, NEW a, NEW t, NEW r
      PROVE  Is(u, i, d, a, t, r)' <=> Is(u, i, d, a, t, r)
  BY DEF Is
<1>2. ASSUME NEW d \in PaymentIds, payments[d] # NoRow, Credited(d) PROVE Credited(d)'
  BY <1>2 DEF Credited, Is
<1>3. ASSUME NEW p \in PayoutIds, Returned(p) PROVE Returned(p)'
  BY <1>3 DEF Returned, Is
<1>4. ASSUME NEW m \in Call, CallFits(m) PROVE CallFits(m)'
  BY <1>1, <1>2, <1>3, <1>4 DEF CallFits
<1>5. CallsMatchRows'
  <2>1. \A b \in Calls, m \in Call : call[b] = m => CallFits(m)'
    BY <1>4, RunningFits DEF ServiceInv
  <2>2. call[c] # Idle => call[c] \in Call
    BY DEF ServiceInv, TypeOK
  <2>3. PICK m \in Call \cup {Idle} : m = m0
    BY <2>2
  <2>4. \A b \in Calls \ {c} :
          call[b] # Idle /\ m # Idle => ~SameDebit(call[b], m) /\ ~SameDebit(m, call[b])
    BY <2>3 DEF ServiceInv, CallsMatchRows
  <2>5. m # Idle => CallFits(m)'
    BY <2>1, <2>3
  <2> QED
    BY <2>1, <2>3, <2>4, <2>5, OneCallStep DEF ServiceInv
<1>6. PayoutsAreFunded'
  BY <1>1 DEF ServiceInv, PayoutsAreFunded, Is
<1>7. ReturnsMatchPayouts'
  BY <1>3 DEF ServiceInv, ReturnsMatchPayouts, Is
<1>8. PaidMeansCredited'
  BY <1>2 DEF PaidMeansCredited
<1> QED
  BY <1>5, <1>6, <1>7, <1>8 DEF TableInv

LEMMA MarkPaidKeeps ==
  ASSUME ServiceInv, NEW c \in Calls, MarkPaid(c)
  PROVE  CallsMatchRows' /\ TableInv'
<1>1. PICK k \in Call : call[c] = k /\ k.op = "pay" /\ k.pc = "write"
  BY DEF MarkPaid, ServiceInv, TypeOK
<1>2. CallFits(k)
  BY <1>1, RunningFits DEF ServiceInv
<1>3. k.id \in PaymentIds /\ payments[k.id] # NoRow /\ Credited(k.id)
  BY <1>1, <1>2 DEF CallFits
<1>4. payments[k.id] \in Payment
  BY <1>3 DEF ServiceInv, TypeOK
<1>5. /\ payments' = payments \/ payments' = [payments EXCEPT ![k.id].status = "paid"]
      /\ Finish(c)
      /\ payouts' = payouts /\ ledger' = ledger
  BY <1>1 DEF MarkPaid
<1>6. /\ \A d \in PaymentIds \ {k.id} : payments'[d] = payments[d]
      /\ payments'[k.id] \in {payments[k.id], [payments[k.id] EXCEPT !.status = "paid"]}
  BY <1>3, <1>5 DEF ServiceInv, TypeOK
<1>7. /\ payments'[k.id].user = payments[k.id].user
      /\ payments'[k.id].amount = payments[k.id].amount
      /\ payments'[k.id] # NoRow
  BY <1>4, <1>6 DEF Payment, NoRow
<1>8. ASSUME NEW d \in PaymentIds, payments'[d].status = "paid"
      PROVE  payments[d] # NoRow /\ Credited(d)
  <2>1. CASE d = k.id
    BY <1>3, <2>1
  <2>2. CASE d # k.id
    <3>1. payments[d].status = "paid"
      BY <1>6, <1>8, <2>2
    <3> QED
      BY <3>1 DEF ServiceInv, PaidMeansCredited, NoRow
  <2> QED
    BY <2>1, <2>2
<1> QED
  BY <1>5, <1>6, <1>7, <1>8, PaymentsKeep DEF Finish

LEMMA CreatePaymentKeeps ==
  ASSUME ServiceInv, NEW d \in PaymentIds, NEW u \in Users, NEW a \in Amounts,
         CreatePayment(d, u, a)
  PROVE  CallsMatchRows' /\ TableInv'
<1>1. /\ payments[d] = NoRow
      /\ payments'[d] = [status |-> "pending", user |-> u, amount |-> a]
      /\ \A e \in PaymentIds \ {d} : payments'[e] = payments[e]
      /\ UNCHANGED <<payouts, ledger, call>>
  BY DEF CreatePayment, ServiceInv, TypeOK
<1>2. ASSUME NEW e \in PaymentIds, payments'[e].status = "paid"
      PROVE  payments[e] # NoRow /\ Credited(e)
  <2>1. e # d
    BY <1>1, <1>2
  <2>2. payments[e].status = "paid"
    BY <1>1, <1>2, <2>1
  <2> QED
    BY <2>2 DEF ServiceInv, PaidMeansCredited, NoRow
<1>3. CASE Calls # {}
  <2>1. PICK c \in Calls : TRUE
    BY <1>3
  <2>2. PICK m \in {call[c], Idle} : m = call[c]
    OBVIOUS
  <2>3. call' = [call EXCEPT ![c] = m]
    BY <1>1, <2>2 DEF ServiceInv, TypeOK
  <2> QED
    BY <1>1, <1>2, <2>3, PaymentsKeep
<1>4. CASE Calls = {}
  <2>1. CallsMatchRows'
    BY <1>4 DEF CallsMatchRows
  <2>2. PayoutsAreFunded' /\ ReturnsMatchPayouts'
    BY <1>1 DEF ServiceInv, PayoutsAreFunded, ReturnsMatchPayouts, Returned, Is
  <2>3. \A e \in PaymentIds : payments'[e].status = "paid" => e # d
    BY <1>1
  <2>4. PaidMeansCredited'
    BY <1>1, <2>3 DEF ServiceInv, PaidMeansCredited, Credited, Is
  <2> QED
    BY <2>1, <2>2, <2>4 DEF TableInv
<1> QED
  BY <1>3, <1>4
-----------------------------------------------------------------------------
LEMMA ServiceInitInv == Init => ServiceInv
<1> SUFFICES ASSUME Init PROVE ServiceInv
  OBVIOUS
<1>1. TypeOK
  BY WalletInitType DEF Init, TypeOK
<1>2. /\ \A p \in PayoutIds : payouts[p] = NoRow
      /\ \A d \in PaymentIds : payments[d] = NoRow
      /\ \A c \in Calls : call[c] = Idle
      /\ \A u \in Users : ledger[u] = <<>>
  BY DEF Init, WalletInit
<1>3. \A u \in Users : \A i \in 1..Len(ledger[u]) : FALSE
  BY <1>2
<1>4. CallsMatchRows
  BY <1>2 DEF CallsMatchRows
<1>5. PayoutsAreFunded
  BY <1>2 DEF PayoutsAreFunded
<1>6. \A p \in PayoutIds : payouts[p].status # "rejected"
  BY <1>2 DEF NoRow
<1>7. ReturnsMatchPayouts
  BY <1>3, <1>6, Zenon DEF ReturnsMatchPayouts
<1>8. PaidMeansCredited
  BY <1>2 DEF PaidMeansCredited, NoRow
<1> QED
  BY <1>1, <1>4, <1>5, <1>7, <1>8 DEF ServiceInv

\* Types: the tables of the ledger by Wallet, the others step by step.
LEMMA ServiceNextType == ServiceInv /\ [Next]_vars => TypeOK'
<1> SUFFICES ASSUME ServiceInv, [Next]_vars PROVE TypeOK'
  OBVIOUS
<1>1. TypeOK
  BY DEF ServiceInv
<1>2. WalletTypeOK'
  BY <1>1, ServiceImplementsWallet, WalletNextType DEF TypeOK
<1>3. ASSUME UNCHANGED <<payouts, payments, call>> PROVE TypeOK'
  BY <1>1, <1>2, <1>3 DEF TypeOK
<1>4. ASSUME UNCHANGED <<payouts, payments>>, NEW c \in Calls,
             NEW m \in Call \cup {Idle}, call' = [call EXCEPT ![c] = m]
      PROVE  TypeOK'
  BY <1>1, <1>2, <1>4 DEF TypeOK
<1>5. ASSUME UNCHANGED <<payouts, payments>>, NEW c \in Calls, Finish(c)
      PROVE  TypeOK'
  BY <1>4, <1>5 DEF Finish
<1>6. ASSUME NEW c \in Calls,
             \/ \E u \in Users, a \in Amounts :
                  \/ TopUp(c, u, a)
                  \/ \E d \in Directions : AdjustWallet(c, u, d, a)
                  \/ \E t \in ServiceTypes, r \in ServiceRefs :
                       CreditWallet(c, u, a, t, r) \/ DebitWallet(c, u, a, t, r)
                  \/ RequestPayout(c, u, a)
             \/ \E p \in PayoutIds : ApprovePayout(c, p) \/ RejectPayout(c, p)
             \/ \E d \in PaymentIds : MarkAsPaid(c, d)
      PROVE  TypeOK'
  <2>1. PICK k \in Call : Started(c, k)
    BY <1>1, <1>6, StartsFit
  <2> QED
    BY <2>1, <1>4 DEF Started
<1>7. ASSUME NEW c \in Calls, Ensure(c) PROVE TypeOK'
  <2>1. call[c] \in Call
    BY <1>1, <1>7 DEF Ensure, TypeOK
  <2>2. CASE Finish(c)
    BY <1>5, <1>7, <2>2 DEF Ensure
  <2>3. CASE call' = [call EXCEPT ![c].pc = "move"]
    <3>1. [call[c] EXCEPT !.pc = "move"] \in Call
      BY <2>1 DEF Call
    <3>2. call' = [call EXCEPT ![c] = [call[c] EXCEPT !.pc = "move"]]
      BY <2>3
    <3> QED
      BY <1>1, <1>2, <1>7, <3>1, <3>2 DEF Ensure, TypeOK
  <2> QED
    BY <1>7, <2>2, <2>3 DEF Ensure
<1>8. ASSUME NEW c \in Calls, MoveFunds(c) PROVE TypeOK'
  <2>1. call[c] \in Call
    BY <1>1, <1>8 DEF MoveFunds, TypeOK
  <2>2. PICK n \in Nat : n = Len(ledger[call[c].user]) + 1
    BY <1>1, <2>1 DEF Call, TypeOK, WalletTypeOK
  <2>3. CASE Finish(c)
    BY <1>5, <1>8, <2>3 DEF MoveFunds
  <2>4. CASE call' = [call EXCEPT ![c].pc = "write", ![c].transaction = n]
    <3>1. [call[c] EXCEPT !.pc = "write", !.transaction = n] \in Call
      BY <2>1 DEF Call
    <3>2. call' = [call EXCEPT ![c] = [call[c] EXCEPT !.pc = "write", !.transaction = n]]
      BY <1>1, <2>4 DEF TypeOK
    <3> QED
      BY <1>1, <1>2, <1>8, <3>1, <3>2 DEF MoveFunds, TypeOK
  <2> QED
    BY <1>8, <2>2, <2>3, <2>4 DEF MoveFunds
<1>9. ASSUME NEW c \in Calls, NEW p \in PayoutIds, CreatePayout(c, p) PROVE TypeOK'
  <2>1. call[c] \in Call
    BY <1>1, <1>9 DEF CreatePayout, TypeOK
  <2>2. [status |-> "pending", user |-> call[c].user, amount |-> call[c].amount,
         transaction |-> call[c].transaction] \in Payout
    BY <2>1 DEF Call, Payout
  <2>3. payouts' \in [PayoutIds -> Payout \cup {NoRow}]
    BY <1>1, <1>9, <2>2 DEF CreatePayout, TypeOK
  <2> QED
    BY <1>1, <1>2, <1>9, <2>3 DEF CreatePayout, Finish, TypeOK
<1>10. ASSUME NEW c \in Calls, UpdatePayoutStatus(c) PROVE TypeOK'
  <2>1. PICK k \in Call : call[c] = k /\ k.op \in {"approve", "reject"}
    BY <1>1, <1>10 DEF UpdatePayoutStatus, TypeOK
  <2>2. k.id \in PayoutIds /\ payouts[k.id] # NoRow
    BY <2>1, RunningFits DEF ServiceInv, CallFits
  <2>3. payouts[k.id] \in Payout
    BY <1>1, <2>2 DEF TypeOK
  <2>4. PICK st \in {"approved", "rejected"} : payouts' = [payouts EXCEPT ![k.id].status = st]
    BY <1>10, <2>1 DEF UpdatePayoutStatus
  <2>5. [payouts[k.id] EXCEPT !.status = st] \in Payout
    BY <2>3 DEF Payout
  <2>6. payouts' = [payouts EXCEPT ![k.id] = [payouts[k.id] EXCEPT !.status = st]]
    BY <2>4
  <2>7. payouts' \in [PayoutIds -> Payout \cup {NoRow}]
    BY <1>1, <2>5, <2>6 DEF TypeOK
  <2> QED
    BY <1>1, <1>2, <1>10, <2>7 DEF UpdatePayoutStatus, Finish, TypeOK
<1>11. ASSUME NEW c \in Calls, MarkPaid(c) PROVE TypeOK'
  <2>1. PICK k \in Call : call[c] = k /\ k.op = "pay" /\ k.pc = "write"
    BY <1>1, <1>11 DEF MarkPaid, TypeOK
  <2>2. k.id \in PaymentIds /\ payments[k.id] # NoRow
    BY <2>1, RunningFits DEF ServiceInv, CallFits
  <2>3. payments[k.id] \in Payment
    BY <1>1, <2>2 DEF TypeOK
  <2>4. [payments[k.id] EXCEPT !.status = "paid"] \in Payment
    BY <2>3 DEF Payment
  <2>5. \/ payments' = payments
        \/ payments' = [payments EXCEPT ![k.id] = [payments[k.id] EXCEPT !.status = "paid"]]
    BY <1>11, <2>1 DEF MarkPaid
  <2>6. payments' \in [PaymentIds -> Payment \cup {NoRow}]
    BY <1>1, <2>4, <2>5 DEF TypeOK
  <2> QED
    BY <1>1, <1>2, <1>11, <2>6 DEF MarkPaid, Finish, TypeOK
<1>12. ASSUME NEW d \in PaymentIds, NEW u \in Users, NEW a \in Amounts, CreatePayment(d, u, a)
       PROVE  TypeOK'
  <2>1. [status |-> "pending", user |-> u, amount |-> a] \in Payment
    BY DEF Payment
  <2>2. payments' \in [PaymentIds -> Payment \cup {NoRow}]
    BY <1>1, <1>12, <2>1 DEF CreatePayment, TypeOK
  <2> QED
    BY <1>1, <1>2, <1>12, <2>2 DEF CreatePayment, TypeOK
<1>13. ASSUME NEW c \in Calls, MoveRefused(c) \/ Abandon(c) PROVE TypeOK'
  BY <1>5, <1>13 DEF MoveRefused, Abandon
<1>14. ASSUME NEW u \in Users, NEW b \in BOOLEAN, FreezeWallet(u, b) PROVE TypeOK'
  BY <1>3, <1>14 DEF FreezeWallet
<1>15. CASE UNCHANGED vars
  BY <1>3, <1>15 DEF vars
<1> QED
  BY <1>6, <1>7, <1>8, <1>9, <1>10, <1>11, <1>12, <1>13, <1>14, <1>15 DEF Next
-----------------------------------------------------------------------------
\* The inductive step: the tables and the handlers keep telling the same story
\* through every call of every handler.
LEMMA ServiceNextInv == ServiceInv /\ [Next]_vars => ServiceInv'
<1> SUFFICES ASSUME ServiceInv, [Next]_vars PROVE ServiceInv'
  OBVIOUS
<1> DEFINE Kept == CallsMatchRows' /\ TableInv'
<1>1. TypeOK /\ TypeOK'
  BY ServiceNextType DEF ServiceInv
<1>2. ASSUME NEW c \in Calls,
             \/ \E u \in Users, a \in Amounts :
                  \/ TopUp(c, u, a)
                  \/ \E d \in Directions : AdjustWallet(c, u, d, a)
                  \/ \E t \in ServiceTypes, r \in ServiceRefs :
                       CreditWallet(c, u, a, t, r) \/ DebitWallet(c, u, a, t, r)
                  \/ RequestPayout(c, u, a)
             \/ \E p \in PayoutIds : ApprovePayout(c, p) \/ RejectPayout(c, p)
             \/ \E d \in PaymentIds : MarkAsPaid(c, d)
      PROVE  Kept
  BY <1>1, <1>2, StartsFit, StartKeeps
<1>3. ASSUME NEW c \in Calls, MoveRefused(c) \/ Abandon(c) PROVE Kept
  BY <1>3, EndKeeps DEF MoveRefused, Abandon, Tables
<1>4. ASSUME UNCHANGED <<ledger, payouts, payments, call>> PROVE Kept
  <2>1. UNCHANGED Tables
    BY <1>4 DEF Tables
  <2>2. CallsMatchRows'
    BY <1>4 DEF ServiceInv, CallsMatchRows, CallFits, Is, Returned, Credited
  <2> QED
    BY <2>1, <2>2, TableInvIsAboutTables DEF ServiceInv, TableInv
<1>5. ASSUME NEW u \in Users, NEW b \in BOOLEAN, FreezeWallet(u, b) PROVE Kept
  BY <1>4, <1>5 DEF FreezeWallet, SetFrozen
<1>6. ASSUME UNCHANGED vars PROVE Kept
  BY <1>4, <1>6 DEF vars
<1> HIDE DEF Kept
<1>7. ASSUME Next PROVE Kept
  <2>1. ASSUME NEW c \in Calls, NEW p \in PayoutIds, CreatePayout(c, p) PROVE Kept
    BY <2>1, CreatePayoutKeeps DEF Kept
  <2>2. ASSUME NEW d \in PaymentIds, NEW u \in Users, NEW a \in Amounts,
               CreatePayment(d, u, a)
        PROVE  Kept
    BY <2>2, CreatePaymentKeeps DEF Kept
  <2>3. ASSUME NEW c \in Calls, \/ Ensure(c) \/ MoveFunds(c)
                                \/ UpdatePayoutStatus(c) \/ MarkPaid(c)
        PROVE  Kept
    BY <2>3, EnsureKeeps, MoveFundsKeeps, UpdatePayoutStatusKeeps, MarkPaidKeeps DEF Kept
  <2> QED
    BY <1>2, <1>3, <1>5, <1>7, <2>1, <2>2, <2>3 DEF Next
<1> QED
  BY <1>1, <1>6, <1>7 DEF ServiceInv, TableInv, Kept

\* Every running handler may rely on what it read and wrote, and the payouts
\* and payments agree with the ledger, in every state of every execution.
THEOREM HandlersKeepInv == Spec => []ServiceInv
<1> QED
  BY ServiceInitInv, ServiceNextInv, PTL DEF Spec

\* Every payout was paid for by a debit of its own.
THEOREM PayoutsAlwaysFunded == Spec => []PayoutsAreFunded
<1>1. ServiceInv => PayoutsAreFunded
  BY DEF ServiceInv
<1> QED
  BY <1>1, HandlersKeepInv, PTL

\* A rejected payout has returned its money, and every return is of a payout
\* there is, of its amount and to its owner.
THEOREM RejectionsAlwaysReturn == Spec => []ReturnsMatchPayouts
<1>1. ServiceInv => ReturnsMatchPayouts
  BY DEF ServiceInv
<1> QED
  BY <1>1, HandlersKeepInv, PTL

\* A driver payment marked paid has reached the driver's wallet.
THEOREM PaymentsAlwaysCredited == Spec => []PaidMeansCredited
<1>1. ServiceInv => PaidMeansCredited
  BY DEF ServiceInv
<1> QED
  BY <1>1, HandlersKeepInv, PTL

\* What a handler carries between its calls stays true of the tables, however
\* other handlers change them meanwhile.
THEOREM CallsAlwaysMatch == Spec => []CallsMatchRows
<1>1. ServiceInv => CallsMatchRows
  BY DEF ServiceInv
<1> QED
  BY <1>1, HandlersKeepInv, PTL

\* The handlers, interrupted or not, move the ledger only as Wallet does.
LEMMA HandlersKeepToWallet == Spec => WalletSpec
<1>1. Init => WalletInit
  BY DEF Init
<1>2. ServiceInv /\ [Next]_vars => [WalletNext]_walletVars
  BY ServiceImplementsWallet DEF ServiceInv
<1> QED
  BY <1>1, <1>2, HandlersKeepInv, PTL DEF Spec, WalletSpec

\* A return is of one payout, named by its reference, and that payout points at
\* a debit of the same wallet and amount.
LEMMA ReturnsAreFunded ==
  ASSUME ServiceInv, NEW u \in Users, NEW a \in Amounts, NEW i \in Rows(u, "payout_reversal", a)
  PROVE  \E p \in PayoutIds :
           /\ payouts[p] # NoRow /\ payouts[p].user = u
           /\ ledger[u][i].ref = PayoutRef(p)
           /\ payouts[p].transaction \in Rows(u, "payout_request", a)
<1>1. i \in 1..Len(ledger[u]) /\ ledger[u][i].type = "payout_reversal" /\ ledger[u][i].amount = a
  BY DEF Rows
<1>2. PICK p \in PayoutIds :
        /\ payouts[p] # NoRow /\ payouts[p].user = u
        /\ Is(u, i, "credit", payouts[p].amount, "payout_reversal", PayoutRef(p))
  BY <1>1 DEF ServiceInv, ReturnsMatchPayouts
<1>3. payouts[p].amount = a /\ ledger[u][i].ref = PayoutRef(p)
  BY <1>1, <1>2 DEF Is
<1>4. Is(u, payouts[p].transaction, "debit", a, "payout_request", NoRef)
  BY <1>2, <1>3 DEF ServiceInv, PayoutsAreFunded
<1> QED
  BY <1>2, <1>3, <1>4 DEF Is, Rows

\* No more comes back to a wallet than payouts took from it: returns map to
\* debits one to one, because a reference is booked once and no two payouts
\* share a debit.
THEOREM ReturnsStayWithinRequests == Spec => []ReturnsWithinRequests
<1>1. ServiceInv /\ EventRecordedOnce => ReturnsWithinRequests
  <2> SUFFICES ASSUME ServiceInv, EventRecordedOnce, NEW u \in Users, NEW a \in Amounts
               PROVE  Cardinality(Rows(u, "payout_reversal", a))
                        <= Cardinality(Rows(u, "payout_request", a))
    BY DEF ReturnsWithinRequests
  <2> DEFINE R == Rows(u, "payout_reversal", a)
             D == Rows(u, "payout_request", a)
             of(i) == CHOOSE p \in PayoutIds :
                        /\ payouts[p] # NoRow /\ payouts[p].user = u
                        /\ ledger[u][i].ref = PayoutRef(p)
                        /\ payouts[p].transaction \in D
             g == [i \in R |-> payouts[of(i)].transaction]
  <2>1. ASSUME NEW i \in R
        PROVE  /\ of(i) \in PayoutIds /\ payouts[of(i)] # NoRow /\ payouts[of(i)].user = u
               /\ ledger[u][i].ref = PayoutRef(of(i)) /\ payouts[of(i)].transaction \in D
    BY ReturnsAreFunded
  <2>2. IsFiniteSet(D)
    <3>1. Len(ledger[u]) \in Nat
      BY DEF ServiceInv, TypeOK, WalletTypeOK
    <3>2. IsFiniteSet(1..Len(ledger[u])) /\ D \subseteq 1..Len(ledger[u])
      BY <3>1, FS_Interval DEF Rows
    <3> QED
      BY <3>2, FS_Subset
  <2> HIDE DEF of
  <2>3. g \in [R -> D]
    BY <2>1
  <2>4. ASSUME NEW i \in R, NEW j \in R, g[i] = g[j] PROVE i = j
    <3>1. of(i) = of(j)
      BY <2>1, <2>4 DEF ServiceInv, PayoutsAreFunded
    <3>2. ledger[u][i].ref = ledger[u][j].ref /\ ledger[u][i].ref # NoRef
      BY <2>1, <3>1, WalletAssumption
    <3>3. /\ i \in 1..Len(ledger[u]) /\ j \in 1..Len(ledger[u])
          /\ ledger[u][i].type = ledger[u][j].type
      BY DEF Rows
    <3> QED
      BY <3>2, <3>3 DEF EventRecordedOnce
  <2> HIDE DEF g, R, D
  <2>5. g \in Injection(R, D)
    BY <2>3, <2>4, Fun_IsInj
  <2> QED
    BY <2>2, <2>5, FS_Injection DEF R, D
<1> QED
  BY <1>1, HandlersKeepInv, HandlersKeepToWallet, EventsRecordedOnce, PTL
=============================================================================
