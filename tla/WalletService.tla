---------------------------- MODULE WalletService ---------------------------
(***************************************************************************)
(* The handlers of the wallet service: top-ups, adjustments, the internal  *)
(* debit and credit endpoints, payout requests and their review, driver    *)
(* payments and freezing.  A handler is a sequence of awaited database     *)
(* calls; several handlers run at a time, and any of them may stop between *)
(* two of its calls, because a statement throws or the process dies.       *)
(*                                                                         *)
(* The ledger operations are those of Wallet, each atomic (see WalletTx).  *)
(***************************************************************************)
EXTENDS Wallet, FiniteSets

CONSTANTS
  Calls,        \* slots for concurrently running handlers
  PayoutIds, PaymentIds,
  NoId,         \* the call is about no row
  ServiceTypes, \* transaction types the order and delivery services use
  ServiceRefs,  \* and the references they send
  MaxPostings   \* bound on the ledger a new movement is started on

\* Rows of wallet.payouts and wallet.driver_payments as references.
PayoutRef(p) == <<"payout", p>>
PaymentRef(d) == <<"driver_payment", d>>

OwnTypes == {"topup", "adjustment", "payout_request", "payout_reversal"}

ASSUME ServiceAssumption ==
  /\ OwnTypes \subseteq TxTypes
  /\ ServiceTypes \subseteq TxTypes \ OwnTypes
  /\ ServiceRefs \subseteq Refs
  /\ \A p \in PayoutIds : PayoutRef(p) \in Refs
  /\ \A d \in PaymentIds : PaymentRef(d) \in Refs
  /\ NoId \notin PayoutIds \cup PaymentIds
  /\ MaxPostings \in Nat

VARIABLES
  payouts,      \* wallet.payouts
  payments,     \* wallet.driver_payments
  call          \* the running handlers

vars == <<opened, balance, frozen, ledger, payouts, payments, call>>

NoRow == [status |-> "none"]
Idle == [op |-> "none"]

\* transaction_id points at the debit a payout was created for.
Payout == [status : {"pending", "approved", "rejected"},
           user : Users, amount : Amounts, transaction : Nat]
Payment == [status : {"pending", "paid"}, user : Users, amount : Amounts]

\* A running handler: the database call it is about to make and the values it
\* has read or computed for it.
Call == [op : {"plain", "request", "approve", "reject", "pay"},
         pc : {"ensure", "move", "write"},
         user : Users, direction : Directions, amount : Amounts,
         type : TxTypes, ref : Refs \cup {NoRef},
         id : PayoutIds \cup PaymentIds \cup {NoId}, transaction : Nat]

TypeOK ==
  /\ WalletTypeOK
  /\ payouts \in [PayoutIds -> Payout \cup {NoRow}]
  /\ payments \in [PaymentIds -> Payment \cup {NoRow}]
  /\ call \in [Calls -> Call \cup {Idle}]

Init ==
  /\ WalletInit
  /\ payouts = [p \in PayoutIds |-> NoRow]
  /\ payments = [d \in PaymentIds |-> NoRow]
  /\ call = [c \in Calls |-> Idle]

-----------------------------------------------------------------------------
\* A handler starts in a free slot and runs up to its first state change.
Start(c, op, pc, u, d, a, t, r, id) ==
  /\ call[c] = Idle
  /\ call' = [call EXCEPT ![c] =
       [op |-> op, pc |-> pc, user |-> u, direction |-> d, amount |-> a,
        type |-> t, ref |-> r, id |-> id, transaction |-> 0]]
  /\ UNCHANGED <<opened, balance, frozen, ledger, payouts, payments>>

MayMove(u) == Len(ledger[u]) < MaxPostings

\* POST /wallet/topup
TopUp(c, u, a) ==
  /\ MayMove(u)
  /\ Start(c, "plain", "ensure", u, "credit", a, "topup", NoRef, NoId)

\* POST /admin/wallets/:userId/adjust; add-funds is its credit.
AdjustWallet(c, u, d, a) ==
  /\ MayMove(u)
  /\ Start(c, "plain", "ensure", u, d, a, "adjustment", NoRef, NoId)

\* POST /internal/credit opens the wallet, POST /internal/debit does not.
CreditWallet(c, u, a, t, r) ==
  /\ MayMove(u)
  /\ Start(c, "plain", "ensure", u, "credit", a, t, r, NoId)

DebitWallet(c, u, a, t, r) ==
  /\ MayMove(u)
  /\ Start(c, "plain", "move", u, "debit", a, t, r, NoId)

\* Fault: the payout is written before the debit is tried.
RequestUnpaidPayout(c, u, a) ==
  /\ MayMove(u)
  /\ Start(c, "request", "write", u, "debit", a, "payout_request", NoRef, NoId)

\* POST /wallet/payout
RequestPayout(c, u, a) ==
  /\ MayMove(u)
  /\ Start(c, "request", "ensure", u, "debit", a, "payout_request", NoRef, NoId)

\* Fault: the rejection writes its status before it returns the money.
RejectBeforeReturn(c, p) ==
  /\ payouts[p].status = "pending"
  /\ Start(c, "reject", "write", payouts[p].user, "credit", payouts[p].amount,
           "payout_reversal", PayoutRef(p), p)

\* Fault: the money is returned without the payout's reference.
RejectWithoutKey(c, p) ==
  /\ payouts[p].status = "pending"
  /\ Start(c, "reject", "move", payouts[p].user, "credit", payouts[p].amount,
           "payout_reversal", NoRef, p)

\* The two reviews read the payout and check that it is pending.
ApprovePayout(c, p) ==
  /\ payouts[p].status = "pending"
  /\ Start(c, "approve", "write", payouts[p].user, "credit", payouts[p].amount,
           "payout_reversal", PayoutRef(p), p)

RejectPayout(c, p) ==
  /\ payouts[p].status = "pending"
  /\ Start(c, "reject", "move", payouts[p].user, "credit", payouts[p].amount,
           "payout_reversal", PayoutRef(p), p)

\* POST /admin/driver-payments: one INSERT (amount > 0).
CreatePayment(d, u, a) ==
  /\ payments[d] = NoRow
  /\ a > 0
  /\ payments' = [payments EXCEPT ![d] = [status |-> "pending", user |-> u, amount |-> a]]
  /\ UNCHANGED <<opened, balance, frozen, ledger, payouts, call>>

\* Fault: the payment is marked before the driver is credited.
MarkBeforeCredit(c, d) ==
  /\ payments[d].status = "pending"
  /\ Start(c, "pay", "write", payments[d].user, "credit", payments[d].amount,
           "adjustment", PaymentRef(d), d)

\* POST /admin/driver-payments/:id/pay reads the payment: it must not be paid.
MarkAsPaid(c, d) ==
  /\ payments[d].status = "pending"
  /\ Start(c, "pay", "ensure", payments[d].user, "credit", payments[d].amount,
           "adjustment", PaymentRef(d), d)

\* PATCH /admin/wallets/:userId/freeze: one UPDATE.
FreezeWallet(u, b) ==
  /\ SetFrozen(u, b)
  /\ UNCHANGED <<payouts, payments, call>>

-----------------------------------------------------------------------------
Finish(c) == call' = [call EXCEPT ![c] = Idle]

\* ensureWallet(); a payout request reads the balance it returns and answers
\* 400 when that is too low.
Ensure(c) ==
  LET k == call[c] IN
    /\ k # Idle /\ k.pc = "ensure"
    /\ EnsureWallet(k.user)
    /\ IF k.op = "request" /\ balance[k.user] < k.amount
         THEN Finish(c)
         ELSE call' = [call EXCEPT ![c].pc = "move"]
    /\ UNCHANGED <<payouts, payments>>

\* Wallet.credit() or Wallet.debit() commits.  The plain handlers end here; a
\* payout request keeps the id of its transaction.
MoveFunds(c) ==
  LET k == call[c] IN
    /\ k # Idle /\ k.pc = "move"
    /\ Move(k.user, k.direction, k.amount, k.type, k.ref)
    /\ IF k.op = "plain"
         THEN Finish(c)
         ELSE call' = [call EXCEPT ![c].pc = "write",
                                   ![c].transaction = Len(ledger[k.user]) + 1]
    /\ UNCHANGED <<payouts, payments>>

\* Fault: the error of the wallet is swallowed and the handler goes on.
MoveRefusalIgnored(c) ==
  LET k == call[c] IN
    /\ k # Idle /\ k.pc = "move"
    /\ ~CanMove(k.user, k.direction, k.amount, k.type, k.ref)
    /\ call' = [call EXCEPT ![c].pc = "write"]
    /\ UNCHANGED <<opened, balance, frozen, ledger, payouts, payments>>

\* Wallet.credit() or Wallet.debit() throws: the handler answers 400 or 500.
MoveRefused(c) ==
  LET k == call[c] IN
    /\ k # Idle /\ k.pc = "move"
    /\ ~CanMove(k.user, k.direction, k.amount, k.type, k.ref)
    /\ Finish(c)
    /\ UNCHANGED <<opened, balance, frozen, ledger, payouts, payments>>

\* Payout.create(): INSERT INTO wallet.payouts.
CreatePayout(c, p) ==
  LET k == call[c] IN
    /\ k # Idle /\ k.pc = "write" /\ k.op = "request"
    /\ payouts[p] = NoRow
    /\ payouts' = [payouts EXCEPT ![p] =
         [status |-> "pending", user |-> k.user, amount |-> k.amount,
          transaction |-> k.transaction]]
    /\ Finish(c)
    /\ UNCHANGED <<opened, balance, frozen, ledger, payments>>

\* Payout.updateStatus(): UPDATE ... WHERE id = $4, whatever the status is now.
UpdatePayoutStatus(c) ==
  LET k == call[c] IN
    /\ k # Idle /\ k.pc = "write" /\ k.op \in {"approve", "reject"}
    /\ payouts' = [payouts EXCEPT ![k.id].status =
                     IF k.op = "approve" THEN "approved" ELSE "rejected"]
    /\ Finish(c)
    /\ UNCHANGED <<opened, balance, frozen, ledger, payments>>

\* DriverPayment.markPaid(): UPDATE ... WHERE id = $2 AND status = 'pending'.
MarkPaid(c) ==
  LET k == call[c] IN
    /\ k # Idle /\ k.pc = "write" /\ k.op = "pay"
    /\ payments' = IF payments[k.id].status = "pending"
                    THEN [payments EXCEPT ![k.id].status = "paid"] ELSE payments
    /\ Finish(c)
    /\ UNCHANGED <<opened, balance, frozen, ledger, payouts>>

\* The next call throws for a reason of its own, or the process dies.
Abandon(c) ==
  /\ call[c] # Idle
  /\ Finish(c)
  /\ UNCHANGED <<opened, balance, frozen, ledger, payouts, payments>>

Next ==
  \/ \E c \in Calls, u \in Users, a \in Amounts :
       \/ TopUp(c, u, a)
       \/ \E d \in Directions : AdjustWallet(c, u, d, a)
       \/ \E t \in ServiceTypes, r \in ServiceRefs :
            CreditWallet(c, u, a, t, r) \/ DebitWallet(c, u, a, t, r)
       \/ RequestPayout(c, u, a)
  \/ \E c \in Calls, p \in PayoutIds :
       ApprovePayout(c, p) \/ RejectPayout(c, p) \/ CreatePayout(c, p)
  \/ \E d \in PaymentIds, u \in Users, a \in Amounts : CreatePayment(d, u, a)
  \/ \E c \in Calls, d \in PaymentIds : MarkAsPaid(c, d)
  \/ \E u \in Users, b \in BOOLEAN : FreezeWallet(u, b)
  \/ \E c \in Calls :
       \/ Ensure(c) \/ MoveFunds(c) \/ MoveRefused(c)
       \/ UpdatePayoutStatus(c) \/ MarkPaid(c) \/ Abandon(c)

Spec == Init /\ [][Next]_vars
-----------------------------------------------------------------------------
\* The i-th row of u's ledger is a move of the given kind.
Is(u, i, d, a, t, r) ==
  /\ i \in 1..Len(ledger[u])
  /\ ledger[u][i].direction = d /\ ledger[u][i].amount = a
  /\ ledger[u][i].type = t /\ ledger[u][i].ref = r

\* The rejection of p has returned its amount to its owner.
Returned(p) ==
  \E i \in 1..Len(ledger[payouts[p].user]) :
    Is(payouts[p].user, i, "credit", payouts[p].amount, "payout_reversal", PayoutRef(p))

\* The driver of d has received its amount.
Credited(d) ==
  \E i \in 1..Len(ledger[payments[d].user]) :
    Is(payments[d].user, i, "credit", payments[d].amount, "adjustment", PaymentRef(d))

\* Every payout was paid for, once: it points at a debit of its amount in its
\* owner's ledger, and no other payout points at the same debit, although the
\* debit and the row are written by two separate calls (walletController.ts:
\* 127, "Debit wallet immediately and create payout record").
PayoutsAreFunded ==
  /\ \A p \in PayoutIds : payouts[p] # NoRow =>
       Is(payouts[p].user, payouts[p].transaction, "debit", payouts[p].amount,
          "payout_request", NoRef)
  /\ \A p, q \in PayoutIds :
       /\ payouts[p] # NoRow /\ payouts[q] # NoRow
       /\ payouts[p].user = payouts[q].user
       /\ payouts[p].transaction = payouts[q].transaction
       => p = q

\* A payout that says "rejected" has returned its amount to its owner
\* (adminController.ts:227, "funds returned to wallet"), and what comes back is
\* the amount of a payout there is, to its owner; the payout may still say
\* "pending", or "approved" by a review that read it before.
ReturnsMatchPayouts ==
  /\ \A p \in PayoutIds : payouts[p].status = "rejected" => Returned(p)
  /\ \A u \in Users : \A i \in 1..Len(ledger[u]) :
       ledger[u][i].type = "payout_reversal" =>
         \E p \in PayoutIds :
           /\ payouts[p] # NoRow
           /\ payouts[p].user = u
           /\ Is(u, i, "credit", payouts[p].amount, "payout_reversal", PayoutRef(p))

\* The rows of u's ledger of type t and amount a.
Rows(u, t, a) ==
  {i \in 1..Len(ledger[u]) : ledger[u][i].type = t /\ ledger[u][i].amount = a}

\* Of what payouts took from a wallet no more comes back than was taken,
\* although a rejection may stop between the return and its status and be
\* repeated, and two may overlap (adminController.ts:206-233): each payout has
\* a debit of its own and comes back once.
ReturnsWithinRequests ==
  \A u \in Users, a \in Amounts :
    Cardinality(Rows(u, "payout_reversal", a)) <= Cardinality(Rows(u, "payout_request", a))

\* A driver payment that says "paid" has reached the driver's wallet
\* (driverPaymentController.ts:49, "credits driver's wallet").
PaidMeansCredited ==
  \A d \in PaymentIds : payments[d].status = "paid" => Credited(d)

\* What a running handler carries from its earlier calls to its next one is
\* still true of the tables: a request its own, unused debit; a review the
\* owner and amount of its payout and, before it writes "rejected", the return;
\* a marking its payment and, before it writes "paid", the credit.
CallFits(k) ==
  /\ k.op = "plain" => k.type \notin {"payout_request", "payout_reversal"}
  /\ k.op = "request" =>
       /\ k.direction = "debit" /\ k.type = "payout_request" /\ k.ref = NoRef
       /\ k.pc = "write" =>
            /\ Is(k.user, k.transaction, "debit", k.amount, "payout_request", NoRef)
            /\ \A p \in PayoutIds : payouts[p] # NoRow /\ payouts[p].user = k.user
                 => payouts[p].transaction # k.transaction
  /\ k.op \in {"approve", "reject"} =>
       /\ k.id \in PayoutIds /\ payouts[k.id] # NoRow
       /\ k.user = payouts[k.id].user /\ k.amount = payouts[k.id].amount
       /\ k.direction = "credit" /\ k.type = "payout_reversal"
       /\ k.ref = PayoutRef(k.id)
  /\ k.op = "reject" /\ k.pc = "write" => Returned(k.id)
  /\ k.op = "pay" =>
       /\ k.id \in PaymentIds /\ payments[k.id] # NoRow
       /\ k.user = payments[k.id].user /\ k.amount = payments[k.id].amount
       /\ k.direction = "credit" /\ k.type = "adjustment"
       /\ k.ref = PaymentRef(k.id)
       /\ k.pc = "write" => Credited(k.id)

\* Two requests about to create their payout hold different debits.
SameDebit(k, m) ==
  /\ k.op = "request" /\ k.pc = "write"
  /\ m.op = "request" /\ m.pc = "write"
  /\ k.user = m.user /\ k.transaction = m.transaction

\* Every handler may rely on what it read and did in its earlier calls
\* (walletController.ts:98-160, adminController.ts:176-233,
\* driverPaymentController.ts:50-88), although others ran in between.
CallsMatchRows ==
  /\ \A c \in Calls : call[c] # Idle => CallFits(call[c])
  /\ \A b, c \in Calls :
       call[b] # Idle /\ call[c] # Idle /\ SameDebit(call[b], call[c]) => b = c

\* The inductive invariant of the handlers.
ServiceInv ==
  /\ TypeOK
  /\ CallsMatchRows
  /\ PayoutsAreFunded
  /\ ReturnsMatchPayouts
  /\ PaidMeansCredited

\* A payout is reviewed once: what an admin decided is not decided again
\* (adminController.ts:185 and 209, "Payout already ...").
ReviewedOnce ==
  [][\A p \in PayoutIds :
       payouts[p].status \in {"approved", "rejected"} => payouts'[p] = payouts[p]]_vars
=============================================================================
