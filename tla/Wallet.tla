------------------------------- MODULE Wallet -------------------------------
(***************************************************************************)
(* The ledger of the wallet service as its callers see it: the tables      *)
(* wallet.wallets and wallet.transactions, and the four operations of      *)
(* models/Wallet.ts that change them, each one atomic.                     *)
(*                                                                         *)
(* WalletTx models the database transactions credit() and debit() are made *)
(* of, statement by statement, and is shown to implement this module.      *)
(* WalletService and Orders are built on the operations below.             *)
(*                                                                         *)
(* Amounts are in hundredths: they are what Number(amount.toFixed(2))      *)
(* leaves, so an input that rounds to nothing is the amount 0.             *)
(***************************************************************************)
EXTENDS Integers, Sequences

CONSTANTS
  Users,        \* owners of wallets (user_id)
  Amounts,      \* amounts a caller may ask for, in hundredths
  TxTypes,      \* the enumeration wallet.transaction_type
  Refs,         \* the pairs (reference_type, reference_id) callers use
  NoRef,        \* both columns NULL
  MaxBalance    \* largest value NUMERIC(12,2) holds

ASSUME WalletAssumption ==
  /\ Amounts \subseteq Nat
  /\ NoRef \notin Refs
  /\ MaxBalance \in Nat

VARIABLES
  opened,       \* users that have a row in wallet.wallets
  balance,      \* wallets.balance
  frozen,       \* wallets.is_frozen
  ledger        \* the rows of wallet.transactions of each wallet, in order

walletVars == <<opened, balance, frozen, ledger>>

Directions == {"credit", "debit"}

\* A row of wallet.transactions.
Entry == [type : TxTypes, direction : Directions, amount : Nat,
          before : Nat, after : Nat, ref : Refs \cup {NoRef}]

WalletTypeOK ==
  /\ opened \subseteq Users
  /\ balance \in [Users -> 0..MaxBalance]
  /\ frozen \in [Users -> BOOLEAN]
  /\ ledger \in [Users -> Seq(Entry)]

WalletInit ==
  /\ opened = {}
  /\ balance = [u \in Users |-> 0]
  /\ frozen = [u \in Users |-> FALSE]
  /\ ledger = [u \in Users |-> <<>>]

-----------------------------------------------------------------------------
\* u's ledger holds an entry of type t for the event r.
Recorded(u, t, r) ==
  \E i \in 1..Len(ledger[u]) : ledger[u][i].type = t /\ ledger[u][i].ref = r

\* The partial unique index on (reference_type, reference_id, type): it spans
\* all wallets and ignores the rows without a reference.
KeyFree(t, r) == r # NoRef => \A u \in Users : ~Recorded(u, t, r)

Signed(d, a) == IF d = "credit" THEN a ELSE -a

\* What a balance change needs: the wallet's row, the checks of the code and
\* the constraints of the schema (amount > 0, 0 <= balance < 10^10, the index).
CanMove(u, d, a, t, r) ==
  /\ u \in opened
  /\ ~frozen[u]
  /\ a > 0
  /\ balance[u] + Signed(d, a) \in 0..MaxBalance
  /\ KeyFree(t, r)

Posting(u, d, a, t, r) ==
  [type |-> t, direction |-> d, amount |-> a, before |-> balance[u],
   after |-> balance[u] + Signed(d, a), ref |-> r]

\* Change the balance and record the change, in one database transaction.
Move(u, d, a, t, r) ==
  /\ CanMove(u, d, a, t, r)
  /\ balance' = [balance EXCEPT ![u] = @ + Signed(d, a)]
  /\ ledger' = [ledger EXCEPT ![u] = Append(@, Posting(u, d, a, t, r))]
  /\ UNCHANGED <<opened, frozen>>

CanCredit(u, a, t, r) == CanMove(u, "credit", a, t, r)
Credit(u, a, t, r) == Move(u, "credit", a, t, r)

CanDebit(u, a, t, r) == CanMove(u, "debit", a, t, r)
Debit(u, a, t, r) == Move(u, "debit", a, t, r)

\* INSERT ... ON CONFLICT (user_id) DO UPDATE: an existing wallet is kept.
EnsureWallet(u) ==
  /\ opened' = opened \cup {u}
  /\ UNCHANGED <<balance, frozen, ledger>>

SetFrozen(u, b) ==
  /\ u \in opened
  /\ frozen' = [frozen EXCEPT ![u] = b]
  /\ UNCHANGED <<opened, balance, ledger>>

-----------------------------------------------------------------------------
WalletNext ==
  \E u \in Users :
    \/ EnsureWallet(u)
    \/ \E b \in BOOLEAN : SetFrozen(u, b)
    \/ \E a \in Amounts, t \in TxTypes, r \in Refs \cup {NoRef} :
         Credit(u, a, t, r) \/ Debit(u, a, t, r)

WalletSpec == WalletInit /\ [][WalletNext]_walletVars

-----------------------------------------------------------------------------
\* The ledger explains the balance of every wallet: the entries chain, each
\* one starting from the balance its predecessor left (0 for the first) and
\* moving it by its amount, and the last one leaves the balance stored in
\* wallets.balance (20260417000022_wallet_schema.sql:45, "every balance change
\* recorded here").
LedgerExplainsBalance ==
  \A u \in Users :
    LET L == ledger[u] IN
      /\ \A i \in 1..Len(L) :
           /\ L[i].after = L[i].before + Signed(L[i].direction, L[i].amount)
           /\ L[i].before = IF i = 1 THEN 0 ELSE L[i - 1].after
      /\ balance[u] = IF L = <<>> THEN 0 ELSE L[Len(L)].after

\* One event moves money once: no two entries, of the same wallet or of two,
\* carry the same reference and type (20260417000022_wallet_schema.sql:61,
\* "same event cannot be processed twice").
EventRecordedOnce ==
  \A u, v \in Users :
    \A i \in 1..Len(ledger[u]), j \in 1..Len(ledger[v]) :
      /\ ledger[u][i].ref # NoRef
      /\ ledger[u][i].ref = ledger[v][j].ref
      /\ ledger[u][i].type = ledger[v][j].type
      => u = v /\ i = j

\* A frozen wallet's balance does not move and nothing is recorded against it
\* in any step taken while it is frozen (Wallet.ts:92 and 141).
FrozenStandsStill ==
  [][\A u \in Users :
       frozen[u] => balance'[u] = balance[u] /\ ledger'[u] = ledger[u]]_walletVars
=============================================================================
