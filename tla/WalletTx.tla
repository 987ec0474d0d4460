------------------------------ MODULE WalletTx ------------------------------
(***************************************************************************)
(* credit() and debit() of models/Wallet.ts, one statement per step:       *)
(*   BEGIN; SELECT ... FOR UPDATE; UPDATE wallets; INSERT transactions;    *)
(*   COMMIT, with a ROLLBACK when a statement or a check throws.           *)
(* Sessions run them concurrently on the same tables, next to the single   *)
(* statements ensureWallet() and setFrozen().  The variables of Wallet are *)
(* the committed rows; what a transaction has written and not committed is *)
(* in its session, which is what READ COMMITTED shows the others.          *)
(*                                                                         *)
(* The database is modelled from how the code uses it: row locks are held  *)
(* until the end of the transaction, an insertion that meets the key of an *)
(* uncommitted one waits for it, and losing the connection rolls back.     *)
(***************************************************************************)
EXTENDS Wallet

CONSTANTS
  Sessions,     \* connections of the pool
  Nobody,       \* "no session"
  MaxRequests   \* bound on the transactions begun

ASSUME SessionAssumption == Nobody \notin Sessions /\ MaxRequests \in Nat

VARIABLES
  lock,         \* which session holds the lock of a user's wallet row
  tx,           \* the transaction of each session
  requests      \* transactions begun so far

txVars == <<lock, tx, requests>>
vars == <<opened, balance, frozen, ledger, lock, tx, requests>>

\* A running credit() or debit(): its arguments, the statement it is at, and
\* what its SELECT returned.
Idle == [pc |-> "idle"]

Running ==
  [pc : {"begun", "locked", "updated", "inserted"},
   user : Users, direction : Directions, amount : Amounts,
   type : TxTypes, ref : Refs \cup {NoRef},
   seen : 0..MaxBalance, seenFrozen : BOOLEAN]

TypeOK ==
  /\ WalletTypeOK
  /\ lock \in [Users -> Sessions \cup {Nobody}]
  /\ tx \in [Sessions -> Running \cup {Idle}]
  /\ requests \in 0..MaxRequests

Init ==
  /\ WalletInit
  /\ lock = [u \in Users |-> Nobody]
  /\ tx = [s \in Sessions |-> Idle]
  /\ requests = 0

-----------------------------------------------------------------------------
\* The balance s computes from the row it read.
NewBalance(s) == tx[s].seen + Signed(tx[s].direction, tx[s].amount)

\* Another session has inserted the same key and not committed yet.
KeyInFlight(s) ==
  /\ tx[s].ref # NoRef
  /\ \E r \in Sessions \ {s} :
       tx[r].pc = "inserted" /\ tx[r].type = tx[s].type /\ tx[r].ref = tx[s].ref

\* Fault: the check for a frozen wallet is missing.
ThrowsIfShort(s) ==
  \/ tx[s].pc = "locked" /\ NewBalance(s) \notin 0..MaxBalance
  \/ /\ tx[s].pc = "updated"
     /\ tx[s].amount = 0 \/ ~KeyFree(tx[s].type, tx[s].ref)

\* What makes credit() or debit() throw after the SELECT: a frozen wallet, a
\* balance that is too low or a sum the column cannot hold, then an amount of
\* 0 or a key some committed row has.
Throws(s) ==
  \/ /\ tx[s].pc = "locked"
     /\ tx[s].seenFrozen \/ NewBalance(s) \notin 0..MaxBalance
  \/ /\ tx[s].pc = "updated"
     /\ tx[s].amount = 0 \/ ~KeyFree(tx[s].type, tx[s].ref)

\* The session ends its transaction and the database drops the row lock.
Release(s) ==
  /\ tx' = [tx EXCEPT ![s] = Idle]
  /\ lock' = [u \in Users |-> IF lock[u] = s THEN Nobody ELSE lock[u]]
  /\ UNCHANGED requests

Begin(s, u, d, a, t, r) ==
  /\ tx[s] = Idle
  /\ requests < MaxRequests
  /\ requests' = requests + 1
  /\ tx' = [tx EXCEPT ![s] = [pc |-> "begun", user |-> u, direction |-> d,
                              amount |-> a, type |-> t, ref |-> r,
                              seen |-> 0, seenFrozen |-> FALSE]]
  /\ UNCHANGED <<opened, balance, frozen, ledger, lock>>

\* Fault: the SELECT lacks FOR UPDATE.
SelectUnlocked(s) ==
  LET u == tx[s].user IN
    /\ tx[s].pc = "begun"
    /\ u \in opened
    /\ tx' = [tx EXCEPT ![s].pc = "locked", ![s].seen = balance[u],
                        ![s].seenFrozen = frozen[u]]
    /\ UNCHANGED <<opened, balance, frozen, ledger, lock, requests>>

SelectForUpdate(s) ==
  LET u == tx[s].user IN
    /\ tx[s].pc = "begun"
    /\ u \in opened
    /\ lock[u] = Nobody
    /\ lock' = [lock EXCEPT ![u] = s]
    /\ tx' = [tx EXCEPT ![s].pc = "locked", ![s].seen = balance[u],
                        ![s].seenFrozen = frozen[u]]
    /\ UNCHANGED <<opened, balance, frozen, ledger, requests>>

\* "Wallet not found": the SELECT returned no row and locked none.
WalletNotFound(s) ==
  /\ tx[s].pc = "begun"
  /\ tx[s].user \notin opened
  /\ Release(s)
  /\ UNCHANGED walletVars

UpdateBalance(s) ==
  /\ tx[s].pc = "locked"
  /\ ~Throws(s)
  /\ tx' = [tx EXCEPT ![s].pc = "updated"]
  /\ UNCHANGED <<opened, balance, frozen, ledger, lock, requests>>

\* Fault: the key is looked up before the INSERT and no index enforces it.
InsertUnindexed(s) ==
  /\ tx[s].pc = "updated"
  /\ ~Throws(s)
  /\ tx' = [tx EXCEPT ![s].pc = "inserted"]
  /\ UNCHANGED <<opened, balance, frozen, ledger, lock, requests>>

InsertTransaction(s) ==
  /\ tx[s].pc = "updated"
  /\ ~Throws(s)
  /\ ~KeyInFlight(s)
  /\ tx' = [tx EXCEPT ![s].pc = "inserted"]
  /\ UNCHANGED <<opened, balance, frozen, ledger, lock, requests>>

Commit(s) ==
  LET u == tx[s].user IN
    /\ tx[s].pc = "inserted"
    /\ balance' = [balance EXCEPT ![u] = NewBalance(s)]
    /\ ledger' = [ledger EXCEPT ![u] = Append(@,
          [type |-> tx[s].type, direction |-> tx[s].direction,
           amount |-> tx[s].amount, before |-> tx[s].seen,
           after |-> NewBalance(s), ref |-> tx[s].ref])]
    /\ Release(s)
    /\ UNCHANGED <<opened, frozen>>

\* Fault: the statements run outside a transaction, so an INSERT that throws
\* leaves the UPDATE done.
ThrowAfterUpdate(s) ==
  /\ Throws(s)
  /\ balance' = IF tx[s].pc = "updated"
                  THEN [balance EXCEPT ![tx[s].user] = NewBalance(s)] ELSE balance
  /\ Release(s)
  /\ UNCHANGED <<opened, frozen, ledger>>

\* Fault: the catch block gives the connection back without ROLLBACK.
ThrowWithoutRollback(s) ==
  /\ Throws(s)
  /\ tx' = [tx EXCEPT ![s] = Idle]
  /\ UNCHANGED <<opened, balance, frozen, ledger, lock, requests>>

\* The catch block: ROLLBACK, then the error goes to the caller.
Rollback(s) ==
  /\ Throws(s)
  /\ Release(s)
  /\ UNCHANGED walletVars

\* The process or the connection dies before COMMIT.
ConnectionLost(s) ==
  /\ tx[s] # Idle
  /\ Release(s)
  /\ UNCHANGED walletVars

\* ensureWallet() and setFrozen() write the row: they wait for its lock.
EnsureWalletStatement(u) ==
  /\ lock[u] = Nobody
  /\ EnsureWallet(u)
  /\ UNCHANGED txVars

SetFrozenStatement(u, b) ==
  /\ lock[u] = Nobody
  /\ SetFrozen(u, b)
  /\ UNCHANGED txVars

-----------------------------------------------------------------------------
Progress(s) ==
  \/ WalletNotFound(s)
  \/ UpdateBalance(s)
  \/ InsertTransaction(s)
  \/ Commit(s)
  \/ Rollback(s)

Next ==
  \/ \E s \in Sessions :
       \/ \E u \in Users, d \in Directions, a \in Amounts, t \in TxTypes,
             r \in Refs \cup {NoRef} : Begin(s, u, d, a, t, r)
       \/ SelectForUpdate(s)
       \/ Progress(s)
       \/ ConnectionLost(s)
  \/ \E u \in Users :
       \/ EnsureWalletStatement(u)
       \/ \E b \in BOOLEAN : SetFrozenStatement(u, b)

Spec == Init /\ [][Next]_vars

\* A session that can take its next statement takes it; the lock queue of the
\* database is fair, so a session that waits for a row gets it.
FairSpec ==
  /\ Spec
  /\ \A s \in Sessions : WF_vars(Progress(s)) /\ SF_vars(SelectForUpdate(s))

-----------------------------------------------------------------------------
\* Past its SELECT ... FOR UPDATE a session owns the row it read, and what it
\* read is still what is committed, whatever the other sessions, freezes and
\* openings in between.
RowOwned ==
  \A s \in Sessions : tx[s].pc \in {"locked", "updated", "inserted"} =>
    /\ tx[s].user \in opened
    /\ lock[tx[s].user] = s
    /\ tx[s].seen = balance[tx[s].user]
    /\ tx[s].seenFrozen = frozen[tx[s].user]

\* Only such a session owns a row, and only its own: no failure leaks a lock.
LockHeld ==
  \A u \in Users : lock[u] # Nobody =>
    /\ tx[lock[u]].pc \in {"locked", "updated", "inserted"}
    /\ tx[lock[u]].user = u

\* What the checks of the code and of the schema established still holds when
\* the later statements rely on it.
ChecksPassed ==
  \A s \in Sessions :
    /\ tx[s].pc \in {"updated", "inserted"} =>
         ~tx[s].seenFrozen /\ NewBalance(s) \in 0..MaxBalance
    /\ tx[s].pc = "inserted" =>
         tx[s].amount > 0 /\ KeyFree(tx[s].type, tx[s].ref)

\* No two uncommitted insertions carry the key of one event.
InsertsDiffer ==
  \A s, r \in Sessions :
    /\ tx[s].pc = "inserted" /\ tx[r].pc = "inserted"
    /\ tx[s].ref # NoRef
    /\ tx[s].ref = tx[r].ref /\ tx[s].type = tx[r].type
    => s = r

\* The inductive invariant of the statements of credit() and debit()
\* (Wallet.ts:81-181): at COMMIT the transaction still describes the row it
\* read, although it read it three round trips earlier.
TxInv == TypeOK /\ RowOwned /\ LockHeld /\ ChecksPassed /\ InsertsDiffer

\* Every credit() and debit() that begins ends: no two transactions wait for
\* each other's row or key, and no failure keeps a row locked (the ROLLBACK of
\* the catch blocks, Wallet.ts:122 and 175).
EveryTransactionEnds == \A s \in Sessions : tx[s] # Idle ~> tx[s] = Idle
=============================================================================
