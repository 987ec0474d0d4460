--------------------------- MODULE WalletTxProofs ---------------------------
(***************************************************************************)
(* The database transactions of credit() and debit() implement the atomic  *)
(* ledger of Wallet, for any number of sessions, users and requests, so    *)
(* all that WalletProofs shows of the ledger holds of the code's           *)
(* statements.                                                             *)
(***************************************************************************)
EXTENDS WalletTx, WalletProofs

USE SessionAssumption

\* At COMMIT the transaction is one atomic move of the ledger.
LEMMA CommitIsMove ==
  ASSUME TxInv, NEW s \in Sessions, Commit(s)
  PROVE  Move(tx[s].user, tx[s].direction, tx[s].amount, tx[s].type, tx[s].ref)
<1>1. tx[s] \in Running
  BY DEF TxInv, TypeOK, Commit, Idle
<1>2. /\ tx[s].user \in opened
      /\ ~frozen[tx[s].user]
      /\ tx[s].seen = balance[tx[s].user]
      /\ tx[s].amount > 0
      /\ NewBalance(s) \in 0..MaxBalance
      /\ KeyFree(tx[s].type, tx[s].ref)
  BY DEF TxInv, RowOwned, ChecksPassed, Commit
<1> QED
  BY <1>1, <1>2 DEF Commit, Release, Move, CanMove, Posting, NewBalance, Running

\* Every other step leaves the committed rows alone or is one statement of
\* ensureWallet() or setFrozen().
LEMMA StepImplements == TxInv /\ [Next]_vars => [WalletNext]_walletVars
<1> SUFFICES ASSUME TxInv, [Next]_vars PROVE [WalletNext]_walletVars
  OBVIOUS
<1>1. ASSUME NEW s \in Sessions, Commit(s) PROVE WalletNext
  <2>1. tx[s] \in Running
    BY <1>1 DEF TxInv, TypeOK, Commit, Idle
  <2>2. Move(tx[s].user, tx[s].direction, tx[s].amount, tx[s].type, tx[s].ref)
    BY <1>1, CommitIsMove
  <2>3. tx[s].direction \in {"credit", "debit"}
    BY <2>1 DEF Running, Directions
  <2>4. \/ Credit(tx[s].user, tx[s].amount, tx[s].type, tx[s].ref)
        \/ Debit(tx[s].user, tx[s].amount, tx[s].type, tx[s].ref)
    BY <2>2, <2>3 DEF Credit, Debit
  <2> QED
    BY <2>1, <2>4 DEF WalletNext, Running
<1>2. ASSUME NEW u \in Users, EnsureWalletStatement(u) PROVE WalletNext
  BY <1>2 DEF EnsureWalletStatement, WalletNext
<1>3. ASSUME NEW u \in Users, NEW b \in BOOLEAN, SetFrozenStatement(u, b)
      PROVE  WalletNext
  BY <1>3 DEF SetFrozenStatement, WalletNext
<1>4. CASE UNCHANGED walletVars
  BY <1>4
<1>5. UNCHANGED vars => UNCHANGED walletVars
  BY DEF vars, walletVars
<1> QED
  BY <1>1, <1>2, <1>3, <1>4, <1>5
  DEF Next, Progress, Begin, SelectForUpdate, WalletNotFound, UpdateBalance,
      InsertTransaction, Rollback, ConnectionLost, walletVars
-----------------------------------------------------------------------------
LEMMA TxInitInv == Init => TxInv
<1> SUFFICES ASSUME Init PROVE TxInv
  OBVIOUS
<1>1. TypeOK
  BY WalletInitType DEF Init, TypeOK
<1> QED
  BY <1>1 DEF Init, TxInv, RowOwned, LockHeld, ChecksPassed, InsertsDiffer, Idle

\* Ending a transaction, whether by COMMIT or not, leaves the others as they
\* were and frees exactly the ender's row.
LEMMA ReleaseFacts ==
  ASSUME TypeOK, NEW s \in Sessions, Release(s)
  PROVE  /\ tx'[s] = Idle
         /\ \A r \in Sessions : r # s => tx'[r] = tx[r]
         /\ \A u \in Users : lock'[u] = IF lock[u] = s THEN Nobody ELSE lock[u]
         /\ lock' \in [Users -> Sessions \cup {Nobody}]
         /\ tx' \in [Sessions -> Running \cup {Idle}]
         /\ requests' \in 0..MaxRequests
BY DEF Release, TypeOK

\* A transaction that ends without COMMIT keeps the invariant.
LEMMA AbandonKeepsInv ==
  ASSUME TxInv, NEW s \in Sessions, Release(s), UNCHANGED walletVars
  PROVE  TxInv'
<1> USE DEF walletVars
<1>1. TypeOK'
  BY ReleaseFacts DEF TxInv, TypeOK, WalletTypeOK
<1>2. RowOwned'
  BY ReleaseFacts DEF TxInv, TypeOK, RowOwned, Idle, Running
<1>3. LockHeld'
  BY ReleaseFacts DEF TxInv, TypeOK, LockHeld
<1>4. ChecksPassed'
  BY ReleaseFacts DEF TxInv, TypeOK, ChecksPassed, Idle, NewBalance, KeyFree, Recorded
<1>5. InsertsDiffer'
  BY ReleaseFacts DEF TxInv, InsertsDiffer, Idle
<1> QED
  BY <1>1, <1>2, <1>3, <1>4, <1>5 DEF TxInv

LEMMA BeginKeepsInv ==
  ASSUME TxInv, NEW s \in Sessions, NEW u \in Users, NEW d \in Directions,
         NEW a \in Amounts, NEW t \in TxTypes, NEW r \in Refs \cup {NoRef},
         Begin(s, u, d, a, t, r)
  PROVE  TxInv'
<1> DEFINE b == [pc |-> "begun", user |-> u, direction |-> d, amount |-> a,
                 type |-> t, ref |-> r, seen |-> 0, seenFrozen |-> FALSE]
<1>1. b \in Running /\ b.pc = "begun"
  BY WalletAssumption DEF Running
<1>2. tx'[s] = b /\ \A q \in Sessions : q # s => tx'[q] = tx[q]
  BY DEF Begin, TxInv, TypeOK
<1>3. tx' \in [Sessions -> Running \cup {Idle}] /\ requests' \in 0..MaxRequests
  BY <1>1 DEF Begin, TxInv, TypeOK
<1> HIDE DEF b
<1>4. \A q \in Sessions : tx'[q].pc \in {"locked", "updated", "inserted"}
                            => tx'[q] = tx[q] /\ q # s
  BY <1>1, <1>2
<1>5. UNCHANGED <<opened, balance, frozen, ledger, lock>> /\ tx[s] = Idle
  BY DEF Begin
<1>6. TypeOK'
  BY <1>3, <1>5 DEF TxInv, TypeOK, WalletTypeOK
<1>7. RowOwned'
  BY <1>4, <1>5 DEF TxInv, RowOwned
<1>8. LockHeld'
  BY <1>2, <1>5 DEF TxInv, TypeOK, LockHeld, Idle
<1>9. ChecksPassed'
  BY <1>4, <1>5 DEF TxInv, ChecksPassed, NewBalance, KeyFree, Recorded
<1>10. InsertsDiffer'
  BY <1>4 DEF TxInv, InsertsDiffer
<1> QED
  BY <1>6, <1>7, <1>8, <1>9, <1>10 DEF TxInv

LEMMA SelectKeepsInv ==
  ASSUME TxInv, NEW s \in Sessions, SelectForUpdate(s)
  PROVE  TxInv'
<1> DEFINE u == tx[s].user
<1>1. tx[s] \in Running
  BY DEF TxInv, TypeOK, SelectForUpdate, Idle
<1>2. \A q \in Sessions : q # s => tx'[q] = tx[q]
  BY DEF SelectForUpdate, TxInv, TypeOK
<1>2a. tx'[s] = [tx[s] EXCEPT !.pc = "locked", !.seen = balance[u],
                             !.seenFrozen = frozen[u]]
  BY DEF SelectForUpdate, TxInv, TypeOK
<1>3. /\ tx'[s].pc = "locked" /\ tx'[s].user = u
      /\ tx'[s].seen = balance[u] /\ tx'[s].seenFrozen = frozen[u]
      /\ tx'[s] \in Running
  BY <1>1, <1>2a DEF Running, TxInv, TypeOK, WalletTypeOK
<1>4. /\ lock[u] = Nobody /\ lock' = [lock EXCEPT ![u] = s] /\ u \in opened
      /\ UNCHANGED <<opened, balance, frozen, ledger, requests>>
      /\ DOMAIN tx' = Sessions /\ u \in Users /\ tx[s].pc = "begun"
  BY <1>1 DEF SelectForUpdate, Running, TxInv, TypeOK
<1> HIDE DEF u
<1>5. TypeOK'
  <2>1. tx' \in [Sessions -> Running \cup {Idle}]
    BY <1>3 DEF SelectForUpdate, TxInv, TypeOK
  <2> QED
    BY <1>4, <2>1 DEF TxInv, TypeOK, WalletTypeOK
<1>6. RowOwned'
  BY <1>2, <1>3, <1>4 DEF TxInv, TypeOK, RowOwned
<1>7. LockHeld'
  BY <1>2, <1>3, <1>4 DEF TxInv, TypeOK, LockHeld
<1>8. ChecksPassed'
  BY <1>2, <1>3, <1>4 DEF TxInv, ChecksPassed, NewBalance, KeyFree, Recorded
<1>9. InsertsDiffer'
  BY <1>2, <1>3 DEF TxInv, InsertsDiffer
<1> QED
  BY <1>5, <1>6, <1>7, <1>8, <1>9 DEF TxInv

\* UPDATE and INSERT only advance the session: what they establish is what
\* ChecksPassed and InsertsDiffer say of their successor statements.
LEMMA StatementKeepsInv ==
  ASSUME TxInv, NEW s \in Sessions, UpdateBalance(s) \/ InsertTransaction(s)
  PROVE  TxInv'
<1>1. tx[s] \in Running
  BY DEF TxInv, TypeOK, UpdateBalance, InsertTransaction, Idle
<1>2. PICK p \in {"updated", "inserted"} :
        /\ tx' = [tx EXCEPT ![s].pc = p]
        /\ p = "updated" => UpdateBalance(s)
        /\ p = "inserted" => InsertTransaction(s)
  BY DEF UpdateBalance, InsertTransaction
<1>3. \A q \in Sessions : q # s => tx'[q] = tx[q]
  BY <1>2 DEF TxInv, TypeOK
<1>3a. tx'[s] = [tx[s] EXCEPT !.pc = p]
  BY <1>2 DEF TxInv, TypeOK
<1>4. /\ tx'[s].pc = p /\ tx'[s].user = tx[s].user /\ tx'[s].seen = tx[s].seen
      /\ tx'[s].seenFrozen = tx[s].seenFrozen /\ tx'[s].ref = tx[s].ref
      /\ tx'[s].type = tx[s].type /\ tx'[s].amount = tx[s].amount
      /\ tx'[s].direction = tx[s].direction /\ tx'[s] \in Running
  BY <1>1, <1>3a DEF Running
<1>5. /\ tx[s].pc \in {"locked", "updated"} /\ ~Throws(s)
      /\ p = "updated" => tx[s].pc = "locked"
      /\ p = "inserted" => tx[s].pc = "updated" /\ ~KeyInFlight(s)
      /\ UNCHANGED <<opened, balance, frozen, ledger, lock, requests>>
  BY <1>2 DEF UpdateBalance, InsertTransaction
<1>6. TypeOK'
  <2>1. tx' \in [Sessions -> Running \cup {Idle}]
    BY <1>2, <1>4 DEF TxInv, TypeOK
  <2> QED
    BY <1>5, <2>1 DEF TxInv, TypeOK, WalletTypeOK
<1>7. RowOwned'
  BY <1>3, <1>4, <1>5 DEF TxInv, RowOwned
<1>8. LockHeld'
  BY <1>3, <1>4, <1>5 DEF TxInv, TypeOK, LockHeld
<1>9. ChecksPassed'
  <2>1. ASSUME NEW q \in Sessions PROVE NewBalance(q)' = NewBalance(q)
    BY <1>3, <1>4 DEF NewBalance
  <2>2. ASSUME NEW t \in TxTypes, NEW r \in Refs \cup {NoRef}
        PROVE  KeyFree(t, r)' = KeyFree(t, r)
    BY <1>5 DEF KeyFree, Recorded
  <2>3. ~tx[s].seenFrozen /\ NewBalance(s) \in 0..MaxBalance
    BY <1>5 DEF TxInv, ChecksPassed, Throws
  <2>4. p = "inserted" => tx[s].amount > 0 /\ KeyFree(tx[s].type, tx[s].ref)
    <3>1. tx[s].amount \in Nat
      BY <1>1, WalletAssumption DEF Running
    <3> QED
      BY <1>5, <3>1 DEF Throws
  <2>5. ASSUME NEW q \in Sessions, q # s
        PROVE  /\ tx'[q].pc \in {"updated", "inserted"} =>
                    ~tx'[q].seenFrozen /\ NewBalance(q)' \in 0..MaxBalance
               /\ tx'[q].pc = "inserted" =>
                    tx'[q].amount > 0 /\ KeyFree(tx[q].type, tx[q].ref)'
    BY <1>3, <1>5, <2>1, <2>5 DEF TxInv, ChecksPassed, KeyFree, Recorded
  <2>6. KeyFree(tx[s].type, tx[s].ref)' = KeyFree(tx[s].type, tx[s].ref)
    BY <1>4, <1>5 DEF KeyFree, Recorded
  <2> QED
    BY <1>3, <1>4, <2>1, <2>3, <2>4, <2>5, <2>6 DEF ChecksPassed
<1>10. InsertsDiffer'
  BY <1>3, <1>4, <1>5 DEF TxInv, InsertsDiffer, KeyInFlight
<1> QED
  BY <1>6, <1>7, <1>8, <1>9, <1>10 DEF TxInv

\* COMMIT publishes the row the session owns: nobody else had read it for
\* update, and nobody else was inserting its key.
LEMMA CommitKeepsInv ==
  ASSUME TxInv, NEW s \in Sessions, Commit(s)
  PROVE  TxInv'
<1> DEFINE u == tx[s].user
           t == tx[s].type
           r == tx[s].ref
<1>1. tx[s] \in Running /\ tx[s].pc = "inserted"
  BY DEF TxInv, TypeOK, Commit, Idle
<1>2. u \in Users /\ lock[u] = s /\ t \in TxTypes /\ r \in Refs \cup {NoRef}
  BY <1>1 DEF Running, TxInv, RowOwned
<1>3. Move(u, tx[s].direction, tx[s].amount, t, r)
  BY CommitIsMove
<1>4. /\ tx'[s] = Idle
      /\ \A q \in Sessions : q # s => tx'[q] = tx[q]
      /\ \A v \in Users : lock'[v] = IF lock[v] = s THEN Nobody ELSE lock[v]
  BY ReleaseFacts DEF Commit, TxInv
<1>5. UNCHANGED <<opened, frozen>>
  BY DEF Commit
<1>6. \A v \in Users : v # u => balance'[v] = balance[v] /\ ledger'[v] = ledger[v]
  BY <1>3 DEF Move, TxInv, TypeOK, WalletTypeOK
<1>7. TypeOK'
  <2>1. WalletTypeOK'
    BY <1>1, <1>3, MoveType DEF TxInv, TypeOK, Running
  <2> QED
    BY <2>1, ReleaseFacts DEF Commit, TxInv, TypeOK
\* Only the key of s is new in the ledger.
<1>8. ASSUME NEW q \in Sessions, q # s, tx[q].pc = "inserted"
      PROVE  KeyFree(tx[q].type, tx[q].ref)'
  <2>1. KeyFree(tx[q].type, tx[q].ref)
    BY <1>8 DEF TxInv, ChecksPassed
  <2>2. ASSUME tx[q].ref # NoRef PROVE ~(tx[q].type = t /\ tx[q].ref = r)
    BY <1>1, <1>8, <2>2 DEF TxInv, InsertsDiffer
  <2>3. ASSUME NEW v \in Users, tx[q].ref # NoRef,
               NEW i \in 1..Len(ledger'[v])
        PROVE  ~(ledger'[v][i].type = tx[q].type /\ ledger'[v][i].ref = tx[q].ref)
    <3> DEFINE e == Posting(u, tx[s].direction, tx[s].amount, t, r)
    <3>1. ledger[v] \in Seq(Entry) /\ ledger[u] \in Seq(Entry)
      BY <1>2 DEF TxInv, TypeOK, WalletTypeOK
    <3>2. e.type = t /\ e.ref = r
      BY DEF Posting
    <3>3. ledger'[u] = Append(ledger[u], e)
      BY <1>2, <1>3 DEF Move, TxInv, TypeOK, WalletTypeOK
    <3> HIDE DEF e, u, t, r
    <3>4. \/ i \in 1..Len(ledger[v]) /\ ledger'[v][i] = ledger[v][i]
          \/ ledger'[v][i] = e
      BY <1>6, <2>3, <3>1, <3>3
    <3>5. \A j \in 1..Len(ledger[v]) :
            ~(ledger[v][j].type = tx[q].type /\ ledger[v][j].ref = tx[q].ref)
      BY <2>1, <2>3 DEF KeyFree, Recorded
    <3> QED
      BY <2>2, <2>3, <3>2, <3>4, <3>5
  <2>4. tx[q].ref # NoRef => \A v \in Users : ~Recorded(v, tx[q].type, tx[q].ref)'
    BY <2>3, <1>4, <1>8 DEF Recorded
  <2> QED
    BY <2>4, <1>4, <1>8 DEF KeyFree
<1>9. \A q \in Sessions : tx'[q].pc \in {"locked", "updated", "inserted"}
                            => q # s /\ tx'[q] = tx[q]
  BY <1>4 DEF Idle
<1>10. RowOwned'
  <2>1. ASSUME NEW q \in Sessions, tx'[q].pc \in {"locked", "updated", "inserted"}
        PROVE  /\ tx'[q].user \in opened'
               /\ lock'[tx'[q].user] = q
               /\ tx'[q].seen = balance'[tx'[q].user]
               /\ tx'[q].seenFrozen = frozen'[tx'[q].user]
    <3>1. q # s /\ tx'[q] = tx[q]
      BY <1>9, <2>1
    <3>2. lock[tx[q].user] = q /\ tx[q].user \in Users
      BY <2>1, <3>1 DEF TxInv, RowOwned, TypeOK, Running, Idle
    <3>3. tx[q].user # u
      BY <1>2, <3>1, <3>2
    <3> QED
      BY <1>4, <1>5, <1>6, <2>1, <3>1, <3>2, <3>3 DEF TxInv, RowOwned
  <2> QED
    BY <2>1 DEF RowOwned
<1>11. LockHeld'
  BY <1>4 DEF TxInv, TypeOK, LockHeld
<1>12. ChecksPassed'
  <2>1. ASSUME NEW q \in Sessions, q # s PROVE NewBalance(q)' = NewBalance(q)
    BY <1>4, <2>1 DEF NewBalance
  <2>2. ASSUME NEW q \in Sessions, tx'[q].pc \in {"updated", "inserted"}
        PROVE  /\ ~tx'[q].seenFrozen /\ NewBalance(q)' \in 0..MaxBalance
               /\ tx'[q].pc = "inserted" => tx'[q].amount > 0 /\ KeyFree(tx[q].type, tx[q].ref)'
    <3>1. q # s /\ tx'[q] = tx[q]
      BY <1>9, <2>2
    <3> QED
      BY <1>8, <2>1, <2>2, <3>1 DEF TxInv, ChecksPassed
  <2>3. \A q \in Sessions : tx'[q].pc \in {"updated", "inserted"} => tx'[q] = tx[q]
    BY <1>9
  <2> QED
    BY <2>2, <2>3 DEF ChecksPassed, KeyFree, Recorded
<1>13. InsertsDiffer'
  BY <1>9 DEF TxInv, InsertsDiffer
<1> QED
  BY <1>7, <1>10, <1>11, <1>12, <1>13 DEF TxInv

\* The single statements touch a row nobody holds.
LEMMA WalletStatementKeepsInv ==
  ASSUME TxInv, NEW u \in Users,
         \/ EnsureWalletStatement(u)
         \/ \E b \in BOOLEAN : SetFrozenStatement(u, b)
  PROVE  TxInv'
<1>1. /\ lock[u] = Nobody /\ UNCHANGED <<balance, ledger, lock, tx, requests>>
      /\ opened \subseteq opened' /\ opened' \subseteq Users
      /\ frozen' \in [Users -> BOOLEAN]
      /\ \A v \in Users : v # u => frozen'[v] = frozen[v]
  BY DEF EnsureWalletStatement, SetFrozenStatement, EnsureWallet, SetFrozen, txVars,
         TxInv, TypeOK, WalletTypeOK
<1>2. TypeOK'
  BY <1>1 DEF TxInv, TypeOK, WalletTypeOK
<1>3. RowOwned'
  BY <1>1 DEF TxInv, TypeOK, RowOwned, Running, Idle
<1>4. LockHeld' /\ InsertsDiffer'
  BY <1>1 DEF TxInv, LockHeld, InsertsDiffer
<1>5. ChecksPassed'
  BY <1>1 DEF TxInv, ChecksPassed, NewBalance, KeyFree, Recorded
<1> QED
  BY <1>2, <1>3, <1>4, <1>5 DEF TxInv

LEMMA TxInvStep == TxInv /\ [Next]_vars => TxInv'
<1> SUFFICES ASSUME TxInv, [Next]_vars PROVE TxInv'
  OBVIOUS
<1>1. ASSUME NEW s \in Sessions, Progress(s) \/ ConnectionLost(s) PROVE TxInv'
  BY <1>1, AbandonKeepsInv, StatementKeepsInv, CommitKeepsInv
  DEF Progress, WalletNotFound, Rollback, ConnectionLost
<1>2. CASE UNCHANGED vars
  BY <1>2 DEF vars, TxInv, TypeOK, WalletTypeOK, RowOwned, LockHeld, ChecksPassed,
              InsertsDiffer, NewBalance, KeyFree, Recorded
<1> QED
  BY <1>1, <1>2, BeginKeepsInv, SelectKeepsInv, WalletStatementKeepsInv DEF Next
-----------------------------------------------------------------------------
\* The statements keep their invariant: what a transaction read under the row
\* lock is still true at COMMIT, and no row stays locked by an ended one.
THEOREM TransactionsKeepInv == Spec => []TxInv
<1>1. Init => TxInv
  BY TxInitInv
<1>2. TxInv /\ [Next]_vars => TxInv'
  BY TxInvStep
<1> QED
  BY <1>1, <1>2, PTL DEF Spec

\* Refinement: credit() and debit() as written implement the atomic ledger.
THEOREM TransactionsImplementLedger == Spec => WalletSpec
<1>1. Init => WalletInit
  BY DEF Init
<1>2. TxInv /\ [Next]_vars => [WalletNext]_walletVars
  BY StepImplements
<1> QED
  BY <1>1, <1>2, TransactionsKeepInv, PTL DEF Spec, WalletSpec

\* What the ledger guarantees holds of the code's statements.
THEOREM StatementsExplainBalance == Spec => []LedgerExplainsBalance
BY TransactionsImplementLedger, LedgerAlwaysExplains, PTL

\* Two sessions that book the same event cannot both commit it.
THEOREM StatementsRecordOnce == Spec => []EventRecordedOnce
BY TransactionsImplementLedger, EventsRecordedOnce, PTL

\* No transaction that began before a freeze moves the balance during it.
THEOREM StatementsRespectFreeze == Spec => FrozenStandsStill
BY TransactionsImplementLedger, FrozenWalletsStandStill, PTL
=============================================================================
