---------------------------- MODULE WalletProofs ----------------------------
(***************************************************************************)
(* What the ledger of Wallet guarantees, for every set of users, amounts,  *)
(* types and references and every capacity of the balance column.          *)
(***************************************************************************)
EXTENDS Wallet, TLAPS

\* The arithmetic of a balance change: a move that CanMove allows is one of
\* the two directions, and its posting is a well-formed row.
LEMMA PostingIsEntry ==
  ASSUME WalletTypeOK, NEW u \in Users, NEW d \in Directions, NEW a \in Amounts,
         NEW t \in TxTypes, NEW r \in Refs \cup {NoRef}, CanMove(u, d, a, t, r)
  PROVE  /\ Posting(u, d, a, t, r) \in Entry
         /\ balance[u] + Signed(d, a) \in 0..MaxBalance
<1>1. a \in Nat /\ balance[u] \in Nat /\ MaxBalance \in Nat
  BY WalletAssumption DEF WalletTypeOK
<1>2. balance[u] + Signed(d, a) \in 0..MaxBalance
  BY DEF CanMove
<1> QED
  BY <1>1, <1>2 DEF Posting, Entry, Signed

LEMMA WalletInitType == WalletInit => WalletTypeOK
BY WalletAssumption DEF WalletInit, WalletTypeOK

\* A move keeps the types: the new balance fits the column and the appended
\* row is an Entry.
LEMMA MoveType ==
  ASSUME WalletTypeOK, NEW u \in Users, NEW d \in Directions, NEW a \in Amounts,
         NEW t \in TxTypes, NEW r \in Refs \cup {NoRef}, Move(u, d, a, t, r)
  PROVE  WalletTypeOK'
<1>1. CanMove(u, d, a, t, r)
  BY DEF Move
<1>2. /\ Posting(u, d, a, t, r) \in Entry
      /\ balance[u] + Signed(d, a) \in 0..MaxBalance
  BY <1>1, PostingIsEntry
<1>3. Append(ledger[u], Posting(u, d, a, t, r)) \in Seq(Entry)
  BY <1>2 DEF WalletTypeOK
<1> QED
  BY <1>2, <1>3 DEF Move, WalletTypeOK

LEMMA WalletNextType == WalletTypeOK /\ [WalletNext]_walletVars => WalletTypeOK'
<1> SUFFICES ASSUME WalletTypeOK, [WalletNext]_walletVars PROVE WalletTypeOK'
  OBVIOUS
<1>1. ASSUME NEW u \in Users, EnsureWallet(u) PROVE WalletTypeOK'
  BY <1>1 DEF EnsureWallet, WalletTypeOK
<1>2. ASSUME NEW u \in Users, NEW b \in BOOLEAN, SetFrozen(u, b) PROVE WalletTypeOK'
  BY <1>2 DEF SetFrozen, WalletTypeOK
<1>3. ASSUME NEW u \in Users, NEW a \in Amounts, NEW t \in TxTypes,
             NEW r \in Refs \cup {NoRef}, Credit(u, a, t, r) \/ Debit(u, a, t, r)
      PROVE  WalletTypeOK'
  BY <1>3, MoveType DEF Credit, Debit, Directions
<1>4. CASE UNCHANGED walletVars
  BY <1>4 DEF walletVars, WalletTypeOK
<1> QED
  BY <1>1, <1>2, <1>3, <1>4 DEF WalletNext

\* Types of the ledger: balances stay in the column's range.
THEOREM WalletTypeCorrect == WalletSpec => []WalletTypeOK
<1>1. WalletInit => WalletTypeOK
  BY WalletInitType
<1>2. WalletTypeOK /\ [WalletNext]_walletVars => WalletTypeOK'
  BY WalletNextType
<1> QED
  BY <1>1, <1>2, PTL DEF WalletSpec
\* A move appends its posting to one ledger; every other row stays at its place.
LEMMA MoveAppends ==
  ASSUME WalletTypeOK, NEW u \in Users, NEW d \in Directions, NEW a \in Amounts,
         NEW t \in TxTypes, NEW r \in Refs \cup {NoRef}, Move(u, d, a, t, r)
  PROVE  /\ Len(ledger[u]) \in Nat
         /\ Len(ledger'[u]) = Len(ledger[u]) + 1
         /\ ledger'[u][Len(ledger[u]) + 1] = Posting(u, d, a, t, r)
         /\ \A v \in Users : \A i \in 1..Len(ledger[v]) :
              i \in 1..Len(ledger'[v]) /\ ledger'[v][i] = ledger[v][i]
         /\ \A v \in Users : \A i \in 1..Len(ledger'[v]) :
              \/ i \in 1..Len(ledger[v]) /\ ledger'[v][i] = ledger[v][i]
              \/ v = u /\ i = Len(ledger[u]) + 1
<1> DEFINE e == Posting(u, d, a, t, r)
<1>1. e \in Entry /\ \A v \in Users : ledger[v] \in Seq(Entry)
  BY PostingIsEntry DEF Move, WalletTypeOK
<1>2. /\ ledger'[u] = Append(ledger[u], e)
      /\ \A v \in Users : v # u => ledger'[v] = ledger[v]
  BY DEF Move, WalletTypeOK
<1> HIDE DEF e
<1>3. /\ Len(ledger[u]) \in Nat
      /\ Len(ledger'[u]) = Len(ledger[u]) + 1
      /\ ledger'[u][Len(ledger[u]) + 1] = e
      /\ \A i \in 1..Len(ledger[u]) : ledger'[u][i] = ledger[u][i]
  BY <1>1, <1>2
<1> QED
  BY <1>2, <1>3 DEF e
-----------------------------------------------------------------------------
\* Appending a posting extends the chain of one wallet and leaves the others.
LEMMA MoveExplained ==
  ASSUME WalletTypeOK, LedgerExplainsBalance,
         NEW u \in Users, NEW d \in Directions, NEW a \in Amounts,
         NEW t \in TxTypes, NEW r \in Refs \cup {NoRef}, Move(u, d, a, t, r)
  PROVE  LedgerExplainsBalance'
<1> DEFINE e == Posting(u, d, a, t, r)
           L == ledger[u]
<1>1. e \in Entry /\ L \in Seq(Entry)
  BY PostingIsEntry DEF Move, WalletTypeOK
<1>2. /\ ledger'[u] = Append(L, e)
      /\ balance'[u] = e.after
      /\ e.before = balance[u] /\ e.direction = d /\ e.amount = a
      /\ e.after = e.before + Signed(d, a)
  BY DEF Move, Posting, WalletTypeOK
<1>3. ASSUME NEW v \in Users, v # u
      PROVE  ledger'[v] = ledger[v] /\ balance'[v] = balance[v]
  BY <1>3 DEF Move, WalletTypeOK
<1>4. ASSUME NEW i \in 1..Len(ledger'[u])
      PROVE  /\ ledger'[u][i].after =
                  ledger'[u][i].before + Signed(ledger'[u][i].direction, ledger'[u][i].amount)
             /\ ledger'[u][i].before = IF i = 1 THEN 0 ELSE ledger'[u][i - 1].after
  <2> DEFINE M == Append(L, e)
  <2>1. Len(M) = Len(L) + 1 /\ Len(L) \in Nat
    BY <1>1
  <2>2. CASE i \in 1..Len(L)
    <3>1. M[i] = L[i] /\ (i # 1 => M[i - 1] = L[i - 1])
      BY <1>1, <2>2, <2>1
    <3> HIDE DEF M
    <3> QED
      BY <1>2, <2>2, <3>1 DEF LedgerExplainsBalance, M
  <2>3. CASE i = Len(L) + 1
    <3>1. M[i] = e
      BY <1>1, <2>3
    <3>2. CASE L = <<>>
      BY <1>2, <2>3, <3>1, <3>2 DEF LedgerExplainsBalance
    <3>3. CASE L # <<>>
      <4>1. i # 1 /\ M[i - 1] = L[Len(L)]
        BY <1>1, <2>1, <2>3, <3>3
      <4>2. L[Len(L)].after = balance[u]
        BY <3>3 DEF LedgerExplainsBalance
      <4> HIDE DEF M
      <4> QED
        BY <1>2, <2>3, <3>1, <4>1, <4>2 DEF M
    <3> QED
      BY <3>2, <3>3
  <2> QED
    BY <1>2, <2>1, <2>2, <2>3
<1>5. ledger'[u] # <<>> /\ ledger'[u][Len(ledger'[u])].after = balance'[u]
  BY <1>1, <1>2
<1> HIDE DEF e, L
<1>6. ASSUME NEW v \in Users
      PROVE  LET K == ledger'[v] IN
               /\ \A i \in 1..Len(K) :
                    /\ K[i].after = K[i].before + Signed(K[i].direction, K[i].amount)
                    /\ K[i].before = IF i = 1 THEN 0 ELSE K[i - 1].after
               /\ balance'[v] = IF K = <<>> THEN 0 ELSE K[Len(K)].after
  <2>1. CASE v = u
    BY <2>1, <1>4, <1>5
  <2>2. CASE v # u
    BY <2>2, <1>3 DEF LedgerExplainsBalance
  <2> QED
    BY <2>1, <2>2
<1> QED
  BY <1>6 DEF LedgerExplainsBalance

\* Every balance is the sum its ledger tells, entry by entry: nothing moves a
\* balance without recording it, and no entry was computed from a stale one.
THEOREM LedgerAlwaysExplains == WalletSpec => []LedgerExplainsBalance
<1>1. WalletInit => LedgerExplainsBalance
  <2> SUFFICES ASSUME WalletInit PROVE LedgerExplainsBalance
    OBVIOUS
  <2>1. \A u \in Users : ledger[u] = <<>> /\ balance[u] = 0
    BY DEF WalletInit
  <2>2. \A u \in Users : \A i \in 1..Len(ledger[u]) : FALSE
    BY <2>1
  <2> QED
    BY <2>1, <2>2, Zenon DEF LedgerExplainsBalance
<1>2. WalletTypeOK /\ LedgerExplainsBalance /\ [WalletNext]_walletVars
        => LedgerExplainsBalance'
  <2> SUFFICES ASSUME WalletTypeOK, LedgerExplainsBalance, [WalletNext]_walletVars
               PROVE  LedgerExplainsBalance'
    OBVIOUS
  <2>1. CASE UNCHANGED <<balance, ledger>>
    BY <2>1 DEF LedgerExplainsBalance
  <2>2. ASSUME NEW u \in Users, NEW a \in Amounts, NEW t \in TxTypes,
               NEW r \in Refs \cup {NoRef}, Credit(u, a, t, r) \/ Debit(u, a, t, r)
        PROVE  LedgerExplainsBalance'
    BY <2>2, MoveExplained DEF Credit, Debit, Directions
  <2> QED
    BY <2>1, <2>2 DEF WalletNext, EnsureWallet, SetFrozen, walletVars
<1> QED
  BY <1>1, <1>2, WalletTypeCorrect, PTL DEF WalletSpec
-----------------------------------------------------------------------------
\* A move records an event that was not recorded before, in any wallet.
LEMMA MoveRecordsOnce ==
  ASSUME WalletTypeOK, EventRecordedOnce,
         NEW u \in Users, NEW d \in Directions, NEW a \in Amounts,
         NEW t \in TxTypes, NEW r \in Refs \cup {NoRef}, Move(u, d, a, t, r)
  PROVE  EventRecordedOnce'
<1> DEFINE e == Posting(u, d, a, t, r)
<1>1. e.ref = r /\ e.type = t
  BY DEF Posting
<1>5. r # NoRef => \A v \in Users : \A i \in 1..Len(ledger[v]) :
                     ~(ledger[v][i].type = t /\ ledger[v][i].ref = r)
  BY DEF Move, CanMove, KeyFree, Recorded
\* Every row after the step is an old row at its place, or the new one.
<1>6. ASSUME NEW v \in Users, NEW i \in 1..Len(ledger'[v])
      PROVE  \/ i \in 1..Len(ledger[v]) /\ ledger'[v][i] = ledger[v][i]
             \/ v = u /\ i = Len(ledger[u]) + 1 /\ ledger'[v][i] = e
  BY MoveAppends
<1> HIDE DEF e
<1>7. SUFFICES ASSUME NEW v \in Users, NEW w \in Users,
                      NEW i \in 1..Len(ledger'[v]), NEW j \in 1..Len(ledger'[w]),
                      ledger'[v][i].ref # NoRef,
                      ledger'[v][i].ref = ledger'[w][j].ref,
                      ledger'[v][i].type = ledger'[w][j].type
               PROVE  v = w /\ i = j
  BY DEF EventRecordedOnce
<1>8. CASE /\ i \in 1..Len(ledger[v]) /\ ledger'[v][i] = ledger[v][i]
           /\ j \in 1..Len(ledger[w]) /\ ledger'[w][j] = ledger[w][j]
  BY <1>7, <1>8 DEF EventRecordedOnce
<1>9. CASE /\ v = u /\ i = Len(ledger[u]) + 1 /\ ledger'[v][i] = e
           /\ w = u /\ j = Len(ledger[u]) + 1
  BY <1>9
<1>10. CASE /\ v = u /\ ledger'[v][i] = e
            /\ j \in 1..Len(ledger[w]) /\ ledger'[w][j] = ledger[w][j]
  BY <1>1, <1>5, <1>7, <1>10
<1>11. CASE /\ w = u /\ ledger'[w][j] = e
            /\ i \in 1..Len(ledger[v]) /\ ledger'[v][i] = ledger[v][i]
  BY <1>1, <1>5, <1>7, <1>11
<1> QED
  BY <1>6, <1>8, <1>9, <1>10, <1>11

\* No event is processed twice, whatever the wallets it is booked on.
THEOREM EventsRecordedOnce == WalletSpec => []EventRecordedOnce
<1>1. WalletInit => EventRecordedOnce
  BY DEF WalletInit, EventRecordedOnce
<1>2. WalletTypeOK /\ EventRecordedOnce /\ [WalletNext]_walletVars
        => EventRecordedOnce'
  <2> SUFFICES ASSUME WalletTypeOK, EventRecordedOnce, [WalletNext]_walletVars
               PROVE  EventRecordedOnce'
    OBVIOUS
  <2>1. CASE UNCHANGED ledger
    BY <2>1 DEF EventRecordedOnce
  <2>2. ASSUME NEW u \in Users, NEW a \in Amounts, NEW t \in TxTypes,
               NEW r \in Refs \cup {NoRef}, Credit(u, a, t, r) \/ Debit(u, a, t, r)
        PROVE  EventRecordedOnce'
    BY <2>2, MoveRecordsOnce DEF Credit, Debit, Directions
  <2> QED
    BY <2>1, <2>2 DEF WalletNext, EnsureWallet, SetFrozen, walletVars
<1> QED
  BY <1>1, <1>2, WalletTypeCorrect, PTL DEF WalletSpec

\* A frozen wallet stands still: no step of the ledger moves it.
THEOREM FrozenWalletsStandStill == WalletSpec => FrozenStandsStill
<1>1. WalletTypeOK /\ [WalletNext]_walletVars
        => [\A u \in Users :
              frozen[u] => balance'[u] = balance[u] /\ ledger'[u] = ledger[u]]_walletVars
  <2> SUFFICES ASSUME WalletTypeOK, WalletNext, NEW u \in Users, frozen[u]
               PROVE  balance'[u] = balance[u] /\ ledger'[u] = ledger[u]
    OBVIOUS
  <2> QED
    BY DEF WalletNext, EnsureWallet, SetFrozen, Credit, Debit, Move, CanMove, WalletTypeOK
<1> QED
  BY <1>1, WalletTypeCorrect, PTL DEF WalletSpec, FrozenStandsStill
=============================================================================
