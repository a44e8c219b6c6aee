-------------------------- MODULE CreditStore_proofs --------------------------
(***************************************************************************)
(* Proofs about CreditStore, for any users, requests, keys and amounts.    *)
(*                                                                         *)
(* StoreInv is the inductive invariant.  Its ledger part is a property of  *)
(* one INSERT (InsertPreserves): a method that inserts two rows, as        *)
(* CaptureAndRelease does, uses that lemma twice.                          *)
(***************************************************************************)
EXTENDS CreditStore, TLAPS

Tables == [Users -> Seq(Row)]

(* What one user's ledger and one table of ledgers must satisfy. *)
TableOK(table) == table \in Tables /\ Chained(table) /\ UniqueKeys(table)

StoreInv == StoreTypeOK /\ LedgerChain /\ BalanceIsNewestRow /\ KeysUnique /\ UsageLogBacked

-----------------------------------------------------------------------------
(* What an INSERT does to the parts of the table. *)
LEMMA InsertShape ==
    ASSUME NEW table \in Tables, NEW u \in Users, NEW row \in Row
    PROVE  LET t == Insert(table, u, row) IN
           /\ t \in Tables
           /\ Len(t[u]) = Len(table[u]) + 1
           /\ \A i \in 1..Len(table[u]) : t[u][i] = table[u][i]
           /\ t[u][Len(table[u]) + 1] = row
           /\ \A v \in Users : v # u => t[v] = table[v]
           /\ \A v \in Users : Len(table[v]) \in Nat
BY DEF Insert, Tables

(* An INSERT adds exactly its row to the set of rows. *)
LEMMA InsertRows ==
    ASSUME NEW table \in Tables, NEW u \in Users, NEW row \in Row
    PROVE  /\ RowsIn(Insert(table, u, row), u) = RowsIn(table, u) \cup {row}
           /\ \A v \in Users : v # u => RowsIn(Insert(table, u, row), v) = RowsIn(table, v)
<1>. DEFINE t == Insert(table, u, row)
<1>1. ASSUME NEW q \in RowsIn(t, u) PROVE q \in RowsIn(table, u) \cup {row}
  <2>1. PICK i \in 1..Len(t[u]) : q = t[u][i]
    BY DEF RowsIn
  <2>2. CASE i \in 1..Len(table[u])
    BY <2>1, <2>2, InsertShape DEF RowsIn
  <2>3. CASE i = Len(table[u]) + 1
    BY <2>1, <2>3, InsertShape
  <2>. QED  BY <2>2, <2>3, InsertShape
<1>2. ASSUME NEW q \in RowsIn(table, u) PROVE q \in RowsIn(t, u)
  <2>1. PICK i \in 1..Len(table[u]) : q = table[u][i]
    BY DEF RowsIn
  <2>2. i \in 1..Len(t[u]) /\ t[u][i] = q
    BY <2>1, InsertShape
  <2>. QED  BY <2>2 DEF RowsIn
<1>3. row \in RowsIn(t, u)
  <2>1. Len(table[u]) + 1 \in 1..Len(t[u]) /\ t[u][Len(table[u]) + 1] = row
    BY InsertShape
  <2>. QED  BY <2>1 DEF RowsIn
<1>4. \A v \in Users : v # u => RowsIn(t, v) = RowsIn(table, v)
  BY InsertShape DEF RowsIn
<1>. QED  BY <1>1, <1>2, <1>3, <1>4

(***************************************************************************)
(* Inserting a row with a fresh key whose balance_after continues the      *)
(* chain keeps the table well formed and makes it the newest row.          *)
(***************************************************************************)
LEMMA InsertPreserves ==
    ASSUME NEW table, TableOK(table), NEW u \in Users, NEW row \in Row,
           row.after = NewestBalance(table, u) + row.amount,
           ~UsedIn(table, row.key)
    PROVE  LET t == Insert(table, u, row) IN
           /\ TableOK(t)
           /\ NewestBalance(t, u) = row.after
           /\ \A v \in Users : v # u => NewestBalance(t, v) = NewestBalance(table, v)
<1>. DEFINE t == Insert(table, u, row)
<1>0. table \in Tables
  BY DEF TableOK
<1>1. /\ t \in Tables
      /\ Len(t[u]) = Len(table[u]) + 1
      /\ \A i \in 1..Len(table[u]) : t[u][i] = table[u][i]
      /\ t[u][Len(table[u]) + 1] = row
      /\ \A v \in Users : v # u => t[v] = table[v]
      /\ \A v \in Users : Len(table[v]) \in Nat
  BY <1>0, InsertShape
<1>. HIDE DEF t
<1>2. Chained(t)
  <2>. SUFFICES ASSUME NEW v \in Users, NEW i \in 1..Len(t[v])
                PROVE  t[v][i].after =
                         (IF i = 1 THEN 0 ELSE t[v][i - 1].after) + t[v][i].amount
    BY DEF Chained
  <2>1. CASE v # u
    BY <1>1, <2>1 DEF TableOK, Chained
  <2>2. CASE v = u /\ i \in 1..Len(table[u])
    <3>1. i = 1 \/ i - 1 \in 1..Len(table[u])
      BY <1>1, <2>2
    <3>2. t[u][i] = table[u][i] /\ (i # 1 => t[u][i - 1] = table[u][i - 1])
      BY <1>1, <2>2, <3>1
    <3>3. table[u][i].after =
            (IF i = 1 THEN 0 ELSE table[u][i - 1].after) + table[u][i].amount
      BY <2>2 DEF TableOK, Chained
    <3>. QED  BY <2>2, <3>2, <3>3
  <2>3. CASE v = u /\ i = Len(table[u]) + 1
    <3>1. CASE Len(table[u]) = 0
      BY <1>1, <2>3, <3>1 DEF NewestBalance
    <3>2. CASE Len(table[u]) # 0
      <4>1. i # 1 /\ i - 1 = Len(table[u]) /\ i - 1 \in 1..Len(table[u])
        BY <1>1, <2>3, <3>2
      <4>2. t[u][i - 1] = table[u][Len(table[u])]
        BY <1>1, <4>1
      <4>. QED  BY <1>1, <2>3, <3>2, <4>1, <4>2 DEF NewestBalance
    <3>. QED  BY <3>1, <3>2
  <2>. QED  BY <1>1, <2>1, <2>2, <2>3
<1>3. UniqueKeys(t)
  <2>1. ASSUME NEW v \in Users, NEW i \in 1..Len(table[v]) PROVE table[v][i].key # row.key
    BY DEF UsedIn, RowsIn
  <2>2. ASSUME NEW v \in Users, NEW i \in 1..Len(t[v])
        PROVE  \/ i \in 1..Len(table[v]) /\ t[v][i] = table[v][i]
               \/ v = u /\ i = Len(table[u]) + 1 /\ t[v][i] = row
    BY <1>1
  <2>. SUFFICES ASSUME NEW v \in Users, NEW w \in Users,
                       NEW i \in 1..Len(t[v]), NEW j \in 1..Len(t[w]),
                       t[v][i].key = t[w][j].key
                PROVE  v = w /\ i = j
    BY DEF UniqueKeys
  <2>3. CASE i \in 1..Len(table[v]) /\ t[v][i] = table[v][i]
             /\ j \in 1..Len(table[w]) /\ t[w][j] = table[w][j]
    BY <2>3 DEF TableOK, UniqueKeys
  <2>4. CASE v = u /\ i = Len(table[u]) + 1 /\ t[v][i] = row
    BY <2>1, <2>2, <2>4
  <2>5. CASE w = u /\ j = Len(table[u]) + 1 /\ t[w][j] = row
    BY <2>1, <2>2, <2>5
  <2>. QED  BY <2>2, <2>3, <2>4, <2>5
<1>4. NewestBalance(t, u) = row.after
  BY <1>1 DEF NewestBalance
<1>5. \A v \in Users : v # u => NewestBalance(t, v) = NewestBalance(table, v)
  BY <1>1 DEF NewestBalance
<1>. QED  BY <1>1, <1>2, <1>3, <1>4, <1>5 DEF TableOK, t

-----------------------------------------------------------------------------
(***************************************************************************)
(* A committed settlement keeps the ledger well formed, ends at the new    *)
(* balance, leaves other users alone, keeps every old row and, when it     *)
(* captures, holds the capture row.                                        *)
(***************************************************************************)
LEMMA SettlementPreserves ==
    ASSUME NEW u \in Users, NEW r \in Requests, NEW c \in Int, NEW l \in Int,
           NEW k \in ClientKeys \cup {NoKey},
           StoreTypeOK, TableOK(ledger), BalanceIsNewestRow,
           CaptureAndReleaseOK(u, r, c, l, k)
    PROVE  LET t == AfterSettlement(u, r, c, l, KeySuffix(r, k)) IN
           /\ TableOK(t)
           /\ NewestBalance(t, u) = balance[u] - Moved(c) + Moved(l)
           /\ \A v \in Users : v # u => NewestBalance(t, v) = NewestBalance(ledger, v)
           /\ \A v \in Users : RowsIn(ledger, v) \subseteq RowsIn(t, v)
           /\ c > 0 => CaptureRow(u, r, c, KeySuffix(r, k)) \in RowsIn(t, u)
<1>. DEFINE x == KeySuffix(r, k)
            cap == CaptureRow(u, r, c, x)
            rel == ReleaseRow(u, r, c, l, x)
            t1 == InsertIf(c > 0, ledger, u, cap)
            t == InsertIf(l > 0, t1, u, rel)
<1>0. /\ Moved(c) \in Nat /\ Moved(l) \in Nat
      /\ Moved(c) = (IF c > 0 THEN c ELSE 0) /\ Moved(l) = (IF l > 0 THEN l ELSE 0)
  BY DEF Moved
<1>1. x \in Requests \cup ClientKeys /\ balance[u] \in Nat
  BY DEF KeySuffix, StoreTypeOK
<1>2. /\ cap \in Row /\ cap.after = balance[u] - c /\ cap.amount = -c
      /\ cap.key = <<"capture", x>>
      /\ rel \in Row /\ rel.after = balance[u] - Moved(c) + l /\ rel.amount = l
      /\ rel.key = <<"release", x>>
  BY <1>0, <1>1 DEF CaptureRow, ReleaseRow, Row, IdemKeys
<1>3. /\ c > 0 => ~UsedIn(ledger, cap.key)
      /\ l > 0 => ~UsedIn(ledger, rel.key)
  BY <1>2 DEF CaptureAndReleaseOK, Used
<1>4. NewestBalance(ledger, u) = balance[u]
  BY DEF BalanceIsNewestRow
<1>. HIDE DEF x, cap, rel
<1>5. /\ TableOK(t1)
      /\ NewestBalance(t1, u) = balance[u] - Moved(c)
      /\ \A v \in Users : v # u => NewestBalance(t1, v) = NewestBalance(ledger, v)
      /\ \A v \in Users : RowsIn(ledger, v) \subseteq RowsIn(t1, v)
      /\ c > 0 => cap \in RowsIn(t1, u)
      /\ l > 0 => ~UsedIn(t1, rel.key)
  <2>1. CASE c > 0
    <3>1. t1 = Insert(ledger, u, cap)
      BY <2>1 DEF InsertIf
    <3>2. cap.after = NewestBalance(ledger, u) + cap.amount
      BY <1>1, <1>2, <1>4
    <3>3. /\ TableOK(t1) /\ NewestBalance(t1, u) = cap.after
          /\ \A v \in Users : v # u => NewestBalance(t1, v) = NewestBalance(ledger, v)
      BY <1>2, <1>3, <2>1, <3>1, <3>2, InsertPreserves
    <3>4. ledger \in Tables
      BY DEF TableOK
    <3>5. /\ RowsIn(t1, u) = RowsIn(ledger, u) \cup {cap}
          /\ \A v \in Users : v # u => RowsIn(t1, v) = RowsIn(ledger, v)
      BY <1>2, <3>1, <3>4, InsertRows
    <3>6. cap.key # rel.key
      BY <1>2
    <3>7. l > 0 => ~UsedIn(t1, rel.key)
      BY <1>3, <3>5, <3>6 DEF UsedIn
    <3>. QED  BY <1>0, <1>2, <2>1, <3>3, <3>5, <3>7
  <2>2. CASE ~(c > 0)
    BY <1>0, <1>1, <1>3, <1>4, <2>2 DEF InsertIf
  <2>. QED  BY <2>1, <2>2
<1>. HIDE DEF t1
<1>6. /\ TableOK(t)
      /\ NewestBalance(t, u) = balance[u] - Moved(c) + Moved(l)
      /\ \A v \in Users : v # u => NewestBalance(t, v) = NewestBalance(t1, v)
      /\ \A v \in Users : RowsIn(t1, v) \subseteq RowsIn(t, v)
  <2>1. CASE l > 0
    <3>1. t = Insert(t1, u, rel)
      BY <2>1 DEF InsertIf
    <3>2. rel.after = NewestBalance(t1, u) + rel.amount
      BY <1>0, <1>1, <1>2, <1>5
    <3>3. t1 \in Tables
      BY <1>5 DEF TableOK
    <3>4. /\ TableOK(t) /\ NewestBalance(t, u) = rel.after
          /\ \A v \in Users : v # u => NewestBalance(t, v) = NewestBalance(t1, v)
      BY <1>2, <1>5, <2>1, <3>1, <3>2, InsertPreserves
    <3>5. /\ RowsIn(t, u) = RowsIn(t1, u) \cup {rel}
          /\ \A v \in Users : v # u => RowsIn(t, v) = RowsIn(t1, v)
      BY <1>2, <3>1, <3>3, InsertRows
    <3>. QED  BY <1>0, <1>2, <2>1, <3>4, <3>5
  <2>2. CASE ~(l > 0)
    BY <1>0, <1>1, <1>5, <2>2 DEF InsertIf
  <2>. QED  BY <2>1, <2>2
<1>7. t = AfterSettlement(u, r, c, l, KeySuffix(r, k))
  BY DEF AfterSettlement, t1, x, cap, rel
<1>8. CaptureRow(u, r, c, KeySuffix(r, k)) = cap
  BY DEF cap, x
<1>. QED  BY <1>5, <1>6, <1>7, <1>8

-----------------------------------------------------------------------------
(* The invariant holds of the freshly migrated database. *)
LEMMA StoreInitInv == StoreInit => StoreInv
BY DEF StoreInit, StoreInv, StoreTypeOK, LedgerChain, Chained, BalanceIsNewestRow,
       NewestBalance, KeysUnique, UniqueKeys, UsageLogBacked, NoLog, NoSession,
       LogRow, SessionRow

(***************************************************************************)
(* A method that inserts one row and moves the balance by its amount: the  *)
(* part of the argument DepositCredits and ApplyHold share.                *)
(***************************************************************************)
LEMMA OneRowStep ==
    ASSUME StoreInv, NEW u \in Users, NEW row \in Row, ~Used(row.key),
           row.after \in Nat, row.after = balance[u] + row.amount,
           balance' = [balance EXCEPT ![u] = row.after],
           ledger' = Insert(ledger, u, row),
           UNCHANGED <<usageLog, session>>
    PROVE  StoreInv'
<1>1. ledger \in Tables /\ TableOK(ledger) /\ NewestBalance(ledger, u) = balance[u]
  BY DEF StoreInv, StoreTypeOK, Tables, TableOK, LedgerChain, KeysUnique, BalanceIsNewestRow
<1>2. /\ TableOK(ledger') /\ NewestBalance(ledger', u) = row.after
      /\ \A v \in Users : v # u => NewestBalance(ledger', v) = NewestBalance(ledger, v)
  BY <1>1, InsertPreserves DEF Used
<1>3. \A v \in Users : RowsIn(ledger, v) \subseteq RowsIn(ledger', v)
  BY <1>1, InsertRows
<1>4. StoreTypeOK'
  BY <1>2 DEF StoreInv, StoreTypeOK, TableOK, Tables
<1>5. LedgerChain' /\ KeysUnique'
  BY <1>2 DEF TableOK, LedgerChain, KeysUnique
<1>6. BalanceIsNewestRow'
  BY <1>2 DEF StoreInv, StoreTypeOK, BalanceIsNewestRow
<1>7. UsageLogBacked'
  BY <1>3 DEF StoreInv, UsageLogBacked
<1>. QED  BY <1>4, <1>5, <1>6, <1>7 DEF StoreInv

(***************************************************************************)
(* A method that leaves balances and ledger alone and never raises         *)
(* credits_captured keeps the invariant if it keeps the types.             *)
(***************************************************************************)
LEMMA NoLedgerStep ==
    ASSUME StoreInv, UNCHANGED <<balance, ledger>>, StoreTypeOK',
           \A r \in Requests : usageLog'[r].captured \in {0, usageLog[r].captured}
    PROVE  StoreInv'
<1>1. LedgerChain' /\ KeysUnique' /\ BalanceIsNewestRow'
  BY DEF StoreInv, LedgerChain, KeysUnique, BalanceIsNewestRow
<1>2. UsageLogBacked'
  BY DEF StoreInv, UsageLogBacked
<1>. QED  BY <1>1, <1>2 DEF StoreInv

(* Every method call keeps the invariant. *)
LEMMA StoreStepInv == StoreInv /\ [StoreNext]_storeVars => StoreInv'
<1>. SUFFICES ASSUME StoreInv, [StoreNext]_storeVars PROVE StoreInv'
  OBVIOUS
<1>. USE AmountsAreIntegers
<1>0. StoreTypeOK
  BY DEF StoreInv
<1>1. ASSUME NEW u \in Users, NEW a \in Amounts, NEW k \in DepositKeys,
             DepositCredits(u, a, k)
      PROVE  StoreInv'
  <2>. DEFINE row == [type |-> "deposit", amount |-> a, after |-> balance[u] + a,
                      ref |-> NoKey, key |-> <<"deposit", k>>]
  <2>1. row \in Row /\ row.after \in Nat
    BY <1>0, <1>1 DEF StoreTypeOK, Row, IdemKeys, DepositCredits
  <2>2. /\ ~Used(row.key) /\ row.after = balance[u] + row.amount
        /\ balance' = [balance EXCEPT ![u] = row.after]
        /\ ledger' = Insert(ledger, u, row) /\ UNCHANGED <<usageLog, session>>
    BY <1>1 DEF DepositCredits
  <2>. HIDE DEF row
  <2>. QED  BY <2>1, <2>2, OneRowStep
<1>2. ASSUME NEW u \in Users, NEW a \in Amounts, NEW r \in Requests,
             NEW x \in Requests \cup ClientKeys, ApplyHold(u, a, r, <<"hold", x>>)
      PROVE  StoreInv'
  <2>. DEFINE row == [type |-> "hold", amount |-> -a, after |-> balance[u] - a,
                      ref |-> r, key |-> <<"hold", x>>]
  <2>1. row \in Row
    BY <1>0 DEF StoreTypeOK, Row, IdemKeys
  <2>2. row.after \in Nat /\ row.after = balance[u] + row.amount
    BY <1>0, <1>2 DEF StoreTypeOK, ApplyHold, ApplyHoldOK
  <2>3. /\ ~Used(row.key)
        /\ balance' = [balance EXCEPT ![u] = row.after]
        /\ ledger' = Insert(ledger, u, row) /\ UNCHANGED <<usageLog, session>>
    BY <1>2 DEF ApplyHold, ApplyHoldOK
  <2>. HIDE DEF row
  <2>. QED  BY <2>1, <2>2, <2>3, OneRowStep
<1>3. ASSUME NEW u \in Users, NEW r \in Requests, NEW c \in Amounts, NEW l \in Amounts,
             NEW s \in Statuses, NEW k \in ClientKeys \cup {NoKey},
             CaptureAndRelease(u, r, c, l, s, k)
      PROVE  StoreInv'
  <2>1. TableOK(ledger) /\ BalanceIsNewestRow /\ CaptureAndReleaseOK(u, r, c, l, k)
    BY <1>3 DEF StoreInv, StoreTypeOK, Tables, TableOK, LedgerChain, KeysUnique,
                CaptureAndRelease
  <2>2. ledger' = AfterSettlement(u, r, c, l, KeySuffix(r, k))
    BY <1>3 DEF CaptureAndRelease
  <2>3. /\ TableOK(ledger')
        /\ NewestBalance(ledger', u) = balance[u] - Moved(c) + Moved(l)
        /\ \A v \in Users : v # u => NewestBalance(ledger', v) = NewestBalance(ledger, v)
        /\ \A v \in Users : RowsIn(ledger, v) \subseteq RowsIn(ledger', v)
        /\ c > 0 => CaptureRow(u, r, c, KeySuffix(r, k)) \in RowsIn(ledger', u)
    BY <1>0, <2>1, <2>2, SettlementPreserves
  <2>4. /\ balance' = [balance EXCEPT ![u] = @ - Moved(c) + Moved(l)]
        /\ balance[u] - Moved(c) + Moved(l) \in Nat
    BY <1>0, <1>3 DEF CaptureAndRelease, CaptureAndReleaseOK, StoreTypeOK, Moved
  <2>5. StoreTypeOK'
    <3>1. usageLog' \in [Requests -> LogRow]
      BY <1>0, <1>3 DEF StoreTypeOK, CaptureAndRelease, LogRow
    <3>2. session' = session
      BY <1>3 DEF CaptureAndRelease
    <3>. QED  BY <1>0, <2>3, <2>4, <3>1, <3>2 DEF StoreTypeOK, TableOK, Tables
  <2>6. LedgerChain' /\ KeysUnique'
    BY <2>3 DEF TableOK, LedgerChain, KeysUnique
  <2>7. BalanceIsNewestRow'
    BY <1>0, <2>1, <2>3, <2>4 DEF StoreTypeOK, BalanceIsNewestRow
  <2>8. UsageLogBacked'
    <3>. SUFFICES ASSUME NEW q \in Requests, usageLog'[q].captured > 0
                  PROVE  \E v \in Users : \E row \in RowsIn(ledger', v) :
                            /\ row.type = "capture" /\ row.ref = q
                            /\ row.amount = -usageLog'[q].captured
      BY DEF UsageLogBacked
    <3>1. CASE usageLog'[q] = usageLog[q]
      BY <2>3, <3>1 DEF StoreInv, UsageLogBacked
    <3>2. CASE usageLog'[q] # usageLog[q]
      <4>1. q = r /\ usageLog'[q].captured = c
        BY <1>0, <1>3, <3>2 DEF CaptureAndRelease, StoreTypeOK, LogRow
      <4>2. CaptureRow(u, r, c, KeySuffix(r, k)) \in RowsIn(ledger', u)
        BY <2>3, <4>1
      <4>. QED  BY <4>1, <4>2 DEF CaptureRow
    <3>. QED  BY <3>1, <3>2
  <2>. QED  BY <2>5, <2>6, <2>7, <2>8 DEF StoreInv
<1>4. ASSUME NEW r \in Requests, NEW a \in Amounts, CreateMeteringSession(r, a)
      PROVE  StoreInv'
  <2>1. StoreTypeOK'
    BY <1>0, <1>4 DEF StoreTypeOK, CreateMeteringSession, SessionRow
  <2>. QED  BY <1>4, <2>1, NoLedgerStep DEF CreateMeteringSession
<1>5. ASSUME NEW r \in Requests, CreateUsageLog(r)
      PROVE  StoreInv'
  <2>1. StoreTypeOK'
    <3>0. NoLog \in LogRow /\ "pending" \in Statuses \cup {"none", "pending"}
      BY DEF LogRow, NoLog
    <3>1. [NoLog EXCEPT !.status = "pending"] \in LogRow
      BY <3>0 DEF LogRow
    <3>. QED  BY <1>0, <1>5, <3>1 DEF StoreTypeOK, CreateUsageLog
  <2>2. \A q \in Requests : usageLog'[q].captured \in {0, usageLog[q].captured}
    BY <1>0, <1>5 DEF StoreTypeOK, CreateUsageLog, NoLog
  <2>. QED  BY <1>5, <2>1, <2>2, NoLedgerStep DEF CreateUsageLog
<1>6. ASSUME NEW r \in Requests, SessionExpires(r) \/ DeleteMeteringSession(r)
      PROVE  StoreInv'
  <2>1. StoreTypeOK'
    <3>1. CASE SessionExpires(r)
      BY <1>0, <3>1 DEF StoreTypeOK, SessionExpires, SessionRow
    <3>2. CASE DeleteMeteringSession(r)
      BY <1>0, <3>2 DEF StoreTypeOK, DeleteMeteringSession, SessionRow, NoSession
    <3>. QED  BY <1>6, <3>1, <3>2
  <2>. QED  BY <1>6, <2>1, NoLedgerStep DEF SessionExpires, DeleteMeteringSession
<1>7. CASE UNCHANGED storeVars
  BY <1>7 DEF storeVars, StoreInv, StoreTypeOK, LedgerChain, Chained, BalanceIsNewestRow,
              NewestBalance, KeysUnique, UniqueKeys, UsageLogBacked
<1>. QED  BY <1>1, <1>2, <1>3, <1>4, <1>5, <1>6, <1>7 DEF StoreNext

(* StoreInv is an invariant of every caller of the store. *)
THEOREM StoreInvariant == StoreSpec => []StoreInv
BY StoreInitInv, StoreStepInv, PTL DEF StoreSpec

(* The columns keep their types; in particular no balance is negative. *)
THEOREM StoreTypeCorrect == StoreSpec => []StoreTypeOK
<1>1. StoreInv => StoreTypeOK
  BY DEF StoreInv
<1>. QED  BY <1>1, StoreInvariant, PTL

(* The ledger can be audited: each row continues the user's previous balance_after. *)
THEOREM LedgerExplainsBalance == StoreSpec => []LedgerChain
<1>1. StoreInv => LedgerChain
  BY DEF StoreInv
<1>. QED  BY <1>1, StoreInvariant, PTL

(* The stored balance is the balance_after of the user's newest ledger row. *)
THEOREM StoredBalanceIsNewest == StoreSpec => []BalanceIsNewestRow
<1>1. StoreInv => BalanceIsNewestRow
  BY DEF StoreInv
<1>. QED  BY <1>1, StoreInvariant, PTL

(* Captured credits in a usage log are backed by a capture row. *)
THEOREM CapturedCreditsBacked == StoreSpec => []UsageLogBacked
<1>1. StoreInv => UsageLogBacked
  BY DEF StoreInv
<1>. QED  BY <1>1, StoreInvariant, PTL
=============================================================================
