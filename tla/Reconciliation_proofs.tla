------------------------ MODULE Reconciliation_proofs ------------------------
(***************************************************************************)
(* Proofs about Reconciliation: what the audits may do to a balance that   *)
(* agrees with its ledger, for any users, requests, keys and amounts.      *)
(*                                                                         *)
(* The audited sum, LedgerBalance, is a recursive function that FoldSeq    *)
(* picks with CHOOSE over the subsets of the row numbers.  The first part  *)
(* shows that such a function exists, is unique and may take the rows in   *)
(* any order, so that an INSERT adds its amount to the sum.  In place of   *)
(* an induction rule each of these arguments takes a smallest set of row   *)
(* numbers that fails (MinimalSubset).                                     *)
(***************************************************************************)
EXTENDS Reconciliation, CreditStore_proofs, FiniteSetTheorems

(* The sum of amounts over a set of indices, as FoldSeq computes it. *)
Fold(rows, S, g) ==
    [s \in SUBSET S |->
        IF s = {} THEN 0 ELSE LET x == CHOOSE x \in s : TRUE IN rows[x].amount + g[s \ {x}]]

(* Induction over the subsets of a finite set, by way of a minimal counterexample. *)
LEMMA MinimalSubset ==
    ASSUME NEW S, IsFiniteSet(S), NEW T, T \subseteq SUBSET S, T # {}
    PROVE  \E x \in T : \A y \in T : y \subseteq x => y = x
<1>1. IsWellFoundedOn(StrictSubsetOrdering(S), SUBSET S)
  BY FS_StrictSubsetOrderingWellFounded, FS_FiniteSubsetsOfFinite
<1>2. PICK x \in T : \A y \in T : ~(<<y, x>> \in StrictSubsetOrdering(S))
  BY <1>1, WFMin
<1>. QED  BY <1>2 DEF StrictSubsetOrdering

(* Two such sums agree on every set of indices on which the amounts agree. *)
LEMMA FoldUnique ==
    ASSUME NEW S, IsFiniteSet(S), NEW rows, NEW g, g = Fold(rows, S, g),
           NEW R, NEW others, NEW h, h = Fold(others, R, h),
           NEW U, U \subseteq S, U \subseteq R, \A x \in U : rows[x].amount = others[x].amount
    PROVE  g[U] = h[U]
<1>. SUFFICES ASSUME g[U] # h[U] PROVE FALSE
  OBVIOUS
<1>. DEFINE T == {s \in SUBSET S : s \subseteq U /\ g[s] # h[s]}
<1>1. T # {} /\ T \subseteq SUBSET S
  OBVIOUS
<1>2. PICK X \in T : \A y \in T : y \subseteq X => y = X
  <2>. HIDE DEF T
  <2>. QED  BY <1>1, MinimalSubset
<1>3. /\ X \in SUBSET S /\ X \in SUBSET R /\ X \subseteq U /\ g[X] # h[X]
      /\ \A y \in SUBSET X : y # X => g[y] = h[y]
  BY <1>2
<1>. DEFINE c == CHOOSE x \in X : TRUE
            Gstep(s) == LET x == CHOOSE x \in s : TRUE IN rows[x].amount + g[s \ {x}]
            Hstep(s) == LET x == CHOOSE x \in s : TRUE IN others[x].amount + h[s \ {x}]
<1>4. g[X] = IF X = {} THEN 0 ELSE Gstep(X)
  BY <1>3 DEF Fold
<1>5. h[X] = IF X = {} THEN 0 ELSE Hstep(X)
  BY <1>3 DEF Fold
<1>6. X # {}
  BY <1>3, <1>4, <1>5
<1>7. c \in X /\ X \ {c} # X /\ X \ {c} \in SUBSET X
  BY <1>6
<1>8. Gstep(X) = rows[c].amount + g[X \ {c}] /\ Hstep(X) = others[c].amount + h[X \ {c}]
  OBVIOUS
<1>9. g[X \ {c}] = h[X \ {c}] /\ rows[c].amount = others[c].amount
  BY <1>3, <1>7
<1>. HIDE DEF c, Gstep, Hstep
<1>. QED  BY <1>3, <1>4, <1>5, <1>6, <1>8, <1>9

(* There is such a sum over every finite set. *)
LEMMA FoldExists ==
    ASSUME NEW S, IsFiniteSet(S), NEW rows, \A x \in S : rows[x].amount \in Int
    PROVE  \E g \in [SUBSET S -> Int] : g = Fold(rows, S, g)
<1>. DEFINE Good(s) == \E g \in [SUBSET s -> Int] : g = Fold(rows, s, g)
            T == {s \in SUBSET S : ~Good(s)}
<1>. SUFFICES ASSUME ~Good(S) PROVE FALSE
  OBVIOUS
<1>1. PICK X \in T : \A y \in T : y \subseteq X => y = X
  <2>1. T # {} /\ T \subseteq SUBSET S
    OBVIOUS
  <2>. HIDE DEF T
  <2>. QED  BY <2>1, MinimalSubset
<1>2. X \in SUBSET S /\ ~Good(X) /\ \A s \in SUBSET X : s # X => Good(s)
  BY <1>1
<1>. DEFINE Sum(s) == CHOOSE g \in [SUBSET s -> Int] : g = Fold(rows, s, g)
            Pick(s) == CHOOSE x \in s : TRUE
            Step(s) == rows[Pick(s)].amount + Sum(s \ {Pick(s)})[s \ {Pick(s)}]
<1>3. ASSUME NEW s \in SUBSET X, s # X PROVE Sum(s) \in [SUBSET s -> Int] /\ Sum(s) = Fold(rows, s, Sum(s))
  BY <1>2, <1>3
<1>4. ASSUME NEW s, s # {} PROVE Pick(s) \in s /\ s \ {Pick(s)} # s
  BY <1>4
<1>5. ASSUME NEW s \in SUBSET X, s # X
      PROVE  Sum(s)[s] \in Int /\ Sum(s)[s] = IF s = {} THEN 0 ELSE Step(s)
  <2>1. Sum(s)[s] \in Int
    BY <1>3, <1>5
  <2>2. Sum(s)[s] = IF s = {} THEN 0 ELSE rows[Pick(s)].amount + Sum(s)[s \ {Pick(s)}]
    <3>. DEFINE g == Sum(s)
    <3>1. g = Fold(rows, s, g)
      BY <1>3, <1>5
    <3>. HIDE DEF g
    <3>2. g[s] = IF s = {} THEN 0 ELSE rows[Pick(s)].amount + g[s \ {Pick(s)}]
      BY <3>1 DEF Fold
    <3>. QED  BY <3>2 DEF g
  <2>3. CASE s # {}
    <3>. DEFINE r == s \ {Pick(s)}
    <3>1. r \in SUBSET X /\ r # X /\ r \subseteq s
      BY <1>4, <1>5, <2>3
    <3>2. Sum(r) = Fold(rows, r, Sum(r)) /\ Sum(s) = Fold(rows, s, Sum(s))
      BY <1>3, <1>5, <3>1
    <3>3. IsFiniteSet(s)
      BY <1>2, <1>5, FS_Subset
    <3>. HIDE DEF Sum, r
    <3>4. Sum(s)[r] = Sum(r)[r]
      BY <3>1, <3>2, <3>3, FoldUnique
    <3>. QED  BY <2>1, <2>2, <2>3, <3>4 DEF r
  <2>. QED  BY <2>1, <2>2, <2>3
<1>. HIDE DEF Sum, Pick
<1>. DEFINE top == IF X = {} THEN 0 ELSE Step(X)
            G == [s \in SUBSET X |-> IF s = X THEN top ELSE Sum(s)[s]]
<1>6. top \in Int
  <2>1. CASE X # {}
    <3>1. rows[Pick(X)].amount \in Int
      BY <1>2, <1>4, <2>1
    <3>2. Sum(X \ {Pick(X)})[X \ {Pick(X)}] \in Int
      BY <1>4, <1>5, <2>1
    <3>. QED  BY <2>1, <3>1, <3>2
  <2>. QED  BY <2>1
<1>7. G \in [SUBSET X -> Int]
  BY <1>5, <1>6
<1>8. ASSUME NEW s \in SUBSET X
      PROVE  G[s] = IF s = {} THEN 0 ELSE rows[Pick(s)].amount + G[s \ {Pick(s)}]
  <2>1. s # {} => s \ {Pick(s)} \in SUBSET X /\ s \ {Pick(s)} # X
    BY <1>4
  <2>2. s # {} => G[s \ {Pick(s)}] = Sum(s \ {Pick(s)})[s \ {Pick(s)}]
    BY <2>1
  <2>3. G[s] = IF s = {} THEN 0 ELSE Step(s)
    BY <1>5
  <2>. QED  BY <2>2, <2>3
<1>9. G = Fold(rows, X, G)
  <2>. HIDE DEF G
  <2>1. G = [s \in SUBSET X |-> G[s]]
    BY <1>7
  <2>2. G = [s \in SUBSET X |-> IF s = {} THEN 0 ELSE rows[Pick(s)].amount + G[s \ {Pick(s)}]]
    BY <1>8, <2>1
  <2>. QED  BY <2>2 DEF Fold, Pick
<1>. QED  BY <1>2, <1>7, <1>9

(* The order does not matter: any index may be taken off first. *)
AnyOrder(rows, S, g) == \A s \in SUBSET S : \A y \in s : g[s] = rows[y].amount + g[s \ {y}]

(* The sum over a finite set does not depend on the order. *)
LEMMA FoldAnyOrder ==
    ASSUME NEW S, IsFiniteSet(S), NEW rows, \A x \in S : rows[x].amount \in Int,
           NEW g \in [SUBSET S -> Int], g = Fold(rows, S, g)
    PROVE  AnyOrder(rows, S, g)
<1>. DEFINE Good(t) == \A z \in t : g[t] = rows[z].amount + g[t \ {z}]
            T == {t \in SUBSET S : ~Good(t)}
<1>. SUFFICES ASSUME NEW s \in SUBSET S, ~Good(s) PROVE FALSE
  BY DEF AnyOrder
<1>1. PICK X \in T : \A t \in T : t \subseteq X => t = X
  <2>1. T # {} /\ T \subseteq SUBSET S
    OBVIOUS
  <2>. HIDE DEF T
  <2>. QED  BY <2>1, MinimalSubset
<1>2. X \in SUBSET S /\ ~Good(X) /\ \A t \in SUBSET X : t # X => Good(t)
  BY <1>1
<1>3. PICK z \in X : g[X] # rows[z].amount + g[X \ {z}]
  BY <1>2
<1>. DEFINE c == CHOOSE x \in X : TRUE
<1>4. c \in X
  BY <1>3
<1>5. g[X] = rows[c].amount + g[X \ {c}]
  BY <1>2, <1>3 DEF Fold
<1>. HIDE DEF c
<1>6. c # z
  BY <1>3, <1>5
<1>7. g[X \ {c}] = rows[z].amount + g[(X \ {c}) \ {z}]
  BY <1>2, <1>3, <1>4, <1>6
<1>8. g[X \ {z}] = rows[c].amount + g[(X \ {z}) \ {c}]
  BY <1>2, <1>3, <1>4, <1>6
<1>9. (X \ {c}) \ {z} = (X \ {z}) \ {c} /\ (X \ {z}) \ {c} \in SUBSET S
  BY <1>2
<1>10. rows[z].amount \in Int /\ rows[c].amount \in Int /\ g[(X \ {z}) \ {c}] \in Int
  BY <1>2, <1>3, <1>4, <1>9
<1>. DEFINE a == rows[c].amount
            b == rows[z].amount
            rest == g[(X \ {z}) \ {c}]
<1>11. g[X] = a + (b + rest) /\ g[X \ {z}] = a + rest /\ g[X] # b + g[X \ {z}]
  BY <1>3, <1>5, <1>7, <1>8, <1>9
<1>. HIDE DEF a, b, rest
<1>12. a + (b + rest) = b + (a + rest)
  BY <1>10 DEF a, b, rest
<1>. QED  BY <1>11, <1>12

(* The sum of the amounts of a sequence of rows. *)
RowSum(rows) == (CHOOSE g : g = Fold(rows, DOMAIN rows, g))[DOMAIN rows]

(* The sum of no rows is 0. *)
LEMMA SumOfNone == RowSum(<<>>) = 0
<1>. DEFINE D == DOMAIN <<>>
            g == CHOOSE g : g = Fold(<<>>, D, g)
<1>1. D = {} /\ RowSum(<<>>) = g[D]
  BY DEF RowSum
<1>2. \E h : h = Fold(<<>>, D, h)
  BY <1>1, FS_EmptySet, FoldExists
<1>3. g = Fold(<<>>, D, g)
  BY <1>2
<1>. HIDE DEF g
<1>. QED  BY <1>1, <1>3 DEF Fold

(* One more row adds its amount. *)
LEMMA SumOfAppend ==
    ASSUME NEW rows \in Seq(Row), NEW row \in Row
    PROVE  RowSum(Append(rows, row)) = RowSum(rows) + row.amount /\ RowSum(rows) \in Int
<1>. DEFINE n == Len(rows)
            more == Append(rows, row)
            g == CHOOSE g : g = Fold(rows, DOMAIN rows, g)
            h == CHOOSE h : h = Fold(more, DOMAIN more, h)
<1>1. /\ n \in Nat /\ DOMAIN rows = 1..n /\ DOMAIN more = 1..(n + 1)
      /\ more[n + 1] = row /\ \A i \in 1..n : more[i] = rows[i]
      /\ \A i \in 1..n : rows[i] \in Row
  OBVIOUS
<1>2. \A r \in Row : r.amount \in Int
  BY DEF Row
<1>3. \A i \in 1..(n + 1) : more[i].amount \in Int
  <2>1. \A i \in 1..(n + 1) : i \in 1..n \/ i = n + 1
    BY <1>1
  <2>. QED  BY <1>1, <1>2, <2>1
<1>4. IsFiniteSet(1..n) /\ IsFiniteSet(1..(n + 1))
  BY <1>1, FS_Interval
<1>. HIDE DEF more, n
<1>. DEFINE S == 1..n
            R == 1..(n + 1)
<1>5. /\ DOMAIN rows = S /\ DOMAIN more = R /\ IsFiniteSet(S) /\ IsFiniteSet(R)
      /\ S \subseteq R /\ n + 1 \in R /\ R \ {n + 1} = S
      /\ \A i \in S : rows[i].amount \in Int /\ rows[i].amount = more[i].amount
      /\ \A i \in R : more[i].amount \in Int
  BY <1>1, <1>2, <1>3, <1>4
<1>. HIDE DEF S, R
<1>6. \E f \in [SUBSET S -> Int] : f = Fold(rows, S, f)
  BY <1>5, FoldExists
<1>7. PICK f \in [SUBSET R -> Int] : f = Fold(more, R, f)
  BY <1>5, FoldExists
<1>8. g = Fold(rows, S, g) /\ h = Fold(more, R, h)
  BY <1>5, <1>6, <1>7
<1>9. RowSum(rows) = g[S] /\ RowSum(more) = h[R]
  BY <1>5 DEF RowSum
<1>. HIDE DEF g, h
<1>10. h[R] = f[R]
  BY <1>5, <1>7, <1>8, FoldUnique
<1>11. f[R] = more[n + 1].amount + f[S]
  <2>. DEFINE y == n + 1
  <2>1. y \in R /\ R \ {y} = S /\ R \in SUBSET R
    BY <1>5
  <2>. HIDE DEF y
  <2>2. AnyOrder(more, R, f)
    BY <1>5, <1>7, FoldAnyOrder
  <2>3. f[R] = more[y].amount + f[R \ {y}]
    BY <2>1, <2>2 DEF AnyOrder
  <2>. QED  BY <2>1, <2>3 DEF y
<1>12. g[S] = f[S]
  BY <1>5, <1>7, <1>8, FoldUnique
<1>13. f[S] \in Int /\ row.amount \in Int
  BY <1>2, <1>5, <1>7
<1>14. RowSum(more) = row.amount + RowSum(rows) /\ RowSum(rows) \in Int
  BY <1>1, <1>9, <1>10, <1>11, <1>12, <1>13
<1>15. RowSum(more) = RowSum(rows) + row.amount
  BY <1>13, <1>14
<1>. QED  BY <1>14, <1>15 DEF more

(* The audited sum is this sum, in this state and in the next. *)
LEMMA LedgerBalanceIsSum ==
    \A u : LedgerBalance(u) = RowSum(ledger[u]) /\ LedgerBalance(u)' = RowSum(ledger'[u])
BY DEF LedgerBalance, FoldSeq, FoldFunction, FoldFunctionOnSet, MapThenFoldSet, Fold, RowSum

(* The sum of a sequence of rows is an integer. *)
LEMMA SumIsInteger ==
    ASSUME NEW rows \in Seq(Row)
    PROVE  RowSum(rows) \in Int
<1>. DEFINE S == DOMAIN rows
            g == CHOOSE g : g = Fold(rows, S, g)
<1>1. IsFiniteSet(S) /\ \A i \in S : rows[i].amount \in Int
  <2>1. S = 1..Len(rows) /\ Len(rows) \in Nat /\ \A i \in 1..Len(rows) : rows[i] \in Row
    OBVIOUS
  <2>2. IsFiniteSet(1..Len(rows))
    BY <2>1, FS_Interval
  <2>. QED  BY <2>1, <2>2 DEF Row
<1>2. RowSum(rows) = g[S]
  BY DEF RowSum
<1>. HIDE DEF S
<1>3. PICK f \in [SUBSET S -> Int] : f = Fold(rows, S, f)
  BY <1>1, FoldExists
<1>4. g = Fold(rows, S, g)
  BY <1>3
<1>. HIDE DEF g
<1>5. g[S] = f[S]
  BY <1>1, <1>3, <1>4, FoldUnique
<1>. QED  BY <1>2, <1>3, <1>5

-----------------------------------------------------------------------------
(* An INSERT adds its amount to its user's sum and leaves the others alone. *)
LEMMA InsertSum ==
    ASSUME NEW table \in Tables, NEW u \in Users, NEW row \in Row
    PROVE  LET t == Insert(table, u, row) IN
           /\ t \in Tables
           /\ RowSum(t[u]) = RowSum(table[u]) + row.amount
           /\ \A v \in Users : v # u => RowSum(t[v]) = RowSum(table[v])
<1>. DEFINE t == Insert(table, u, row)
<1>1. table[u] \in Seq(Row) /\ t[u] = Append(table[u], row)
  BY DEF Insert, Tables
<1>2. t \in Tables /\ \A v \in Users : v # u => t[v] = table[v]
  BY InsertShape
<1>3. RowSum(Append(table[u], row)) = RowSum(table[u]) + row.amount
  BY <1>1, SumOfAppend
<1>. QED  BY <1>1, <1>2, <1>3

(* A settlement moves the sum as it moves the balance, whichever rows it writes. *)
LEMMA SettlementSum ==
    ASSUME NEW u \in Users, NEW r \in Requests, NEW c \in Int, NEW l \in Int,
           NEW x \in Requests \cup ClientKeys, ledger \in Tables, balance[u] \in Nat
    PROVE  LET t == AfterSettlement(u, r, c, l, x) IN
           /\ t \in Tables
           /\ RowSum(t[u]) = RowSum(ledger[u]) - Moved(c) + Moved(l)
           /\ \A v \in Users : v # u => RowSum(t[v]) = RowSum(ledger[v])
<1>. DEFINE cap == CaptureRow(u, r, c, x)
            rel == ReleaseRow(u, r, c, l, x)
            t1 == InsertIf(c > 0, ledger, u, cap)
            t == InsertIf(l > 0, t1, u, rel)
<1>0. /\ Moved(c) \in Nat /\ Moved(c) = (IF c > 0 THEN c ELSE 0)
      /\ Moved(l) \in Nat /\ Moved(l) = (IF l > 0 THEN l ELSE 0)
  BY DEF Moved
<1>1. cap \in Row /\ cap.amount = -c /\ rel \in Row /\ rel.amount = l
  BY <1>0 DEF CaptureRow, ReleaseRow, Row, IdemKeys
<1>2. RowSum(ledger[u]) \in Int
  BY SumIsInteger DEF Tables
<1>. HIDE DEF cap, rel
<1>3. /\ t1 \in Tables /\ RowSum(t1[u]) = RowSum(ledger[u]) - Moved(c)
      /\ \A v \in Users : v # u => RowSum(t1[v]) = RowSum(ledger[v])
  <2>1. CASE c > 0
    <3>1. t1 = Insert(ledger, u, cap)
      BY <2>1 DEF InsertIf
    <3>2. /\ t1 \in Tables /\ RowSum(t1[u]) = RowSum(ledger[u]) + cap.amount
          /\ \A v \in Users : v # u => RowSum(t1[v]) = RowSum(ledger[v])
      BY <1>1, <3>1, InsertSum
    <3>. QED  BY <1>0, <1>1, <1>2, <2>1, <3>2
  <2>2. CASE ~(c > 0)
    BY <1>0, <1>2, <2>2 DEF InsertIf
  <2>. QED  BY <2>1, <2>2
<1>4. RowSum(t1[u]) \in Int
  BY <1>3, SumIsInteger DEF Tables
<1>. HIDE DEF t1
<1>5. /\ t \in Tables /\ RowSum(t[u]) = RowSum(t1[u]) + Moved(l)
      /\ \A v \in Users : v # u => RowSum(t[v]) = RowSum(t1[v])
  <2>1. CASE l > 0
    <3>1. t = Insert(t1, u, rel)
      BY <2>1 DEF InsertIf
    <3>. QED  BY <1>0, <1>1, <1>3, <2>1, <3>1, InsertSum
  <2>2. CASE ~(l > 0)
    BY <1>0, <1>3, <1>4, <2>2 DEF InsertIf
  <2>. QED  BY <2>1, <2>2
<1>6. t = AfterSettlement(u, r, c, l, x)
  BY DEF AfterSettlement, t1, cap, rel
<1>. HIDE DEF t
<1>. QED  BY <1>0, <1>2, <1>3, <1>4, <1>5, <1>6

(***************************************************************************)
(* The part of the store the audits read: its types, and the difference    *)
(* between a balance and the sum of its rows.                              *)
(***************************************************************************)
Accounts == balance \in [Users -> Nat] /\ ledger \in Tables

(* Balance and sum of every user move together. *)
MoveTogether ==
    /\ balance' \in [Users -> Nat] /\ ledger' \in Tables
    /\ \A v \in Users : balance'[v] - RowSum(ledger'[v]) = balance[v] - RowSum(ledger[v])

(* A method that inserts one row and moves the balance by its amount. *)
LEMMA OneRowMoves ==
    ASSUME Accounts, NEW u \in Users, NEW row \in Row, NEW b \in Nat,
           b = balance[u] + row.amount,
           balance' = [balance EXCEPT ![u] = b], ledger' = Insert(ledger, u, row)
    PROVE  MoveTogether
<1>1. /\ ledger' \in Tables
      /\ RowSum(ledger'[u]) = RowSum(ledger[u]) + row.amount
      /\ \A v \in Users : v # u => RowSum(ledger'[v]) = RowSum(ledger[v])
  BY InsertSum DEF Accounts
<1>2. \A v \in Users : RowSum(ledger[v]) \in Int
  BY SumIsInteger DEF Accounts, Tables
<1>3. row.amount \in Int
  BY DEF Row
<1>4. balance' \in [Users -> Nat] /\ balance'[u] = b /\ \A v \in Users : v # u => balance'[v] = balance[v]
  BY DEF Accounts
<1>5. balance'[u] - RowSum(ledger'[u]) = balance[u] - RowSum(ledger[u])
  BY <1>1, <1>2, <1>3, <1>4 DEF Accounts
<1>6. \A v \in Users : v # u => balance'[v] - RowSum(ledger'[v]) = balance[v] - RowSum(ledger[v])
  BY <1>1, <1>4
<1>. QED  BY <1>1, <1>4, <1>5, <1>6 DEF MoveTogether

(* Every method of the store moves the balance and the sum together. *)
LEMMA StoreMoves ==
    ASSUME Accounts, [StoreNext]_storeVars
    PROVE  MoveTogether
<1>. USE AmountsAreIntegers
<1>1. ASSUME NEW u \in Users, NEW a \in Amounts, NEW k \in DepositKeys,
             DepositCredits(u, a, k)
      PROVE  MoveTogether
  <2>. DEFINE row == [type |-> "deposit", amount |-> a, after |-> balance[u] + a,
                      ref |-> NoKey, key |-> <<"deposit", k>>]
  <2>1. row \in Row /\ balance[u] + a \in Nat /\ balance[u] + a = balance[u] + row.amount
    BY <1>1 DEF Accounts, Row, IdemKeys, DepositCredits
  <2>2. balance' = [balance EXCEPT ![u] = balance[u] + a] /\ ledger' = Insert(ledger, u, row)
    BY <1>1 DEF DepositCredits
  <2>. HIDE DEF row
  <2>. QED  BY <2>1, <2>2, OneRowMoves
<1>2. ASSUME NEW u \in Users, NEW a \in Amounts, NEW r \in Requests,
             NEW x \in Requests \cup ClientKeys, ApplyHold(u, a, r, <<"hold", x>>)
      PROVE  MoveTogether
  <2>. DEFINE row == [type |-> "hold", amount |-> -a, after |-> balance[u] - a,
                      ref |-> r, key |-> <<"hold", x>>]
  <2>1. row \in Row
    BY DEF Accounts, Row, IdemKeys
  <2>2. balance[u] - a \in Nat /\ balance[u] - a = balance[u] + row.amount
    BY <1>2 DEF Accounts, ApplyHold, ApplyHoldOK
  <2>3. balance' = [balance EXCEPT ![u] = balance[u] - a] /\ ledger' = Insert(ledger, u, row)
    BY <1>2 DEF ApplyHold
  <2>. HIDE DEF row
  <2>. QED  BY <2>1, <2>2, <2>3, OneRowMoves
<1>3. ASSUME NEW u \in Users, NEW r \in Requests, NEW c \in Amounts, NEW l \in Amounts,
             NEW s \in Statuses, NEW k \in ClientKeys \cup {NoKey},
             CaptureAndRelease(u, r, c, l, s, k)
      PROVE  MoveTogether
  <2>. DEFINE x == KeySuffix(r, k)
  <2>1. x \in Requests \cup ClientKeys /\ balance[u] \in Nat /\ ledger \in Tables
        /\ c \in Int /\ l \in Int /\ Moved(c) \in Nat /\ Moved(l) \in Nat
    BY DEF KeySuffix, Accounts, Moved
  <2>2. ledger' = AfterSettlement(u, r, c, l, x)
    BY <1>3 DEF CaptureAndRelease
  <2>. HIDE DEF x
  <2>3. /\ ledger' \in Tables
        /\ RowSum(ledger'[u]) = RowSum(ledger[u]) - Moved(c) + Moved(l)
        /\ \A v \in Users : v # u => RowSum(ledger'[v]) = RowSum(ledger[v])
    BY <2>1, <2>2, SettlementSum
  <2>4. /\ balance' = [balance EXCEPT ![u] = @ - Moved(c) + Moved(l)]
        /\ balance[u] - Moved(c) + Moved(l) >= 0
    BY <1>3 DEF CaptureAndRelease, CaptureAndReleaseOK
  <2>5. /\ balance' \in [Users -> Nat] /\ balance'[u] = balance[u] - Moved(c) + Moved(l)
        /\ \A v \in Users : v # u => balance'[v] = balance[v]
    BY <2>1, <2>4 DEF Accounts
  <2>6. RowSum(ledger[u]) \in Int
    BY <2>1, SumIsInteger DEF Tables
  <2>7. balance'[u] - RowSum(ledger'[u]) = balance[u] - RowSum(ledger[u])
    BY <2>1, <2>3, <2>5, <2>6
  <2>8. \A v \in Users : v # u => balance'[v] - RowSum(ledger'[v]) = balance[v] - RowSum(ledger[v])
    BY <2>3, <2>5
  <2>. QED  BY <2>3, <2>5, <2>7, <2>8 DEF MoveTogether
<1>4. CASE UNCHANGED <<balance, ledger>>
  BY <1>4 DEF MoveTogether, Accounts
<1>. QED
  BY <1>1, <1>2, <1>3, <1>4 DEF StoreNext, CreateMeteringSession, CreateUsageLog,
     SessionExpires, DeleteMeteringSession, storeVars

(***************************************************************************)
(* What a caller of LedgerBalance reads: with no audit at work the stored  *)
(* balance is the sum of all the user's ledger rows, whatever transactions *)
(* of store.go interleave.                                                 *)
(***************************************************************************)
THEOREM BalanceIsLedgerSum ==
    StoreSpec => [](\A u \in Users : balance[u] = LedgerBalance(u))
<1>. DEFINE Even == Accounts /\ \A u \in Users : balance[u] = RowSum(ledger[u])
<1>1. StoreInit => Even
  BY SumOfNone DEF StoreInit, Accounts, Tables
<1>2. Even /\ [StoreNext]_storeVars => Even'
  <2>. SUFFICES ASSUME Even, [StoreNext]_storeVars PROVE Even'
    OBVIOUS
  <2>1. MoveTogether
    BY StoreMoves
  <2>2. \A v \in Users : /\ balance[v] \in Int /\ balance'[v] \in Int
                         /\ RowSum(ledger[v]) \in Int /\ RowSum(ledger'[v]) \in Int
    BY <2>1, SumIsInteger DEF Accounts, MoveTogether, Tables
  <2>3. \A v \in Users : balance'[v] = RowSum(ledger'[v])
    BY <2>1, <2>2 DEF MoveTogether
  <2>. QED  BY <2>1, <2>3 DEF MoveTogether, Accounts, Tables
<1>3. Even => \A u \in Users : balance[u] = LedgerBalance(u)
  BY LedgerBalanceIsSum
<1>. HIDE DEF Even
<1>. QED  BY <1>1, <1>2, <1>3, PTL DEF StoreSpec

-----------------------------------------------------------------------------
AuditNames == {"hourly", "cli"}
AuditRow == [step : {"idle", "sum", "fix", "publish"}, todo : SUBSET Users,
             read : [Users -> Int], user : Users \cup {NoKey}, value : Int]

(***************************************************************************)
(* The inductive invariant: only an audit that runs leaves "idle", and     *)
(* only one entitled to repair is ever about to write.                     *)
(***************************************************************************)
ReconInv ==
    /\ Accounts
    /\ audit \in [AuditNames -> AuditRow]
    /\ \A a \in AuditNames :
          /\ audit[a].step # "idle" => a \in Audits
          /\ audit[a].step = "fix" => Fixes(a)

(* The fields of an idle audit. *)
LEMMA IdleFields ==
    /\ Idle \in AuditRow /\ Idle.step = "idle" /\ Idle.user = NoKey /\ Idle.value = 0
    /\ Idle.read \in [Users -> Int]
BY DEF Idle, AuditRow

(* An audit that starts with a set of users and the balances it has read. *)
LEMMA StartedRow ==
    ASSUME NEW old \in AuditRow, NEW todo \in SUBSET Users, NEW read \in [Users -> Int]
    PROVE  LET row == [old EXCEPT !.step = "sum", !.todo = todo, !.read = read]
           IN  row \in AuditRow /\ row.step = "sum"
BY DEF AuditRow

(* A state of the audit that Done or Goto makes of a's. *)
LEMMA AuditMoves ==
    ASSUME ReconInv, NEW a \in AuditNames, NEW u \in Users, audit[a].step # "idle",
           autoFix' = autoFix, balance' \in [Users -> Nat], ledger' \in Tables,
           \/ Done(a, u)
           \/ \E step \in {"fix", "publish"}, value \in Int :
                 Goto(a, step, u, value) /\ (step = "fix" => Fixes(a))
    PROVE  ReconInv'
<1>1. /\ Accounts' /\ \A b \in AuditNames : Fixes(b)' <=> Fixes(b)
      /\ audit \in [AuditNames -> AuditRow] /\ a \in Audits
  BY DEF ReconInv, Accounts, Tables, Fixes
<1>2. Idle \in AuditRow /\ Idle.step = "idle"
  BY IdleFields
<1>3. CASE Done(a, u)
  <2>. DEFINE rest == audit[a].todo \ {u}
              next == IF rest = {} THEN Idle
                      ELSE [audit[a] EXCEPT !.step = "sum", !.todo = rest, !.user = NoKey, !.value = 0]
  <2>1. audit' = [audit EXCEPT ![a] = next]
    BY <1>3 DEF Done
  <2>2. next \in AuditRow /\ next.step \in {"idle", "sum"}
    <3>1. CASE rest = {}
      BY <1>2, <3>1
    <3>2. CASE rest # {}
      <4>1. audit[a] \in AuditRow /\ rest \in SUBSET Users
        BY <1>1 DEF AuditRow
      <4>2. next = [step |-> "sum", todo |-> rest, read |-> audit[a].read, user |-> NoKey, value |-> 0]
        BY <3>2, <4>1 DEF AuditRow
      <4>. HIDE DEF rest, next
      <4>. QED  BY <4>1, <4>2 DEF AuditRow
    <3>. QED  BY <3>1, <3>2
  <2>. HIDE DEF next
  <2>. QED  BY <1>1, <2>1, <2>2 DEF ReconInv
<1>4. ASSUME NEW step \in {"fix", "publish"}, NEW value \in Int,
             Goto(a, step, u, value), step = "fix" => Fixes(a)
      PROVE  ReconInv'
  <2>. DEFINE next == [audit[a] EXCEPT !.step = step, !.user = u, !.value = value]
  <2>1. audit' = [audit EXCEPT ![a] = next]
    BY <1>1, <1>4 DEF Goto, AuditRow
  <2>2. next \in AuditRow /\ next.step = step
    BY <1>1 DEF AuditRow
  <2>. HIDE DEF next
  <2>. QED  BY <1>1, <1>4, <2>1, <2>2 DEF ReconInv
<1>. QED  BY <1>3, <1>4

(* The invariant holds before the first audit. *)
LEMMA ReconInitInv == ReconInit => ReconInv
BY IdleFields DEF ReconInit, StoreInit, ReconInv, Accounts, Tables, AuditNames

(***************************************************************************)
(* One step of an audit for one user: it keeps the invariant, and unless   *)
(* the audit is about to repair that user it leaves the balances alone.    *)
(***************************************************************************)
LEMMA AuditStepInv ==
    ASSUME ReconInv, NEW a \in AuditNames, NEW u \in Users, AuditStep(a, u)
    PROVE  /\ ReconInv'
           /\ ledger' = ledger
           /\ balance' # balance => /\ Repairing(u)
                                    /\ \A v \in Users : v # u => balance'[v] = balance[v]
<1>1. /\ audit[a] \in AuditRow /\ balance \in [Users -> Nat] /\ ledger \in Tables
      /\ audit[a].step = "fix" => Fixes(a) /\ a \in Audits
      /\ audit[a].value \in Int /\ audit[a].read[u] \in Int
  BY DEF ReconInv, Accounts, AuditRow
<1>2. LedgerBalance(u) \in Int
  BY <1>1, LedgerBalanceIsSum, SumIsInteger DEF Tables
<1>3. CASE Compare(a, u)
  <2>1. audit[a].step # "idle" /\ autoFix' = autoFix /\ balance' = balance /\ ledger' = ledger
    BY <1>3 DEF Compare, storeVars
  <2>2. CASE Done(a, u)
    BY <1>1, <2>1, <2>2, AuditMoves
  <2>3. CASE Fixes(a) /\ Goto(a, "fix", u, LedgerBalance(u))
    BY <1>1, <1>2, <2>1, <2>3, AuditMoves
  <2>4. CASE Goto(a, "publish", u, audit[a].read[u])
    BY <1>1, <2>1, <2>4, AuditMoves
  <2>. QED  BY <1>3, <2>1, <2>2, <2>3, <2>4 DEF Compare
<1>4. CASE Fix(a, u)
  <2>1. /\ audit[a].step = "fix" /\ audit[a].step # "idle" /\ audit[a].user = u /\ autoFix' = autoFix
        /\ Repairing(u)
    BY <1>1, <1>4 DEF Fix, Repairing, Fixes
  <2>2. CASE /\ SetUserBalanceFromLedger(u, audit[a].value)
             /\ Goto(a, "publish", u, audit[a].value)
    <3>1. /\ balance' \in [Users -> Nat] /\ ledger' = ledger
          /\ \A v \in Users : v # u => balance'[v] = balance[v]
      BY <1>1, <2>2 DEF SetUserBalanceFromLedger
    <3>. QED  BY <1>1, <2>1, <2>2, <3>1, AuditMoves
  <2>3. CASE Done(a, u) /\ UNCHANGED storeVars
    BY <1>1, <2>1, <2>3, AuditMoves DEF storeVars
  <2>. QED  BY <1>4, <2>2, <2>3 DEF Fix
<1>5. CASE Publish(a, u)
  <2>1. /\ audit[a].step # "idle" /\ autoFix' = autoFix /\ balance' = balance /\ ledger' = ledger
        /\ Done(a, u)
    BY <1>5 DEF Publish, storeVars
  <2>. QED  BY <1>1, <2>1, AuditMoves
<1>6. CASE audit[a].step \in {"sum", "fix"} /\ StatementFails(a, u)
  <2>1. /\ audit[a].step # "idle" /\ autoFix' = autoFix /\ balance' = balance /\ ledger' = ledger
        /\ Done(a, u)
    BY <1>6 DEF StatementFails, storeVars
  <2>. QED  BY <1>1, <2>1, AuditMoves
<1>. QED  BY <1>3, <1>4, <1>5, <1>6 DEF AuditStep

(* An audit that starts reads balances and changes nothing else. *)
LEMMA StartInv ==
    ASSUME ReconInv, StartHourly \/ \E u \in Users : StartCLI(u)
    PROVE  ReconInv' /\ ledger' = ledger /\ balance' = balance
<1>1. audit \in [AuditNames -> AuditRow] /\ balance \in [Users -> Nat]
  BY DEF ReconInv, Accounts
<1>2. ASSUME NEW a \in Audits \cap AuditNames, NEW row \in AuditRow, row.step = "sum",
             audit' = [audit EXCEPT ![a] = row], UNCHANGED <<storeVars, cached, autoFix, errors>>
      PROVE  ReconInv' /\ ledger' = ledger /\ balance' = balance
  <2>1. balance' = balance /\ ledger' = ledger /\ autoFix' = autoFix
    BY <1>2 DEF storeVars
  <2>2. audit' \in [AuditNames -> AuditRow] /\ audit'[a] = row
        /\ \A b \in AuditNames : b # a => audit'[b] = audit[b]
    BY <1>1, <1>2
  <2>3. \A b \in AuditNames : Fixes(b)' <=> Fixes(b)
    BY <2>1 DEF Fixes
  <2>. QED  BY <1>2, <2>1, <2>2, <2>3 DEF ReconInv, Accounts
<1>3. CASE StartHourly
  <2>. DEFINE row == [Idle EXCEPT !.step = "sum", !.todo = Users, !.read = balance]
  <2>1. row \in AuditRow /\ row.step = "sum"
    <3>1. balance \in [Users -> Int]
      BY <1>1
    <3>. QED  BY <3>1, IdleFields, StartedRow
  <2>2. /\ "hourly" \in Audits \cap AuditNames /\ audit' = [audit EXCEPT !["hourly"] = row]
        /\ UNCHANGED <<storeVars, cached, autoFix, errors>>
    BY <1>3 DEF StartHourly, AuditNames
  <2>. HIDE DEF row
  <2>. QED  BY <1>2, <2>1, <2>2
<1>4. ASSUME NEW u \in Users, StartCLI(u) PROVE ReconInv' /\ ledger' = ledger /\ balance' = balance
  <2>. DEFINE row == [Idle EXCEPT !.step = "sum", !.todo = {u}, !.read[u] = balance[u]]
              seen == [Idle.read EXCEPT ![u] = balance[u]]
  <2>1. row \in AuditRow /\ row.step = "sum"
    <3>1. row = [Idle EXCEPT !.step = "sum", !.todo = {u}, !.read = seen]
      OBVIOUS
    <3>2. seen \in [Users -> Int]
      BY <1>1, IdleFields
    <3>3. Idle \in AuditRow /\ {u} \in SUBSET Users
      BY IdleFields
    <3>. DEFINE todo == {u}
    <3>. HIDE DEF seen, row, todo
    <3>4. [Idle EXCEPT !.step = "sum", !.todo = todo, !.read = seen] \in AuditRow
          /\ [Idle EXCEPT !.step = "sum", !.todo = todo, !.read = seen].step = "sum"
      BY <3>2, <3>3, StartedRow DEF todo
    <3>. QED  BY <3>1, <3>4 DEF todo
  <2>2. /\ "cli" \in Audits \cap AuditNames /\ audit' = [audit EXCEPT !["cli"] = row]
        /\ UNCHANGED <<storeVars, cached, autoFix, errors>>
    BY <1>4 DEF StartCLI, AuditNames
  <2>. HIDE DEF row
  <2>. QED  BY <1>2, <2>1, <2>2
<1>. QED  BY <1>3, <1>4

(* A store transaction beside the audits is a step of the store. *)
LEMMA TransactionIsStoreStep ==
    ASSUME Transaction
    PROVE  StoreNext
<1>1. "completed" \in Statuses /\ NoKey \in ClientKeys \cup {NoKey}
  BY DEF Statuses
<1>. QED  BY <1>1 DEF Transaction, StoreNext

(* No step makes a user drift unless an audit is about to repair that user. *)
NoNewDrift ==
    \A u \in Users : ~Drift(u) /\ Drift(u)' => Repairing(u)

(* Every step keeps the invariant and makes no drift but by a repair. *)
LEMMA ReconStepInv ==
    ASSUME ReconInv, [ReconNext]_reconVars
    PROVE  ReconInv' /\ NoNewDrift
<1>1. \A v \in Users : /\ Drift(v) <=> balance[v] # RowSum(ledger[v])
                       /\ Drift(v)' <=> balance'[v] # RowSum(ledger'[v])
  BY LedgerBalanceIsSum DEF Drift
<1>2. balance' = balance /\ ledger' = ledger => NoNewDrift
  BY <1>1 DEF NoNewDrift
<1>3. CASE Transaction /\ UNCHANGED auditVars
  <2>1. MoveTogether
    BY <1>3, TransactionIsStoreStep, StoreMoves DEF ReconInv
  <2>2. \A v \in Users : /\ balance[v] \in Int /\ balance'[v] \in Int
                         /\ RowSum(ledger[v]) \in Int /\ RowSum(ledger'[v]) \in Int
    BY <2>1, SumIsInteger DEF ReconInv, Accounts, MoveTogether, Tables
  <2>3. \A v \in Users : balance[v] = RowSum(ledger[v]) => balance'[v] = RowSum(ledger'[v])
    BY <2>1, <2>2 DEF MoveTogether
  <2>4. ReconInv'
    BY <1>3, <2>1 DEF ReconInv, MoveTogether, Accounts, Tables, auditVars, Fixes
  <2>. QED  BY <1>1, <2>3, <2>4 DEF NoNewDrift
<1>4. CASE StartHourly \/ \E u \in Users : StartCLI(u)
  BY <1>2, <1>4, StartInv
<1>5. ASSUME NEW a \in AuditNames, NEW u \in Users, AuditStep(a, u)
      PROVE  ReconInv' /\ NoNewDrift
  <2>1. /\ ReconInv' /\ ledger' = ledger
        /\ balance' # balance => /\ Repairing(u)
                                 /\ \A v \in Users : v # u => balance'[v] = balance[v]
    BY <1>5, AuditStepInv
  <2>. QED  BY <1>1, <2>1 DEF NoNewDrift
<1>6. CASE UNCHANGED reconVars
  BY <1>2, <1>6 DEF reconVars, storeVars, auditVars, ReconInv, Accounts, Tables, Fixes
<1>. QED
  BY <1>3, <1>4, <1>5, <1>6 DEF ReconNext, Hourly, CLI, AuditNames

(***************************************************************************)
(* A drift appears only when an audit that is entitled to repair           *)
(* overwrites the balance it compared earlier; the store's transactions    *)
(* and the report-only job never cause one.                                *)
(***************************************************************************)
THEOREM RepairsCauseDrift == ReconSpec => DriftOnlyByRepair
<1>1. ReconInv /\ [ReconNext]_reconVars => ReconInv'
  BY ReconStepInv
<1>2. ReconInv /\ [ReconNext]_reconVars =>
        [\A u \in Users : ~Drift(u) /\ Drift(u)' => Repairing(u)]_reconVars
  BY ReconStepInv DEF NoNewDrift
<1>. QED  BY <1>1, <1>2, ReconInitInv, PTL DEF ReconSpec, DriftOnlyByRepair

(***************************************************************************)
(* With RECONCILE_AUTO_FIX off and no operator at work the ledger sum is   *)
(* the balance in every state, whatever the hourly job reports.            *)
(***************************************************************************)
THEOREM ReportOnlyKeepsBalances ==
    "cli" \notin Audits => (ReconSpec => [](autoFix \/ \A u \in Users : ~Drift(u)))
<1>. SUFFICES ASSUME "cli" \notin Audits
              PROVE  ReconSpec => [](autoFix \/ \A u \in Users : ~Drift(u))
  OBVIOUS
<1>. DEFINE Even == ReconInv /\ (autoFix \/ \A u \in Users : ~Drift(u))
<1>1. ReconInit => Even
  <2>1. ReconInit => \A u \in Users : ~Drift(u)
    BY SumOfNone, LedgerBalanceIsSum DEF ReconInit, StoreInit, Drift
  <2>. QED  BY <2>1, ReconInitInv
<1>2. Even /\ [ReconNext]_reconVars => Even'
  <2>. SUFFICES ASSUME Even, [ReconNext]_reconVars PROVE Even'
    OBVIOUS
  <2>1. ReconInv' /\ NoNewDrift
    BY ReconStepInv
  <2>2. autoFix' = autoFix
    BY DEF ReconNext, auditVars, Hourly, CLI, StartHourly, StartCLI, AuditStep, Compare, Fix,
           Publish, StatementFails, reconVars
  <2>3. ~autoFix => \A u \in Users : ~Repairing(u)
    BY DEF Repairing
  <2>. QED  BY <2>1, <2>2, <2>3 DEF NoNewDrift
<1>3. Even => autoFix \/ \A u \in Users : ~Drift(u)
  OBVIOUS
<1>. HIDE DEF Even
<1>. QED  BY <1>1, <1>2, <1>3, PTL DEF ReconSpec
=============================================================================
