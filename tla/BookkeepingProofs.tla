-------------------------- MODULE BookkeepingProofs --------------------------
(***************************************************************************)
(* The books and the reports, for any number of sales, expenses, requests  *)
(* and readers.  Every document that is there has exactly the entries its  *)
(* row calls for with some total, which is that of the row unless an edit  *)
(* worked from a copy that was out of date.  The invariant adds what a     *)
(* request may rely on between its lock and its commit: the row it has     *)
(* read is still the row, and the accounts it found missing complete the   *)
(* chart, whoever else has completed it meanwhile.  Numbers given by the   *)
(* shop never collide.  And the sums a report reads are those of columns   *)
(* of the books, since one entry of each document is picked.               *)
(***************************************************************************)
EXTENDS Reports, FiniteSetTheorems, FunctionTheorems, SequenceTheorems, WellFoundedInduction, TLAPS

-----------------------------------------------------------------------------
(* Sums, and the largest number in use.                                     *)

(* The smaller number comes first, well-founded on the naturals.            *)
Below == {p \in Nat \X Nat : p[1] < p[2]}

LEMMA BelowIsWellFounded == IsWellFoundedOn(Below, Nat)
BY NatLessThanWellFounded DEF OpToRel, Below

(* A finite set of numbers has a largest one.                               *)
LEMMA LargestNumber ==
    ASSUME NEW S, S \subseteq Nat, IsFiniteSet(S), S # {}
    PROVE  \E m \in S : \A k \in S : m >= k
<1> DEFINE Above(m) == {k \in S : k > m}
           Ranks == {Cardinality(Above(m)) : m \in S}
<1>1. ASSUME NEW m \in S
      PROVE  IsFiniteSet(Above(m)) /\ Cardinality(Above(m)) \in Nat
  <2>1. Above(m) \in SUBSET S
    OBVIOUS
  <2> QED
    BY <2>1, FS_Subset, FS_CardinalityType
<1>2. Ranks \subseteq Nat /\ Ranks # {}
  BY <1>1
<1> HIDE DEF Ranks
<1>3. PICK rank \in Ranks : \A y \in Ranks : ~(<<y, rank>> \in Below)
  BY <1>2, BelowIsWellFounded, WFMin
<1>4. \A y \in Ranks : ~(y < rank)
  BY <1>2, <1>3 DEF Below
<1>5. PICK m \in S : rank = Cardinality(Above(m))
  BY DEF Ranks
<1>6. ASSUME NEW k \in S, ~(m >= k)
      PROVE  FALSE
  <2>1. m \in Nat /\ k \in Nat /\ k > m
    BY <1>6
  <2>2. Above(k) \in SUBSET Above(m) /\ k \in Above(m) /\ k \notin Above(k)
    <3>1. \A z \in S : z \in Nat /\ (z > k => z > m)
      BY <2>1
    <3>2. k > m /\ ~(k > k)
      BY <2>1
    <3> QED
      BY <3>1, <3>2
  <2>3. Cardinality(Above(k)) <= Cardinality(Above(m)) /\ Above(k) # Above(m)
    BY <1>1, <2>2, FS_Subset
  <2>4. Cardinality(Above(k)) # Cardinality(Above(m))
    BY <1>1, <2>2, <2>3, FS_Subset
  <2>5. Cardinality(Above(k)) \in Ranks
    BY DEF Ranks
  <2>6. Cardinality(Above(k)) \in Nat /\ Cardinality(Above(m)) \in Nat
    BY <1>1
  <2> HIDE DEF Above
  <2> QED
    BY <1>4, <1>5, <2>3, <2>4, <2>5, <2>6
<1> QED
  BY <1>6

(* The values of a column are finitely many.                                *)
LEMMA ColumnIsFinite ==
    ASSUME NEW S, IsFiniteSet(S), NEW f
    PROVE  IsFiniteSet({f[x] : x \in S})
<1> DEFINE T == {f[x] : x \in S}
           g == [x \in S |-> f[x]]
<1>1. g \in [S -> T] /\ \A t \in T : \E x \in S : g[x] = t
  OBVIOUS
<1> HIDE DEF g, T
<1>2. g \in Surjection(S, T)
  BY <1>1, Fun_IsSurj
<1>3. IsFiniteSet(T)
  BY <1>2, FS_Surjection
<1> QED
  BY <1>3 DEF T

(* A unit of money and its row.                                             *)
LEMMA OneUnit ==
    ASSUME NEW f, NEW S, NEW u
    PROVE  u \in Units(f, S) <=>
              u = <<u[1], u[2]>> /\ u[1] \in S /\ u[2] \in 1 .. f[u[1]]
BY DEF Units

(* The sum of finitely many amounts is a natural number.                    *)
LEMMA SumType ==
    ASSUME NEW f, NEW S, IsFiniteSet(S), \A x \in S : f[x] \in Nat
    PROVE  IsFiniteSet(Units(f, S)) /\ SumOf(f, S) \in Nat
<1> DEFINE column == {f[x] : x \in S}
<1>1. IsFiniteSet(column) /\ column \subseteq Nat
  BY ColumnIsFinite
<1>2. PICK n \in Nat : \A k \in column : n >= k
  <2>1. CASE column = {}
    BY <2>1
  <2>2. CASE column # {}
    <3> HIDE DEF column
    <3> QED
      BY <1>1, <2>2, LargestNumber
  <2> QED
    BY <2>1, <2>2
<1>3. IsFiniteSet(1 .. n)
  BY FS_Interval
<1>4. IsFiniteSet(S \X (1 .. n))
  BY <1>3, FS_Product
<1>5. Units(f, S) \in SUBSET (S \X (1 .. n))
  <2> SUFFICES ASSUME NEW u \in Units(f, S)
               PROVE  u \in S \X (1 .. n)
    OBVIOUS
  <2>1. u = <<u[1], u[2]>> /\ u[1] \in S /\ u[2] \in 1 .. f[u[1]]
    BY OneUnit
  <2>2. n >= f[u[1]] /\ f[u[1]] \in Nat
    BY <1>2, <2>1
  <2>3. u[2] \in 1 .. n
    BY <2>1, <2>2
  <2> QED
    BY <2>1, <2>3
<1>6. IsFiniteSet(Units(f, S))
  BY <1>4, <1>5, FS_Subset
<1> QED
  BY <1>6, FS_CardinalityType DEF SumOf

(* Nothing sums to nothing.                                                 *)
LEMMA SumOfNothing ==
    ASSUME NEW f
    PROVE  SumOf(f, {}) = 0
<1>1. Units(f, {}) = {}
  BY DEF Units
<1> QED
  BY <1>1, FS_EmptySet DEF SumOf

(* A sum depends on the column of the rows summed and on nothing else.      *)
LEMMA SumOfSame ==
    ASSUME NEW f, NEW g, NEW S, \A x \in S : f[x] = g[x]
    PROVE  SumOf(f, S) = SumOf(g, S)
<1>1. Units(f, S) = Units(g, S)
  BY DEF Units
<1> QED
  BY <1>1 DEF SumOf

(* The sum over two disjoint sets of rows is the sum of the two sums.       *)
LEMMA SumOfTwo ==
    ASSUME NEW f, NEW S, NEW T, IsFiniteSet(S), IsFiniteSet(T), S \cap T = {},
           \A x \in S \cup T : f[x] \in Nat
    PROVE  SumOf(f, S \cup T) = SumOf(f, S) + SumOf(f, T)
<1>1. Units(f, S \cup T) = Units(f, S) \cup Units(f, T)
  BY DEF Units
<1>2. Units(f, S) \cap Units(f, T) = {}
  <2> SUFFICES ASSUME NEW u \in Units(f, S), u \in Units(f, T)
               PROVE  FALSE
    OBVIOUS
  <2> QED
    BY OneUnit
<1>3. IsFiniteSet(Units(f, S)) /\ IsFiniteSet(Units(f, T))
  BY SumType
<1>4. Cardinality({}) = 0
  BY FS_EmptySet
<1>5. Cardinality(Units(f, S) \cup Units(f, T))
        = Cardinality(Units(f, S)) + Cardinality(Units(f, T)) - 0
  BY <1>2, <1>3, <1>4, FS_Union
<1>6. Cardinality(Units(f, S)) \in Nat /\ Cardinality(Units(f, T)) \in Nat
  BY <1>3, FS_CardinalityType
<1>7. Cardinality(Units(f, S) \cup Units(f, T))
        = Cardinality(Units(f, S)) + Cardinality(Units(f, T))
  BY <1>5, <1>6
<1> QED
  BY <1>1, <1>7 DEF SumOf

(* A bijection of the units keeps the sum.                                  *)
LEMMA SameUnits ==
    ASSUME NEW f, NEW S, NEW g, NEW T, IsFiniteSet(Units(f, S)),
           NEW F \in [Units(f, S) -> Units(g, T)],
           \A u, v \in Units(f, S) : F[u] = F[v] => u = v,
           \A w \in Units(g, T) : \E u \in Units(f, S) : F[u] = w
    PROVE  SumOf(f, S) = SumOf(g, T)
<1>1. F \in Bijection(Units(f, S), Units(g, T))
  BY Fun_IsBij
<1>2. ExistsBijection(Units(f, S), Units(g, T))
  BY <1>1 DEF ExistsBijection
<1> QED
  BY <1>2, FS_Bijection DEF SumOf

(* Rows of amount zero add nothing.                                         *)
LEMMA SumOfNonzero ==
    ASSUME NEW f, NEW S, NEW T, T \subseteq S, \A x \in S \ T : f[x] = 0
    PROVE  SumOf(f, S) = SumOf(f, T)
<1>1. \A x \in S \ T : {x} \X (1 .. f[x]) = {}
  OBVIOUS
<1>2. Units(f, S) = Units(f, T)
  BY <1>1 DEF Units
<1> QED
  BY <1>2 DEF SumOf

(* Rows that correspond one to one, amount by amount, have the same sum.    *)
LEMMA SumOfPaired ==
    ASSUME NEW f, NEW S, NEW g, NEW T, IsFiniteSet(S), \A x \in S : f[x] \in Nat,
           NEW h, \A x \in S : h[x] \in T /\ g[h[x]] = f[x],
           \A x, y \in S : h[x] = h[y] => x = y,
           \A t \in T : \E x \in S : h[x] = t
    PROVE  SumOf(f, S) = SumOf(g, T)
<1> DEFINE F == [u \in Units(f, S) |-> <<h[u[1]], u[2]>>]
<1>1. IsFiniteSet(Units(f, S))
  BY SumType
<1>2. ASSUME NEW u \in Units(f, S)
      PROVE  F[u] = <<h[u[1]], u[2]>> /\ F[u] \in Units(g, T)
  <2>1. u[1] \in S /\ u[2] \in 1 .. f[u[1]]
    BY OneUnit
  <2>2. h[u[1]] \in T /\ u[2] \in 1 .. g[h[u[1]]]
    BY <2>1
  <2> DEFINE w == <<h[u[1]], u[2]>>
  <2>3. w \in Units(g, T)
    BY <2>2 DEF Units
  <2> QED
    BY <2>3
<1>3. F \in [Units(f, S) -> Units(g, T)]
  BY <1>2
<1>4. ASSUME NEW u \in Units(f, S), NEW v \in Units(f, S), F[u] = F[v]
      PROVE  u = v
  <2>1. h[u[1]] = h[v[1]] /\ u[2] = v[2]
    BY <1>2, <1>4
  <2> QED
    BY <2>1, OneUnit
<1>5. ASSUME NEW w \in Units(g, T)
      PROVE  \E u \in Units(f, S) : F[u] = w
  <2>1. w = <<w[1], w[2]>> /\ w[1] \in T /\ w[2] \in 1 .. g[w[1]]
    BY OneUnit
  <2>2. PICK x \in S : h[x] = w[1]
    BY <2>1
  <2>3. <<x, w[2]>> \in Units(f, S)
    BY <2>1, <2>2 DEF Units
  <2> QED
    BY <2>1, <2>2, <2>3
<1> HIDE DEF F
<1> QED
  BY <1>1, <1>3, <1>4, <1>5, SameUnits

(* The sum of two columns is the sum of their sums.                         *)
LEMMA SumOfColumns ==
    ASSUME NEW f, NEW g, NEW h, NEW S, IsFiniteSet(S),
           \A x \in S : f[x] \in Nat /\ g[x] \in Nat /\ h[x] = f[x] + g[x]
    PROVE  SumOf(h, S) = SumOf(f, S) + SumOf(g, S)
<1> DEFINE V == {u \in Units(h, S) : u[2] > f[u[1]]}
           F == [u \in Units(g, S) |-> <<u[1], f[u[1]] + u[2]>>]
<1>1. IsFiniteSet(Units(f, S)) /\ IsFiniteSet(Units(g, S)) /\ IsFiniteSet(Units(h, S))
  BY SumType
<1>2. ASSUME NEW u
      PROVE  u \in Units(h, S) <=> u \in Units(f, S) \/ u \in V
  <2>1. u \in Units(h, S) <=> u = <<u[1], u[2]>> /\ u[1] \in S /\ u[2] \in 1 .. h[u[1]]
    BY OneUnit
  <2>2. u \in Units(f, S) <=> u = <<u[1], u[2]>> /\ u[1] \in S /\ u[2] \in 1 .. f[u[1]]
    BY OneUnit
  <2> QED
    BY <2>1, <2>2
<1>3. Units(f, S) \cap V = {}
  <2> SUFFICES ASSUME NEW u \in Units(f, S), u \in V PROVE FALSE
    OBVIOUS
  <2>1. u[1] \in S /\ u[2] \in 1 .. f[u[1]]
    BY OneUnit
  <2> QED
    BY <2>1
<1>4. ASSUME NEW u \in Units(g, S)
      PROVE  F[u] = <<u[1], f[u[1]] + u[2]>> /\ F[u] \in V /\ u[1] \in S /\ u[2] \in Nat
  <2>1. u[1] \in S /\ u[2] \in 1 .. g[u[1]]
    BY OneUnit
  <2> DEFINE k == f[u[1]] + u[2]
             w == <<u[1], k>>
  <2>2. k \in 1 .. h[u[1]] /\ k > f[u[1]]
    BY <2>1
  <2>3. F[u] = w
    OBVIOUS
  <2> HIDE DEF k
  <2>4. w[1] = u[1] /\ w[2] = k /\ w \in Units(h, S)
    BY <2>1, <2>2, OneUnit
  <2> QED
    BY <2>1, <2>2, <2>3, <2>4 DEF k
<1>5. ASSUME NEW u \in Units(g, S), NEW v \in Units(g, S), F[u] = F[v]
      PROVE  u = v
  <2>1. u[1] = v[1] /\ f[u[1]] + u[2] = f[v[1]] + v[2]
    BY <1>4, <1>5
  <2> DEFINE n == f[u[1]]
             i == u[2]
             j == v[2]
  <2>2. n \in Nat /\ i \in Nat /\ j \in Nat /\ n + i = n + j
    BY <1>4, <2>1
  <2>3. u[2] = v[2]
    <3> HIDE DEF n, i, j
    <3>1. i = j
      BY <2>2
    <3> QED
      BY <3>1 DEF i, j
  <2> QED
    BY <2>1, <2>3, OneUnit
<1>6. ASSUME NEW w \in V
      PROVE  \E u \in Units(g, S) : F[u] = w
  <2>1. w = <<w[1], w[2]>> /\ w[1] \in S /\ w[2] \in 1 .. h[w[1]] /\ w[2] > f[w[1]]
    BY OneUnit
  <2> DEFINE k == w[2] - f[w[1]]
             u == <<w[1], k>>
  <2>2. k \in 1 .. g[w[1]] /\ f[w[1]] + k = w[2]
    BY <2>1
  <2> HIDE DEF k
  <2>3. u \in Units(g, S) /\ u[1] = w[1] /\ u[2] = k
    BY <2>1, <2>2, OneUnit
  <2>4. F[u] = <<w[1], f[w[1]] + k>>
    BY <2>3
  <2> QED
    BY <2>1, <2>2, <2>3, <2>4
<1> HIDE DEF V, F
<1>7. F \in Bijection(Units(g, S), V)
  <2>1. F \in [Units(g, S) -> V]
    BY <1>4 DEF F
  <2> QED
    BY <1>5, <1>6, <2>1, Fun_IsBij
<1>8. IsFiniteSet(V) /\ Cardinality(V) = Cardinality(Units(g, S))
  <2>1. ExistsBijection(Units(g, S), V)
    BY <1>7 DEF ExistsBijection
  <2> QED
    BY <1>1, <2>1, FS_Bijection
<1>9. Units(h, S) = Units(f, S) \cup V
  BY <1>2
<1>10. Cardinality(Units(f, S) \cup V) = Cardinality(Units(f, S)) + Cardinality(V) - Cardinality(Units(f, S) \cap V)
  BY <1>1, <1>8, FS_Union
<1>11. Cardinality(Units(f, S)) \in Nat /\ Cardinality(V) \in Nat /\ Cardinality({}) = 0
  BY <1>1, <1>8, FS_CardinalityType, FS_EmptySet
<1>12. Cardinality(Units(h, S)) = Cardinality(Units(f, S)) + Cardinality(Units(g, S))
  <2>1. Cardinality(Units(h, S)) = Cardinality(Units(f, S)) + Cardinality(V) - Cardinality({})
    BY <1>3, <1>9, <1>10
  <2>2. Cardinality(Units(h, S)) = Cardinality(Units(f, S)) + Cardinality(V)
    BY <1>11, <2>1
  <2> QED
    BY <1>8, <2>2
<1> QED
  BY <1>12 DEF SumOf

(* Rows grouped by what they belong to: the sum of the sums of the groups.  *)
LEMMA SumOfGroups ==
    ASSUME NEW f, NEW S, IsFiniteSet(S), \A x \in S : f[x] \in Nat,
           NEW g, NEW T, NEW home, \A x \in S : home[x] \in T,
           NEW part, \A t \in T : \A x : x \in part[t] <=> x \in S /\ home[x] = t,
           \A t \in T : g[t] = SumOf(f, part[t])
    PROVE  SumOf(f, S) = SumOf(g, T)
<1> DEFINE group(t) == Units(f, part[t])
           numbered(t, h) == /\ h \in [group(t) -> 1 .. g[t]]
                             /\ \A u, v \in group(t) : h[u] = h[v] => u = v
                             /\ \A k \in 1 .. g[t] : \E u \in group(t) : h[u] = k
           number == [t \in T |-> CHOOSE h : numbered(t, h)]
           F == [u \in Units(f, S) |-> <<home[u[1]], number[home[u[1]]][u]>>]
<1>1. ASSUME NEW t \in T
      PROVE  numbered(t, number[t])
  <2> DEFINE G == group(t)
             N == 1 .. g[t]
  <2>0. part[t] \in SUBSET S /\ \A x \in part[t] : f[x] \in Nat
    OBVIOUS
  <2>1. IsFiniteSet(part[t])
    BY <2>0, FS_Subset
  <2>2. IsFiniteSet(G) /\ g[t] = Cardinality(G)
    BY <2>0, <2>1, SumType DEF SumOf
  <2>3. ExistsBijection(G, N)
    BY <2>2, FS_CardinalityType, Fun_ExistsBijSymmetric
  <2> HIDE DEF G, N
  <2>4. PICK h : h \in Bijection(G, N)
    BY <2>3 DEF ExistsBijection
  <2>5. /\ h \in [G -> N] /\ \A u, v \in G : h[u] = h[v] => u = v
        /\ \A k \in N : \E u \in G : h[u] = k
    BY <2>4 DEF Bijection, Injection, Surjection, IsInjective
  <2>6. numbered(t, h)
    BY <2>5 DEF G, N
  <2>7. numbered(t, CHOOSE j : numbered(t, j))
    BY <2>6, ZenonT(60)
  <2> QED
    BY <2>7
<1> HIDE DEF number
<1>2. IsFiniteSet(Units(f, S))
  BY SumType
<1>3. ASSUME NEW u \in Units(f, S)
      PROVE  /\ F[u] = <<home[u[1]], number[home[u[1]]][u]>> /\ home[u[1]] \in T
             /\ u \in group(home[u[1]]) /\ F[u] \in Units(g, T)
  <2>1. u = <<u[1], u[2]>> /\ u[1] \in S /\ u[2] \in 1 .. f[u[1]]
    BY OneUnit
  <2> DEFINE t == home[u[1]]
             k == number[t][u]
  <2>2. t \in T /\ u[1] \in {x \in S : home[x] = t}
    BY <2>1
  <2>3. u \in group(t)
    BY <2>1, <2>2, OneUnit
  <2>4. k \in 1 .. g[t]
    BY <1>1, <2>2, <2>3
  <2>5. <<t, k>> \in Units(g, T)
    <3> HIDE DEF t, k
    <3> QED
      BY <2>2, <2>4 DEF Units
  <2> QED
    BY <2>2, <2>3, <2>5
<1>4. F \in [Units(f, S) -> Units(g, T)]
  BY <1>3
<1>5. ASSUME NEW u \in Units(f, S), NEW v \in Units(f, S), F[u] = F[v]
      PROVE  u = v
  <2> DEFINE a == home[u[1]]
             b == home[v[1]]
             m == number[a][u]
             n == number[b][v]
  <2>1. <<a, m>> = <<b, n>>
    BY <1>3, <1>5
  <2>2. a = b /\ m = n
    <3> HIDE DEF a, b, m, n
    <3> QED
      BY <2>1
  <2>3. u \in group(a) /\ v \in group(a) /\ a \in T /\ number[a][u] = number[a][v]
    BY <1>3, <2>2
  <2> HIDE DEF a
  <2> QED
    BY <1>1, <2>3
<1>6. ASSUME NEW w \in Units(g, T)
      PROVE  \E u \in Units(f, S) : F[u] = w
  <2>1. w = <<w[1], w[2]>> /\ w[1] \in T /\ w[2] \in 1 .. g[w[1]]
    BY OneUnit
  <2>2. PICK u \in group(w[1]) : number[w[1]][u] = w[2]
    BY <1>1, <2>1
  <2>3. u = <<u[1], u[2]>> /\ u[1] \in S /\ home[u[1]] = w[1] /\ u[2] \in 1 .. f[u[1]]
    BY <2>2, OneUnit
  <2>4. u \in Units(f, S)
    BY <2>3, OneUnit
  <2>5. F[u] = <<home[u[1]], number[home[u[1]]][u]>>
    BY <1>3, <2>4
  <2>6. F[u] = w
    BY <2>1, <2>2, <2>3, <2>5
  <2> QED
    BY <2>4, <2>6
<1> HIDE DEF F
<1> QED
  BY <1>2, <1>4, <1>5, <1>6, SameUnits

-----------------------------------------------------------------------------
(* The books.                                                               *)

FigureOK(figure) ==
    /\ figure.subtotal \in Nat /\ figure.discount \in Nat
    /\ figure.total \in Nat /\ figure.cost \in Nat

TenderOK(tender, total) ==
    tender.method \in Methods /\ tender.paid \in Nat /\ tender.paid <= total

RowOK(d, row) ==
    /\ row.day \in Nat \ {0}
    /\ d \in Sales => FigureOK(row.figure) /\ TenderOK(row.tender, row.figure.total)
    /\ d \in Expenses => row.category \in Categories /\ row.amount \in Amounts /\ row.method \in Methods

OpOK(op) ==
    \/ /\ op.id \in Sales
       /\ \/ /\ op.do = "create_sale"
             /\ op.lines \in Lines /\ op.discount \in Discounts /\ op.method \in Tenders
          \/ /\ op.do = "update_sale"
             /\ op.lines \in Lines \cup {Same} /\ op.discount \in Discounts \cup {Same}
          \/ op.do = "delete_sale"
    \/ /\ op.id \in Expenses
       /\ \/ /\ op.do = "create_expense"
             /\ op.category \in Categories /\ op.amount \in Amounts /\ op.method \in Methods
          \/ /\ op.do = "update_expense"
             /\ op.category \in Categories \cup {Same} /\ op.amount \in Amounts \cup {Same}
             /\ op.method \in Methods \cup {Same}
          \/ op.do = "delete_expense"

(* A total that a document may be posted with.                              *)
TotalOK(d, row, total) ==
    /\ total \in Nat
    /\ d \in Sales => row.tender.paid <= total
    /\ d \in Expenses => total = row.amount

BookedAs(d, total, on) == ledger[d] = Posting(d, document[d], total, on) /\ TotalOK(d, document[d], total)

(* What the books have of a document.                                       *)
Kept(d) ==
    /\ There(d) => \E total \in Nat, on \in document[d].day .. day : BookedAs(d, total, on)
    /\ ~There(d) => ledger[d] = {}
    /\ \A e \in ledger[d] : e.account \in accounts

DocumentsOK ==
    /\ document = [d \in Documents |-> document[d]]
    /\ \A d \in Documents : document[d] \in {NewRow, GoneRow} \/ (There(d) /\ RowOK(d, document[d]))

Holding(r) == At(r, "read") \/ At(r, "charted")

(* A request under way: what it creates is new and its own, what it changes *)
(* is older than its transaction.                                           *)
Underway(r) ==
    LET op == request[r].op
    IN  /\ At(r, "begin") \/ Holding(r)
        /\ OpOK(op)
        /\ request[r].day \in Nat \ {0} /\ request[r].day <= day
        /\ Creates(op) =>
              /\ document[op.id] = NewRow
              /\ \A u \in Requests \ {r} : At(u, "idle") \/ request[u].op.id # op.id
        /\ ~Creates(op) =>
              /\ document[op.id] # NewRow /\ RowOK(op.id, request[r].seen)
              /\ There(op.id) => document[op.id].day <= request[r].day
              /\ There(op.id) /\ op.id \in Sales => request[r].seen.tender = document[op.id].tender

(* The total an edit posts is that of the row it writes, if the copy it had *)
(* was still that of the row it locked.                                     *)
Priced(op, seen, was, row, total) ==
    /\ TotalOK(op.id, row, total)
    /\ (op.do = "update_sale" => seen.figure.total = was.figure.total) => total = RowTotal(op.id, row)

(* Under its lock: what it has read is the row, what it will write is fit   *)
(* to be one.                                                               *)
Informed(r) ==
    LET op == request[r].op
    IN  /\ request[r].was = document[op.id]
        /\ ~Creates(op) => There(op.id)
        /\ Deletes(op) => request[r].row = GoneRow
        /\ ~Deletes(op) => /\ request[r].row.status = "there" /\ RowOK(op.id, request[r].row)
                           /\ request[r].row.day <= request[r].day
                           /\ Priced(op, request[r].seen, request[r].was, request[r].row, request[r].total)
        /\ ~Creates(op) /\ ~Deletes(op) =>
              /\ request[r].row.day = document[op.id].day
              /\ op.id \in Sales => request[r].row.tender = document[op.id].tender

Charted(r) ==
    /\ request[r].missing \subseteq Accounts
    /\ Accounts \subseteq accounts \cup request[r].missing

RequestsOK ==
    /\ request = [r \in Requests |-> request[r]]
    /\ \A r \in Requests :
          /\ At(r, "idle") \/ Underway(r)
          /\ Holding(r) => Informed(r)
          /\ At(r, "charted") => Charted(r)

LocksHeldOnce ==
    \A r, u \in Requests : r # u /\ Holding(r) /\ Holding(u) =>
        LockOf(request[r].op) \cap LockOf(request[u].op) = {}

BookInv ==
    /\ day \in Nat \ {0}
    /\ ledger = [d \in Documents |-> ledger[d]]
    /\ DocumentsOK
    /\ RequestsOK
    /\ LocksHeldOnce
    /\ accounts \subseteq Accounts
    /\ \A d \in Documents : Kept(d)

(* The invariant, one request and one document at a time.                   *)
LEMMA OfRequest ==
    ASSUME BookInv, NEW r \in Requests
    PROVE  /\ At(r, "idle") \/ Underway(r)
           /\ Holding(r) => Informed(r)
           /\ At(r, "charted") => Charted(r)
BY DEF BookInv, RequestsOK

(* What the invariant says of one document.                                 *)
LEMMA OfDocument ==
    ASSUME BookInv, NEW d \in Documents
    PROVE  /\ document[d] \in {NewRow, GoneRow} \/ (There(d) /\ RowOK(d, document[d]))
           /\ Kept(d)
BY DEF BookInv, DocumentsOK

-----------------------------------------------------------------------------
(* Whatever is posted goes to an account of the chart.                      *)
LEMMA PostingAccounts ==
    ASSUME NEW d \in Documents, NEW row, NEW total, NEW on, RowOK(d, row)
    PROVE  \A e \in Posting(d, row, total, on) : e.account \in Accounts
<1>1. CASE d \in Sales
  <2> DEFINE a == Entry(row.tender.method, "debit", row.tender.paid, on)
             b == Entry("receivable", "debit", total - row.tender.paid, on)
             c == Entry("sales_revenue", "credit", total, on)
             x == Entry("cogs", "debit", row.figure.cost, on)
             y == Entry("inventory", "credit", row.figure.cost, on)
  <2>1. Posting(d, row, total, on) \subseteq {a, b, c, x, y}
    BY <1>1 DEF Posting, post_sale, post_cogs
  <2>2. \A e \in {a, b, c, x, y} :
           e.account \in {row.tender.method, "receivable", "sales_revenue", "cogs", "inventory"}
    BY DEF Entry
  <2>3. {row.tender.method, "receivable", "sales_revenue", "cogs", "inventory"} \subseteq Accounts
    BY <1>1 DEF Accounts, RowOK, TenderOK
  <2> HIDE DEF a, b, c, x, y
  <2> QED
    BY <2>1, <2>2, <2>3
<1>2. CASE d \in Expenses /\ d \notin Sales
  <2>1. Posting(d, row, total, on) = {Entry(row.category, "debit", row.amount, on),
                                     Entry(row.method, "credit", row.amount, on)}
    BY <1>2 DEF Posting, post_expense
  <2>2. \A a, side, amount : Entry(a, side, amount, on).account = a
    BY DEF Entry
  <2>3. row.category \in Accounts /\ row.method \in Accounts
    BY <1>2 DEF Accounts, RowOK
  <2> QED
    BY <2>1, <2>2, <2>3
<1> QED
  BY <1>1, <1>2 DEF Documents

(* A document not made yet and one gone are told apart.                     *)
LEMMA RowsDiffer == NewRow.status = "new" /\ GoneRow.status = "gone" /\ NewRow # GoneRow
BY DEF NewRow, GoneRow

(* A row of the first shop is fit to be one.                                *)
LEMMA FirstRows ==
    ASSUME NEW d \in Documents, NEW row, FirstRow(d, row)
    PROVE  row = NewRow \/ (row.status = "there" /\ RowOK(d, row))
<1> SUFFICES ASSUME row # NewRow PROVE row.status = "there" /\ RowOK(d, row)
  OBVIOUS
<1>1. row.status = "there" /\ row.day = 1
  BY DEF FirstRow
<1>2. ASSUME d \in Sales
      PROVE  FigureOK(row.figure) /\ TenderOK(row.tender, row.figure.total)
  <2>1. PICK lines \in Lines, discount \in Discounts : row.figure = FigureOf(lines, discount)
    BY <1>2 DEF FirstRow
  <2>2. lines.subtotal \in Nat /\ lines.cost \in Nat /\ discount \in Nat
    BY BookkeepingAssumption
  <2>3. /\ row.figure.subtotal = lines.subtotal /\ row.figure.discount = discount
        /\ row.figure.total = lines.subtotal - discount /\ row.figure.cost = lines.cost
    BY <2>1 DEF FigureOf
  <2>4. row.tender.paid \in 0 .. row.figure.total /\ row.tender.method \in Methods
    BY <1>2 DEF FirstRow
  <2> QED
    BY <2>2, <2>3, <2>4 DEF FigureOK, TenderOK
<1>3. d \in Expenses => row.category \in Categories /\ row.amount \in Amounts /\ row.method \in Methods
  BY DEF FirstRow
<1> QED
  BY <1>1, <1>2, <1>3 DEF RowOK

(* The row's own total is one to post it with.                              *)
LEMMA OwnTotal ==
    ASSUME NEW d \in Documents, NEW row, RowOK(d, row), row.status = "there"
    PROVE  TotalOK(d, row, RowTotal(d, row))
<1>1. CASE d \in Sales
  BY <1>1, BookkeepingAssumption DEF TotalOK, RowTotal, RowOK, FigureOK, TenderOK
<1>2. CASE d \in Expenses /\ d \notin Sales
  BY <1>2, BookkeepingAssumption DEF TotalOK, RowTotal, RowOK
<1> QED
  BY <1>1, <1>2 DEF Documents

(* The shop starts with its books in order.                                 *)
LEMMA InitBook == BookInit => BookInv /\ \A d \in Documents : Matched(d)
<1> SUFFICES ASSUME BookInit PROVE BookInv /\ \A d \in Documents : Matched(d)
  OBVIOUS
<1>1. PICK shop \in FirstShops :
          /\ accounts = shop.accounts
          /\ document = shop.document
          /\ ledger = [d \in Documents |->
                IF shop.document[d].status = "there"
                THEN Posting(d, shop.document[d], RowTotal(d, shop.document[d]), 1) ELSE {}]
  BY DEF BookInit
<1>2. day = 1 /\ request = [r \in Requests |-> Idle]
  BY DEF BookInit
<1>3. DocumentsOK
  <2>1. document = [d \in Documents |-> document[d]]
    BY <1>1, FirstShopsAssumption
  <2>2. ASSUME NEW d \in Documents
        PROVE  document[d] \in {NewRow, GoneRow} \/ (There(d) /\ RowOK(d, document[d]))
    <3>1. FirstRow(d, document[d])
      BY <1>1, FirstShopsAssumption
    <3> QED
      BY <3>1, FirstRows DEF There
  <2> QED
    BY <2>1, <2>2 DEF DocumentsOK
<1>4. RequestsOK /\ LocksHeldOnce
  BY <1>2 DEF RequestsOK, LocksHeldOnce, Holding, At, Idle
<1>5. ASSUME NEW d \in Documents
      PROVE  Kept(d) /\ Matched(d)
  <2>1. CASE There(d)
    <3>1. /\ document[d].day = 1
          /\ ledger[d] = Posting(d, document[d], RowTotal(d, document[d]), 1)
      BY <1>1, <2>1, FirstShopsAssumption, RowsDiffer DEF FirstRow, There
    <3>2. \A e \in ledger[d] : e.account \in accounts
      BY <1>1, <2>1, <3>1, FirstShopsAssumption DEF There
    <3>3. TotalOK(d, document[d], RowTotal(d, document[d]))
      BY <1>3, <2>1, OwnTotal, RowsDiffer DEF DocumentsOK, There
    <3>4. 1 \in document[d].day .. day /\ RowTotal(d, document[d]) \in Nat
      BY <1>2, <3>1, <3>3 DEF TotalOK
    <3> QED
      BY <2>1, <3>1, <3>2, <3>3, <3>4 DEF Kept, BookedAs, Matched, Posted
  <2>2. CASE ~There(d)
    BY <1>1, <2>2 DEF There, Kept, Matched, Posted
  <2> QED
    BY <2>1, <2>2
<1>6. accounts \subseteq Accounts
  BY <1>1, FirstShopsAssumption
<1> QED
  BY <1>1, <1>2, <1>3, <1>4, <1>5, <1>6 DEF BookInv

-----------------------------------------------------------------------------
(* A new request fits the document it is about.                             *)
LEMMA ArrivingOp ==
    ASSUME NEW op \in (UNION {SaleOps(s) : s \in Sales}) \cup (UNION {ExpenseOps(e) : e \in Expenses})
    PROVE  /\ OpOK(op)
           /\ Creates(op) => document[op.id].status = "new"
           /\ ~Creates(op) => There(op.id)
<1>1. CASE \E s \in Sales : op \in SaleOps(s)
  <2>1. PICK s \in Sales : op \in SaleOps(s)
    BY <1>1
  <2>2. CASE document[s].status = "new"
    BY <2>1, <2>2 DEF SaleOps, OpOK, Creates, There
  <2>3. CASE document[s].status = "there"
    BY <2>1, <2>3 DEF SaleOps, OpOK, Creates, There
  <2> QED
    BY <2>1, <2>2, <2>3 DEF SaleOps
<1>2. CASE \E e \in Expenses : op \in ExpenseOps(e)
  <2>1. PICK e \in Expenses : op \in ExpenseOps(e)
    BY <1>2
  <2>2. CASE document[e].status = "new"
    BY <2>1, <2>2 DEF ExpenseOps, OpOK, Creates, There
  <2>3. CASE document[e].status = "there"
    BY <2>1, <2>3 DEF ExpenseOps, OpOK, Creates, There
  <2> QED
    BY <2>1, <2>2, <2>3 DEF ExpenseOps
<1>3. \/ \E s \in Sales : op \in SaleOps(s)
      \/ \E e \in Expenses : op \in ExpenseOps(e)
  OBVIOUS
<1> QED
  BY <1>1, <1>2, <1>3

(* A step of one request that commits nothing.                              *)
LEMMA RequestStep ==
    ASSUME BookInv, NEW r \in Requests, NEW next,
           UNCHANGED <<accounts, document, ledger, day>>,
           request' = [request EXCEPT ![r] = next],
           At(r, "idle")' \/ Underway(r)',
           Holding(r)' => Informed(r)',
           At(r, "charted")' => Charted(r)',
           \A u \in Requests \ {r} :
               Holding(r)' /\ Holding(u) =>
                   LockOf(request'[r].op) \cap LockOf(request[u].op) = {},
           \A u \in Requests \ {r} :
               ~At(u, "idle") /\ Creates(request[u].op) =>
                   At(r, "idle")' \/ request'[r].op.id # request[u].op.id
    PROVE  BookInv'
<1>1. /\ request' = [u \in Requests |-> request'[u]]
      /\ \A u \in Requests \ {r} : request'[u] = request[u]
  BY DEF BookInv, RequestsOK
<1>2. \A u \in Requests \ {r} : /\ Holding(u)' <=> Holding(u)
                                /\ \A place : At(u, place)' <=> At(u, place)
  BY <1>1 DEF Holding, At
<1>3. ASSUME NEW u \in Requests \ {r}
      PROVE  /\ At(u, "idle")' \/ Underway(u)'
             /\ Holding(u)' => Informed(u)'
             /\ At(u, "charted")' => Charted(u)'
  <2>4. u \in Requests /\ u # r /\ request'[u] = request[u]
    BY <1>1, <1>3
  <2>1. Holding(u)' => Informed(u)'
    BY <1>2, <2>4, OfRequest DEF Informed, There
  <2>2. At(u, "charted")' => Charted(u)'
    BY <1>2, <2>4, OfRequest DEF Charted
  <2>3. ASSUME ~At(u, "idle")
        PROVE  Underway(u)'
    <3>1. Underway(u)
      BY <2>3, <2>4, OfRequest
    <3>2. Creates(request[u].op) =>
             \A z \in Requests \ {u} : At(z, "idle")' \/ request'[z].op.id # request[u].op.id
      BY <1>1, <1>2, <1>3, <2>3, <3>1 DEF Underway
    <3> QED
      BY <1>1, <1>2, <1>3, <3>1, <3>2 DEF Underway, There
  <2> QED
    BY <1>2, <2>1, <2>2, <2>3
<1>4. RequestsOK'
  BY <1>1, <1>3 DEF RequestsOK
<1>5. LocksHeldOnce'
  <2> SUFFICES ASSUME NEW a \in Requests, NEW b \in Requests, a # b, Holding(a)', Holding(b)'
               PROVE  LockOf(request'[a].op) \cap LockOf(request'[b].op) = {}
    BY DEF LocksHeldOnce
  <2>1. CASE a # r /\ b # r
    BY <1>1, <1>2, <2>1 DEF BookInv, LocksHeldOnce
  <2>2. CASE a = r
    BY <1>1, <1>2, <2>2
  <2>3. CASE b = r
    BY <1>1, <1>2, <2>3
  <2> QED
    BY <2>1, <2>2, <2>3
<1>6. DocumentsOK'
  BY DEF BookInv, DocumentsOK, There, RowOK
<1>7. \A d \in Documents : Kept(d)'
  BY DEF BookInv, Kept, BookedAs, There
<1> QED
  BY <1>4, <1>5, <1>6, <1>7 DEF BookInv

(* A request that ends without a commit.                                    *)
LEMMA EndBook ==
    ASSUME BookInv, NEW r \in Requests, UNCHANGED <<accounts, document, ledger, day>>,
           request' = [request EXCEPT ![r] = Idle]
    PROVE  BookInv'
<1>1. At(r, "idle")' /\ ~Holding(r)' /\ ~At(r, "charted")'
  BY DEF At, Holding, Idle, BookInv, RequestsOK
<1> QED
  BY <1>1, RequestStep

(* A request that arrives touches no book.                                  *)
LEMMA ArriveBook ==
    ASSUME BookInv, NEW r \in Requests, Arrive(r)
    PROVE  BookInv'
<1>1. PICK op \in (UNION {SaleOps(s) : s \in Sales}) \cup (UNION {ExpenseOps(e) : e \in Expenses}) :
          /\ Creates(op) => ~Busy(op.id)
          /\ request' = [request EXCEPT ![r] = [at |-> "begin", op |-> op, day |-> day, seen |-> document[op.id]]]
  BY DEF Arrive
<1>2. OpOK(op) /\ (Creates(op) => document[op.id].status = "new") /\ (~Creates(op) => There(op.id))
  BY ArrivingOp
<1>3. op.id \in Documents
  BY <1>2 DEF OpOK, Documents
<1>4. /\ request'[r] = [at |-> "begin", op |-> op, day |-> day, seen |-> document[op.id]]
      /\ \A u \in Requests \ {r} : request'[u] = request[u]
  BY <1>1 DEF BookInv, RequestsOK
<1>5. Creates(op) => document[op.id] = NewRow
  BY <1>2, <1>3, RowsDiffer DEF BookInv, DocumentsOK, There
<1>6. ~Creates(op) => /\ document[op.id] # NewRow /\ document[op.id].day <= day
                      /\ RowOK(op.id, document[op.id])
  <2>1. ASSUME ~Creates(op)
        PROVE  document[op.id].day <= day
    <3>1. There(op.id) /\ RowOK(op.id, document[op.id])
      BY <1>2, <1>3, <2>1, OfDocument, RowsDiffer DEF There
    <3>2. PICK on \in document[op.id].day .. day : TRUE
      BY <1>3, <3>1, OfDocument DEF Kept
    <3> QED
      BY <3>1, <3>2 DEF RowOK, BookInv
  <2> QED
    BY <1>2, <1>3, <2>1, OfDocument, RowsDiffer DEF There
<1>7. UNCHANGED <<accounts, document, ledger, day>>
  BY DEF Arrive
<1>8. Underway(r)'
  <2>1. Creates(op) => \A u \in Requests \ {r} : At(u, "idle")' \/ request'[u].op.id # op.id
    BY <1>1, <1>4 DEF Busy, At
  <2>2. /\ At(r, "begin")' /\ request'[r].op = op /\ request'[r].day = day
        /\ request'[r].seen = document[op.id]
    BY <1>4 DEF At
  <2> QED
    BY <1>2, <1>5, <1>6, <1>7, <2>1, <2>2 DEF Underway, BookInv, There
<1>9. ~Holding(r)' /\ ~At(r, "charted")'
  BY <1>4 DEF Holding, At
<1>10. ASSUME NEW u \in Requests \ {r}, ~At(u, "idle"), Creates(request[u].op)
       PROVE  request'[r].op.id # request[u].op.id
  <2>1. document[request[u].op.id] = NewRow
    BY <1>10, OfRequest DEF Underway
  <2>2. CASE Creates(op)
    BY <1>1, <1>4, <1>10, <2>2 DEF Busy
  <2>3. CASE ~Creates(op)
    BY <1>4, <1>6, <2>1, <2>3
  <2> QED
    BY <2>2, <2>3
<1> QED
  BY <1>1, <1>7, <1>8, <1>9, <1>10, RequestStep

-----------------------------------------------------------------------------
(* The figures of an edit and of the row it leaves, when they are accepted. *)
LEMMA EditedIsFigure ==
    ASSUME NEW op, OpOK(op), op.do = "update_sale", NEW row, NEW seen,
           FigureOK(row), FigureOK(seen), NEW paid \in Nat,
           AddsUp(EditedFigure(op, seen), paid), AddsUp(FlushedFigure(op, row, seen), paid)
    PROVE  /\ EditedFigure(op, seen).total \in Nat /\ paid <= EditedFigure(op, seen).total
           /\ FigureOK(FlushedFigure(op, row, seen)) /\ paid <= FlushedFigure(op, row, seen).total
           /\ seen.total = row.total => EditedFigure(op, seen).total = FlushedFigure(op, row, seen).total
<1> DEFINE new  == EditedFigure(op, seen)
           left == FlushedFigure(op, row, seen)
<1>1. /\ op.lines \in Lines \cup {Same} /\ op.discount \in Discounts \cup {Same}
  BY DEF OpOK
<1>2. /\ new.subtotal \in Nat /\ new.discount \in Nat /\ new.total = new.subtotal - new.discount
      /\ op.lines # Same => new.cost \in Nat
  <2> DEFINE lines == IF op.lines = Same THEN seen ELSE op.lines
             discount == Edited(seen.discount, op.discount)
  <2>1. lines.subtotal \in Nat /\ lines.cost \in Nat /\ discount \in Nat
    BY <1>1, BookkeepingAssumption DEF FigureOK, Edited
  <2>2. new = FigureOf(lines, discount)
    BY DEF EditedFigure
  <2> HIDE DEF lines, discount, new
  <2> QED
    BY <2>1, <2>2 DEF FigureOf
<1>3. /\ left.subtotal = Column(row.subtotal, seen.subtotal, new.subtotal)
      /\ left.discount = Column(row.discount, seen.discount, new.discount)
      /\ left.total = Column(row.total, seen.total, new.total)
      /\ left.cost = IF op.lines = Same THEN row.cost ELSE new.cost
  BY DEF FlushedFigure
<1>4. paid <= new.total /\ paid <= left.total
  BY DEF AddsUp
<1> HIDE DEF new, left
<1>5. new.total \in Nat
  BY <1>2, <1>4
<1>6. FigureOK(left)
  BY <1>2, <1>3, <1>5 DEF FigureOK, Column
<1>7. seen.total = row.total => new.total = left.total
  BY <1>3 DEF Column
<1> QED
  BY <1>4, <1>5, <1>6, <1>7 DEF new, left

(* What an operation makes of a row is a row of its document, no newer than *)
(* the transaction, and an edit leaves its day and its payment alone.       *)
LEMMA ChangedRow ==
    ASSUME NEW op, OpOK(op), NEW row, NEW seen, NEW on \in Nat \ {0}, ~Refused(op, row, seen),
           ~Creates(op) => /\ RowOK(op.id, row) /\ row.day <= on /\ RowOK(op.id, seen)
                           /\ op.id \in Sales => seen.tender = row.tender
    PROVE  LET new == Changed(op, row, seen, on)
           IN  /\ Deletes(op) => new = GoneRow
               /\ ~Deletes(op) => /\ new.status = "there" /\ RowOK(op.id, new) /\ new.day <= on
                                  /\ Priced(op, seen, row, new, TotalToPost(op, new, seen))
               /\ ~Creates(op) /\ ~Deletes(op) =>
                     new.day = row.day /\ (op.id \in Sales => new.tender = row.tender)
<1> DEFINE new == Changed(op, row, seen, on)
           total == TotalToPost(op, new, seen)
<1>1. CASE op.do = "create_sale"
  <2> DEFINE figure == FigureOf(op.lines, op.discount)
             tender == TenderOf(op)
             number == IF op.number = Automatic THEN _allocate_invoice_number ELSE op.number
  <2>1. new = SaleRow(figure, tender, number, op.number # Automatic, on)
    BY <1>1 DEF Changed, Deletes
  <2>2. /\ op.id \in Sales /\ op.id \notin Expenses /\ op.lines \in Lines
        /\ op.discount \in Discounts /\ op.method \in Tenders
    BY <1>1, BookkeepingAssumption DEF OpOK
  <2>3. FigureOK(figure)
    <3>1. /\ op.lines.subtotal \in Nat /\ op.lines.cost \in Nat /\ op.discount \in Nat
      BY <2>2, BookkeepingAssumption
    <3>2. op.discount <= op.lines.subtotal
      BY <1>1 DEF Refused, AddsUp, FigureOf
    <3> QED
      BY <3>1, <3>2 DEF FigureOK, FigureOf
  <2>4. TenderOK(tender, figure.total)
    <3>1. op.method # Unpaid => op.method \in Methods
      BY <2>2, BookkeepingAssumption
    <3>2. "cash" \in Methods
      BY DEF Methods
    <3>3. figure.total \in Nat
      BY <2>3 DEF FigureOK
    <3> HIDE DEF figure
    <3>4. tender = IF op.method = Unpaid THEN [paid |-> 0, method |-> "cash"]
                   ELSE [paid |-> figure.total, method |-> op.method]
      BY DEF TenderOf, figure
    <3> HIDE DEF tender
    <3> QED
      BY <3>1, <3>2, <3>3, <3>4 DEF TenderOK
  <2> HIDE DEF figure, tender, number
  <2>5. /\ new.status = "there" /\ new.figure = figure /\ new.tender = tender /\ new.day = on
    BY <2>1 DEF SaleRow
  <2>6. total = RowTotal(op.id, new)
    BY <1>1 DEF TotalToPost
  <2>7. op.id \in Documents
    BY <2>2 DEF Documents
  <2> HIDE DEF new, total
  <2>8. RowOK(op.id, new)
    BY <2>2, <2>3, <2>4, <2>5 DEF RowOK
  <2>9. Priced(op, seen, row, new, total)
    BY <2>5, <2>6, <2>7, <2>8, OwnTotal DEF Priced
  <2> QED
    BY <1>1, <2>5, <2>8, <2>9 DEF Creates, Deletes, new, total
<1>2. CASE op.do = "update_sale"
  <2> DEFINE figure == FlushedFigure(op, row.figure, seen.figure)
             number == Column(row.number, seen.number, Edited(seen.number, op.number))
             written == row.written \/ Edited(seen.number, op.number) # seen.number
  <2>1. new = SaleRow(figure, row.tender, number, written, row.day)
    BY <1>2 DEF Changed, Deletes
  <2>2. op.id \in Sales /\ op.id \notin Expenses
    BY <1>2, BookkeepingAssumption DEF OpOK
  <2>3. /\ FigureOK(row.figure) /\ FigureOK(seen.figure) /\ row.tender = seen.tender
        /\ row.tender.method \in Methods /\ row.tender.paid \in Nat
        /\ row.day \in Nat \ {0} /\ row.day <= on
    BY <1>2, <2>2 DEF Creates, RowOK, TenderOK
  <2>4. AddsUp(EditedFigure(op, seen.figure), row.tender.paid) /\ AddsUp(figure, row.tender.paid)
    BY <1>2, <2>3 DEF Refused
  <2>5. /\ EditedFigure(op, seen.figure).total \in Nat
        /\ row.tender.paid <= EditedFigure(op, seen.figure).total
        /\ FigureOK(figure) /\ row.tender.paid <= figure.total
        /\ seen.figure.total = row.figure.total => EditedFigure(op, seen.figure).total = figure.total
    BY <1>2, <2>3, <2>4, EditedIsFigure
  <2> HIDE DEF figure, number, written
  <2>6. new.status = "there" /\ new.figure = figure /\ new.tender = row.tender /\ new.day = row.day
    BY <2>1 DEF SaleRow
  <2>7. total = EditedFigure(op, seen.figure).total
    BY <1>2 DEF TotalToPost
  <2> HIDE DEF new, total
  <2>8. RowOK(op.id, new)
    BY <2>2, <2>3, <2>5, <2>6 DEF RowOK, TenderOK
  <2>9. RowTotal(op.id, new) = figure.total
    BY <2>2, <2>6 DEF RowTotal
  <2>10. TotalOK(op.id, new, total)
    BY <2>2, <2>5, <2>6, <2>7 DEF TotalOK
  <2>11. seen.figure.total = row.figure.total => total = RowTotal(op.id, new)
    BY <2>5, <2>7, <2>9
  <2>12. Priced(op, seen, row, new, total)
    BY <1>2, <2>10, <2>11 DEF Priced
  <2> QED
    BY <1>2, <2>3, <2>6, <2>8, <2>12 DEF Creates, Deletes, new, total
<1>3. CASE op.do = "create_expense"
  <2>1. new = ExpenseRow(op.category, op.amount, op.method, on)
    BY <1>3 DEF Changed, Deletes
  <2>2. /\ op.category \in Categories /\ op.amount \in Amounts /\ op.method \in Methods
        /\ op.id \notin Sales /\ op.id \in Documents
    BY <1>3, BookkeepingAssumption DEF OpOK, Documents
  <2>3. /\ new.status = "there" /\ RowOK(op.id, new) /\ new.day <= on
    BY <2>1, <2>2 DEF ExpenseRow, RowOK
  <2>4. total = RowTotal(op.id, new)
    BY <1>3 DEF TotalToPost
  <2> HIDE DEF new, total
  <2>5. Priced(op, seen, row, new, total)
    BY <2>2, <2>3, <2>4, OwnTotal DEF Priced
  <2> QED
    BY <1>3, <2>3, <2>5 DEF Creates, Deletes, new, total
<1>4. CASE op.do = "update_expense"
  <2>1. new = ExpenseRow(Edited(row.category, op.category), Edited(row.amount, op.amount),
                         Edited(row.method, op.method), row.day)
    BY <1>4 DEF Changed, Deletes
  <2>2. /\ op.category \in Categories \cup {Same} /\ op.method \in Methods \cup {Same}
        /\ op.amount \in Amounts \cup {Same} /\ op.id \in Expenses /\ op.id \notin Sales
        /\ op.id \in Documents
    BY <1>4, BookkeepingAssumption DEF OpOK, Documents
  <2>3. /\ row.category \in Categories /\ row.amount \in Amounts /\ row.method \in Methods
        /\ row.day \in Nat \ {0} /\ row.day <= on
    BY <1>4, <2>2 DEF RowOK, Creates
  <2>4. /\ Edited(row.category, op.category) \in Categories
        /\ Edited(row.amount, op.amount) \in Amounts
        /\ Edited(row.method, op.method) \in Methods
    BY <2>2, <2>3 DEF Edited
  <2>5. new.status = "there" /\ RowOK(op.id, new) /\ new.day <= on /\ new.day = row.day
    BY <2>1, <2>2, <2>3, <2>4 DEF ExpenseRow, RowOK
  <2>6. total = RowTotal(op.id, new)
    BY <1>4 DEF TotalToPost
  <2> HIDE DEF new, total
  <2>7. Priced(op, seen, row, new, total)
    BY <2>2, <2>5, <2>6, OwnTotal DEF Priced
  <2> QED
    BY <1>4, <2>2, <2>5, <2>7 DEF Creates, Deletes, new, total
<1>5. CASE Deletes(op)
  BY <1>5 DEF Changed, Deletes, Creates
<1> QED
  BY <1>1, <1>2, <1>3, <1>4, <1>5 DEF OpOK, Deletes

(* Nor does one that reads.                                                 *)
LEMMA ReadBook ==
    ASSUME BookInv, NEW r \in Requests, Read(r)
    PROVE  BookInv'
<1> DEFINE op   == request[r].op
           was  == document[op.id]
           seen == request[r].seen
           row  == Changed(op, was, seen, request[r].day)
           total == TotalToPost(op, row, seen)
           next == [at |-> "read", op |-> op, day |-> request[r].day, seen |-> seen, was |-> was,
                    row |-> row, total |-> total]
<1>1. UNCHANGED <<accounts, document, ledger, day>> /\ At(r, "begin") /\ LockFree(r)
  BY DEF Read
<1>2. CASE request' = [request EXCEPT ![r] = Idle]
  BY <1>1, <1>2, EndBook
<1>3. CASE /\ ~(~Creates(op) /\ ~There(op.id)) /\ ~Refused(op, was, seen)
           /\ request' = [request EXCEPT ![r] = next]
  <2>1. Underway(r) /\ ~At(r, "idle")
    BY <1>1, OfRequest DEF At
  <2>2. op.id \in Documents
    BY <2>1 DEF Underway, OpOK, Documents
  <2>3. ~Creates(op) => /\ There(op.id) /\ RowOK(op.id, was) /\ was.day <= request[r].day
                        /\ RowOK(op.id, seen) /\ (op.id \in Sales => seen.tender = was.tender)
    BY <1>3, <2>1, <2>2, OfDocument, RowsDiffer DEF Underway, There
  <2>4. /\ Deletes(op) => row = GoneRow
        /\ ~Deletes(op) => /\ row.status = "there" /\ RowOK(op.id, row)
                           /\ row.day <= request[r].day /\ Priced(op, seen, was, row, total)
        /\ ~Creates(op) /\ ~Deletes(op) =>
              row.day = was.day /\ (op.id \in Sales => row.tender = was.tender)
    <3>1. OpOK(op) /\ request[r].day \in Nat \ {0}
      BY <2>1 DEF Underway
    <3> QED
      BY <1>3, <2>3, <3>1, ChangedRow
  <2> HIDE DEF row, total
  <2>5. /\ request'[r] = next
        /\ \A u \in Requests \ {r} : request'[u] = request[u]
    BY <1>3 DEF BookInv, RequestsOK
  <2>6. /\ At(r, "read")' /\ Holding(r)' /\ ~At(r, "idle")' /\ ~At(r, "charted")'
        /\ request'[r].op = op /\ request'[r].day = request[r].day /\ request'[r].seen = seen
        /\ request'[r].was = was /\ request'[r].row = row /\ request'[r].total = total
    BY <2>5 DEF At, Holding
  <2>7. Underway(r)'
    <3>1. Creates(op) => \A u \in Requests \ {r} : At(u, "idle")' \/ request'[u].op.id # op.id
      BY <2>1, <2>5 DEF Underway, At
    <3> QED
      BY <1>1, <2>1, <2>6, <3>1 DEF Underway, There
  <2>8. Informed(r)'
    BY <1>1, <2>3, <2>4, <2>6 DEF Informed, There
  <2>9. \A u \in Requests \ {r} : Holding(u) =>
           LockOf(request'[r].op) \cap LockOf(request[u].op) = {}
    BY <1>1, <2>6 DEF LockFree, Holding
  <2>10. \A u \in Requests \ {r} : ~At(u, "idle") /\ Creates(request[u].op) =>
            request'[r].op.id # request[u].op.id
    BY <2>1, <2>6, OfRequest DEF Underway
  <2> QED
    BY <1>1, <1>3, <2>6, <2>7, <2>8, <2>9, <2>10, RequestStep
<1> QED
  BY <1>2, <1>3 DEF Read

(* Completing the chart of accounts takes no account away.                  *)
LEMMA ChartBook ==
    ASSUME BookInv, NEW r \in Requests, ensure_system_accounts(r)
    PROVE  BookInv'
<1> DEFINE q == request[r]
           next == [at |-> "charted", op |-> q.op, day |-> q.day, seen |-> q.seen, was |-> q.was,
                    row |-> q.row, total |-> q.total, missing |-> Accounts \ accounts]
<1>1. /\ UNCHANGED <<accounts, document, ledger, day>> /\ At(r, "read")
      /\ request' = [request EXCEPT ![r] = next]
  BY DEF ensure_system_accounts
<1>2. Underway(r) /\ Informed(r) /\ Holding(r) /\ ~At(r, "idle")
  BY <1>1, OfRequest DEF At, Holding
<1>3. /\ request'[r] = next
      /\ \A u \in Requests \ {r} : request'[u] = request[u]
  BY <1>1 DEF BookInv, RequestsOK
<1>4. /\ Holding(r)' /\ ~At(r, "idle")'
      /\ request'[r].op = q.op /\ request'[r].day = q.day
      /\ request'[r].was = q.was /\ request'[r].row = q.row
      /\ request'[r].seen = q.seen /\ request'[r].total = q.total
      /\ request'[r].missing = Accounts \ accounts
  BY <1>3 DEF At, Holding
<1>5. Underway(r)'
  <2>1. Creates(q.op) => \A u \in Requests \ {r} : At(u, "idle")' \/ request'[u].op.id # q.op.id
    BY <1>2, <1>3 DEF Underway, At
  <2> QED
    BY <1>1, <1>2, <1>4, <2>1 DEF Underway, There
<1>6. Informed(r)'
  BY <1>1, <1>2, <1>4 DEF Informed, There
<1>7. Charted(r)'
  BY <1>1, <1>4 DEF Charted
<1>8. \A u \in Requests \ {r} : Holding(u) =>
         LockOf(request'[r].op) \cap LockOf(request[u].op) = {}
  BY <1>2, <1>4 DEF BookInv, LocksHeldOnce
<1>9. \A u \in Requests \ {r} : ~At(u, "idle") /\ Creates(request[u].op) =>
         request'[r].op.id # request[u].op.id
  BY <1>2, <1>4, OfRequest DEF Underway
<1> QED
  BY <1>1, <1>4, <1>5, <1>6, <1>7, <1>8, <1>9, RequestStep

-----------------------------------------------------------------------------
(* A commit.  Nobody else holds its row: another request of the document    *)
(* waits for the lock, and finds a row no newer than its own transaction.   *)
LEMMA CommitBook ==
    ASSUME BookInv, NEW r \in Requests, Commit(r)
    PROVE  BookInv'
<1> DEFINE op  == request[r].op
           d   == op.id
           row == request[r].row
           on  == request[r].day
           total == request[r].total
<1>1. /\ Ready(r)
      /\ accounts' = accounts \cup Missing(r)
      /\ document' = [document EXCEPT ![d] = row]
      /\ ledger' = [ledger EXCEPT ![d] =
            IF Deletes(op) THEN {} ELSE IF Posts(r) THEN Posting(d, row, total, on) ELSE @]
      /\ request' = [request EXCEPT ![r] = Idle]
      /\ UNCHANGED day
  BY DEF Commit
<1>2. /\ ~At(r, "idle") /\ Holding(r)
      /\ Posts(r) => At(r, "charted")
  BY <1>1 DEF Ready, At, Holding
<1>3. Underway(r) /\ Informed(r)
  BY <1>2, OfRequest
<1>4. /\ d \in Documents /\ on \in Nat /\ on <= day
      /\ day \in Nat
  BY <1>3 DEF Underway, OpOK, Documents, BookInv
<1>5. /\ Deletes(op) => row = GoneRow
      /\ ~Deletes(op) => row.status = "there" /\ RowOK(d, row) /\ row.day <= on /\ TotalOK(d, row, total)
      /\ ~Creates(op) /\ ~Deletes(op) =>
            row.day = document[d].day /\ (d \in Sales => row.tender = document[d].tender)
      /\ request[r].was = document[d]
      /\ ~Creates(op) => There(d)
  BY <1>3 DEF Informed, Priced
<1>6. /\ document' = [z \in Documents |-> document'[z]]
      /\ document'[d] = row
      /\ \A z \in Documents \ {d} : document'[z] = document[z]
  BY <1>1, <1>4 DEF BookInv, DocumentsOK
<1>7. /\ ledger' = [z \in Documents |-> ledger'[z]]
      /\ ledger'[d] = IF Deletes(op) THEN {} ELSE IF Posts(r) THEN Posting(d, row, total, on) ELSE ledger[d]
      /\ \A z \in Documents \ {d} : ledger'[z] = ledger[z]
  BY <1>1, <1>4 DEF BookInv
<1>8. /\ request' = [u \in Requests |-> request'[u]]
      /\ request'[r] = Idle
      /\ \A u \in Requests \ {r} : request'[u] = request[u]
  BY <1>1 DEF BookInv, RequestsOK
<1> HIDE DEF row, on, total
<1>9. DocumentsOK'
  <2>1. row = GoneRow \/ (row.status = "there" /\ RowOK(d, row))
    BY <1>5
  <2>2. ASSUME NEW z \in Documents
        PROVE  document'[z] \in {NewRow, GoneRow} \/ (There(z)' /\ RowOK(z, document'[z]))
    <3>1. CASE z = d
      BY <1>6, <2>1, <3>1 DEF There
    <3>2. CASE z # d
      BY <1>6, <3>2, OfDocument DEF There
    <3> QED
      BY <3>1, <3>2
  <2> QED
    BY <1>6, <2>2 DEF DocumentsOK, RowOK
<1>10. accounts \subseteq accounts' /\ accounts' \subseteq Accounts
  <2>1. Missing(r) \subseteq Accounts
    BY <1>2, OfRequest DEF Missing, Charted
  <2> QED
    BY <1>1, <2>1 DEF BookInv
<1>11. ASSUME NEW z \in Documents
       PROVE  Kept(z)'
  <2>1. CASE z # d
    <3>1. Kept(z) /\ document'[z] = document[z] /\ ledger'[z] = ledger[z]
      BY <1>6, <1>7, <2>1, OfDocument
    <3> QED
      BY <1>1, <1>10, <3>1 DEF Kept, BookedAs, There
  <2>2. CASE z = d /\ Deletes(op)
    <3>1. document'[z] = GoneRow /\ ledger'[z] = {}
      BY <1>5, <1>6, <1>7, <2>2
    <3> QED
      BY <3>1, RowsDiffer DEF Kept, There
  <2>3. CASE z = d /\ ~Deletes(op) /\ Posts(r)
    <3>1. ledger'[z] = Posting(z, row, total, on) /\ document'[z] = row
      BY <1>6, <1>7, <2>3
    <3>2. on \in row.day .. day' /\ total \in Nat /\ TotalOK(z, row, total)
      BY <1>1, <1>4, <1>5, <2>3 DEF RowOK, TotalOK
    <3>3. Accounts \subseteq accounts'
      BY <1>1, <1>2, <2>3, OfRequest DEF Missing, Charted
    <3>4. \A e \in Posting(z, row, total, on) : e.account \in Accounts
      BY <1>5, <2>3, PostingAccounts
    <3>5. There(z)'
      BY <1>5, <2>3, <3>1 DEF There
    <3>6. ledger'[z] = Posting(z, document'[z], total, on) /\ TotalOK(z, document'[z], total)
          /\ on \in document'[z].day .. day'
      BY <3>1, <3>2
    <3> QED
      BY <3>1, <3>2, <3>3, <3>4, <3>5, <3>6 DEF Kept, BookedAs
  <2>4. CASE z = d /\ ~Deletes(op) /\ ~Posts(r)
    <3>1. op.do = "update_expense" /\ request[r].was = row
      BY <2>4 DEF Posts, Reposts, row
    <3>2. document'[z] = document[z] /\ ledger'[z] = ledger[z]
      BY <1>5, <1>6, <1>7, <2>4, <3>1
    <3>3. Kept(z)
      BY OfDocument
    <3> QED
      BY <1>1, <1>10, <3>2, <3>3 DEF Kept, BookedAs, There
  <2> QED
    BY <2>1, <2>2, <2>3, <2>4
<1>12. ASSUME NEW u \in Requests \ {r}
       PROVE  /\ request'[u] = request[u]
              /\ Holding(u)' <=> Holding(u)
              /\ \A place : At(u, place)' <=> At(u, place)
  BY <1>8, <1>12 DEF Holding, At
<1>13. At(r, "idle")' /\ ~Holding(r)' /\ ~At(r, "charted")'
  BY <1>8 DEF At, Holding, Idle
<1>14. ASSUME NEW u \in Requests \ {r}, ~At(u, "idle")
       PROVE  Underway(u)' /\ (Holding(u) => Informed(u)') /\ (At(u, "charted") => Charted(u)')
  <2> DEFINE opU == request[u].op
  <2>1. Underway(u) /\ u # r /\ request'[u] = request[u]
    BY <1>12, <1>14, OfRequest
  <2>2. opU.id \in Documents
    BY <2>1 DEF Underway, OpOK, Documents
  <2>3. CASE opU.id # d
    <3>1. document'[opU.id] = document[opU.id]
      BY <1>6, <2>2, <2>3
    <3>2. Creates(opU) => \A z \in Requests \ {u} : At(z, "idle")' \/ request'[z].op.id # opU.id
      BY <1>8, <1>13, <2>1 DEF Underway, At
    <3>3. Underway(u)'
      BY <1>1, <1>12, <2>1, <3>1, <3>2 DEF Underway, There
    <3>4. Holding(u) => Informed(u)'
      BY <2>1, <3>1, OfRequest DEF Informed, There
    <3>5. At(u, "charted") => Charted(u)'
      BY <1>10, <2>1, OfRequest DEF Charted
    <3> QED
      BY <3>3, <3>4, <3>5
  <2>4. CASE opU.id = d
    <3>1. ~Creates(op) /\ ~Creates(opU)
      BY <1>2, <1>3, <1>14, <2>1, <2>4 DEF Underway
    <3>2. ~Holding(u)
      <4>1. LockOf(op) = {d} /\ LockOf(opU) = {d}
        BY <2>4, <3>1 DEF LockOf, Creates
      <4> QED
        BY <1>2, <2>1, <4>1 DEF BookInv, LocksHeldOnce
    <3>3. PICK z \in Documents : z = d
      BY <1>4
    <3>4. document'[z] = row /\ document'[z] # NewRow
      BY <1>5, <1>6, <3>3, RowsDiffer
    <3>5. ASSUME There(z)' PROVE document'[z].day <= request[u].day
      <4>1. ~Deletes(op)
        BY <1>5, <3>4, <3>5, RowsDiffer DEF There
      <4>2. There(z) /\ document'[z].day = document[z].day
        BY <1>5, <3>1, <3>3, <3>4, <4>1
      <4> QED
        BY <2>1, <2>4, <3>1, <3>3, <4>2 DEF Underway
    <3>7. There(z)' /\ z \in Sales => request[u].seen.tender = document'[z].tender
      <4>1. There(z)' => ~Deletes(op)
        BY <1>5, <3>4, RowsDiffer DEF There
      <4>2. There(z) /\ (~Deletes(op) /\ z \in Sales => document'[z].tender = document[z].tender)
        BY <1>5, <3>1, <3>3, <3>4
      <4> QED
        BY <2>1, <2>4, <3>1, <3>3, <4>1, <4>2 DEF Underway
    <3>6. Underway(u)'
      <4>1. At(u, "begin")' \/ Holding(u)'
        BY <1>12, <2>1 DEF Underway
      <4>2. OpOK(request'[u].op) /\ request'[u].day \in Nat \ {0} /\ request'[u].day <= day'
        BY <1>1, <2>1 DEF Underway
      <4>3. ~Creates(request'[u].op) /\ request'[u].op.id = z
        BY <2>1, <2>4, <3>1, <3>3
      <4>4. /\ There(z)' => document'[z].day <= request'[u].day
            /\ There(z)' /\ z \in Sales => request'[u].seen.tender = document'[z].tender
            /\ RowOK(request'[u].op.id, request'[u].seen)
        BY <2>1, <3>1, <3>5, <3>7 DEF Underway
      <4> QED
        BY <3>4, <4>1, <4>2, <4>3, <4>4 DEF Underway, There, NewRow
    <3> QED
      BY <3>2, <3>6 DEF Holding
  <2> QED
    BY <2>3, <2>4
<1>15. RequestsOK'
  <2>1. ASSUME NEW u \in Requests
        PROVE  /\ At(u, "idle")' \/ Underway(u)'
               /\ Holding(u)' => Informed(u)'
               /\ At(u, "charted")' => Charted(u)'
    <3>1. CASE u = r
      BY <1>13, <3>1
    <3>2. CASE u # r /\ At(u, "idle")
      BY <1>12, <3>2 DEF Holding, At
    <3>3. CASE u # r /\ ~At(u, "idle")
      BY <1>12, <1>14, <3>3
    <3> QED
      BY <3>1, <3>2, <3>3
  <2> QED
    BY <1>8, <2>1 DEF RequestsOK
<1>16. LocksHeldOnce'
  <2> SUFFICES ASSUME NEW a \in Requests, NEW b \in Requests, a # b, Holding(a)', Holding(b)'
               PROVE  LockOf(request'[a].op) \cap LockOf(request'[b].op) = {}
    BY DEF LocksHeldOnce
  <2>1. a # r /\ b # r
    BY <1>13
  <2> QED
    BY <1>12, <2>1 DEF BookInv, LocksHeldOnce
<1> QED
  BY <1>1, <1>4, <1>7, <1>9, <1>10, <1>11, <1>15, <1>16 DEF BookInv

(* A posting stays dated within the life of its document.                   *)
LEMMA TomorrowBook == ASSUME BookInv, Tomorrow PROVE BookInv'
<1>1. /\ day \in Nat /\ day' \in Nat /\ day <= day'
      /\ UNCHANGED <<accounts, document, ledger, request>>
  BY DEF Tomorrow, BookInv
<1>2. DocumentsOK' /\ LocksHeldOnce'
  BY <1>1 DEF BookInv, DocumentsOK, LocksHeldOnce, There, RowOK, Holding, At
<1>3. ASSUME NEW d \in Documents
      PROVE  Kept(d)'
  <2>1. ASSUME There(d)
        PROVE  \E total \in Nat, on \in document[d].day .. day' : BookedAs(d, total, on)
    <3>1. PICK total \in Nat, on \in document[d].day .. day : BookedAs(d, total, on)
      BY <2>1, OfDocument DEF Kept
    <3>2. RowOK(d, document[d])
      BY <2>1, OfDocument, RowsDiffer DEF There
    <3>3. on \in document[d].day .. day'
      BY <1>1, <3>1, <3>2 DEF RowOK
    <3> QED
      BY <3>1, <3>3
  <2>2. Kept(d)
    BY OfDocument
  <2> QED
    BY <1>1, <2>1, <2>2 DEF Kept, BookedAs, There
<1>4. RequestsOK'
  <2>1. ASSUME NEW r \in Requests
        PROVE  /\ At(r, "idle")' \/ Underway(r)'
               /\ Holding(r)' => Informed(r)'
               /\ At(r, "charted")' => Charted(r)'
    <3>1. Underway(r) => Underway(r)'
      BY <1>1 DEF Underway, There, At, Holding
    <3> QED
      BY <1>1, <3>1, OfRequest DEF Informed, Charted, There, At, Holding
  <2> QED
    BY <1>1, <2>1 DEF BookInv, RequestsOK
<1> QED
  BY <1>1, <1>2, <1>3, <1>4 DEF BookInv

-----------------------------------------------------------------------------
(* Nothing changes when nothing happens.                                    *)
LEMMA StutterBook == ASSUME BookInv, UNCHANGED bookVars PROVE BookInv'
<1>1. /\ accounts' = accounts /\ document' = document /\ ledger' = ledger /\ day' = day
      /\ request' = request
  BY DEF bookVars
<1>2. DocumentsOK' /\ LocksHeldOnce' /\ \A d \in Documents : Kept(d)'
  BY <1>1 DEF BookInv, DocumentsOK, LocksHeldOnce, Kept, BookedAs, There, Holding, At
<1>3. RequestsOK'
  <2>1. ASSUME NEW r \in Requests
        PROVE  /\ At(r, "idle")' \/ Underway(r)'
               /\ Holding(r)' => Informed(r)'
               /\ At(r, "charted")' => Charted(r)'
    BY <1>1, OfRequest DEF Underway, Informed, Charted, There, At, Holding
  <2> QED
    BY <1>1, <2>1 DEF BookInv, RequestsOK
<1> QED
  BY <1>1, <1>2, <1>3 DEF BookInv

(* Every step keeps the books.                                              *)
LEMMA StepBook == BookInv /\ [Next]_vars => BookInv'
<1> SUFFICES ASSUME BookInv, [Next]_vars PROVE BookInv'
  OBVIOUS
<1>1. CASE UNCHANGED bookVars
  BY <1>1, StutterBook
<1>2. CASE BookNext
  <2>1. CASE \E r \in Requests :
               Arrive(r) \/ Read(r) \/ ensure_system_accounts(r) \/ Commit(r) \/ Conflict(r)
    BY <2>1, ArriveBook, ReadBook, ChartBook, CommitBook, EndBook DEF Conflict
  <2> QED
    BY <1>2, <2>1, TomorrowBook DEF BookNext
<1> QED
  BY <1>1, <1>2 DEF Next, vars, bookVars, Ask, ReadOn, Close

(* What a step may do to one document and its entries.                      *)
KeepsMatched(d) ==
    \/ Matched(d)'
    \/ UNCHANGED <<document[d], ledger[d]>>
    \/ \E r \in Requests : /\ OutdatedEdit(r) /\ request[r].op.id = d
                           /\ \E total \in {request[r].total} : Posted(d, total)'

(* A commit leaves its document matched; an outdated edit, with the entries *)
(* of the total it has computed.                                            *)
LEMMA CommitMatches ==
    ASSUME BookInv, NEW r \in Requests, Commit(r), NEW d \in Documents
    PROVE  KeepsMatched(d)
<1> DEFINE op  == request[r].op
           row == request[r].row
           on  == request[r].day
           total == request[r].total
<1>1. /\ Ready(r)
      /\ document' = [document EXCEPT ![op.id] = row]
      /\ ledger' = [ledger EXCEPT ![op.id] =
            IF Deletes(op) THEN {} ELSE IF Posts(r) THEN Posting(op.id, row, total, on) ELSE @]
  BY DEF Commit
<1>2. Holding(r)
  BY <1>1 DEF Ready, Holding
<1>3. Underway(r) /\ Informed(r)
  BY <1>2, OfRequest DEF Holding, At
<1>4. CASE d # op.id
  BY <1>1, <1>4 DEF BookInv, DocumentsOK, KeepsMatched
<1>5. CASE d = op.id
  <2>1. /\ document'[d] = row
        /\ ledger'[d] = IF Deletes(op) THEN {} ELSE IF Posts(r) THEN Posting(d, row, total, on) ELSE ledger[d]
    BY <1>1, <1>5 DEF BookInv, DocumentsOK
  <2>2. /\ Deletes(op) => row = GoneRow
        /\ ~Deletes(op) => Priced(op, request[r].seen, request[r].was, row, total)
        /\ request[r].was = document[d]
    BY <1>3, <1>5 DEF Informed
  <2> HIDE DEF row, on, total
  <2>3. CASE Deletes(op)
    <3>1. document'[d] = GoneRow /\ ledger'[d] = {}
      BY <2>1, <2>2, <2>3
    <3>2. Matched(d)'
      BY <3>1, RowsDiffer DEF Matched, Posted, There
    <3> QED
      BY <3>2 DEF KeepsMatched
  <2>4. CASE ~Deletes(op) /\ ~Posts(r)
    <3>1. request[r].was = row
      BY <2>4 DEF Posts, Reposts, row
    <3>2. document'[d] = document[d] /\ ledger'[d] = ledger[d]
      BY <2>1, <2>2, <2>4, <3>1
    <3> QED
      BY <3>2 DEF KeepsMatched
  <2>5. CASE ~Deletes(op) /\ Posts(r)
    <3>1. BookInv'
      BY CommitBook
    <3>2. Kept(d)' /\ There(d)'
      <4>1. row.status = "there"
        BY <1>3, <2>5 DEF Informed, row
      <4> QED
        BY <2>1, <3>1, <4>1 DEF BookInv, There
    <3>3. on \in document'[d].day .. day' /\ ledger'[d] = Posting(d, document'[d], total, on)
      <4>1. RowOK(d, row) /\ row.day <= on /\ on \in Nat /\ on <= day
        BY <1>3, <1>5, <2>5 DEF Informed, Underway, row, on
      <4>2. day' = day /\ day \in Nat
        BY DEF Commit, BookInv
      <4> QED
        BY <2>1, <2>5, <4>1, <4>2 DEF RowOK
    <3>4. \A some : some = total => Posted(d, some)'
      BY <3>2, <3>3 DEF Posted, Kept
    <3>5. CASE op.do = "update_sale" => request[r].seen.figure.total = request[r].was.figure.total
      <4>1. total = RowTotal(d, row)
        BY <1>5, <2>2, <2>5, <3>5 DEF Priced
      <4>2. Matched(d)'
        BY <2>1, <3>4, <4>1 DEF Matched
      <4> QED
        BY <4>2 DEF KeepsMatched
    <3>6. CASE ~(op.do = "update_sale" => request[r].seen.figure.total = request[r].was.figure.total)
      <4>1. OutdatedEdit(r)
        BY <3>6 DEF OutdatedEdit
      <4>2. \E some \in {request[r].total} : Posted(d, some)'
        BY <3>4 DEF total
      <4> QED
        BY <1>5, <4>1, <4>2 DEF KeepsMatched
    <3> QED
      BY <3>5, <3>6
  <2> QED
    BY <2>3, <2>4, <2>5
<1> QED
  BY <1>4, <1>5

LEMMA StepMatches == BookInv /\ [Next]_vars => \A d \in Documents : KeepsMatched(d)
<1> SUFFICES ASSUME BookInv, [Next]_vars, NEW d \in Documents PROVE KeepsMatched(d)
  OBVIOUS
<1>1. CASE UNCHANGED <<document, ledger>>
  BY <1>1 DEF KeepsMatched
<1>2. CASE \E r \in Requests : Commit(r)
  BY <1>2, CommitMatches
<1> QED
  BY <1>1, <1>2 DEF Next, vars, bookVars, Ask, ReadOn, Close, BookNext, Arrive, Read,
     ensure_system_accounts, Conflict, Tomorrow

(* Each document begins with exactly the entries its row calls for, in      *)
(* accounts that exist, and every commit that touches it or its entries     *)
(* leaves it so: update_expense, update_sale, the deletes and the first     *)
(* postings of a shop, overlapping as they may.  Only an edit of a sale     *)
(* whose total was changed between its load and its lock may leave the      *)
(* entries of the total that the edit computed (update_sale works on the    *)
(* copy that api/sales.py loads first).                                     *)
THEOREM BooksMatchEveryDocument == Spec => BooksMatchDocuments
<1>1. Init => BookInv /\ \A d \in Documents : Matched(d)
  BY InitBook DEF Init
<1>2. BookInv /\ [Next]_vars =>
        [\A d \in Documents :
              \/ Matched(d)'
              \/ UNCHANGED <<document[d], ledger[d]>>
              \/ \E r \in Requests : /\ OutdatedEdit(r) /\ request[r].op.id = d
                                     /\ \E total \in {request[r].total} : Posted(d, total)']_bookVars
  BY StepMatches DEF KeepsMatched
<1> QED
  BY <1>1, <1>2, StepBook, PTL DEF Spec, BooksMatchDocuments

-----------------------------------------------------------------------------
(* Invoice numbers.  Committed sales differ in their numbers, since the     *)
(* unique key lets no other commit; so a number a request has from the shop *)
(* or from its own sale can only be that of a sale somebody wrote it for,   *)
(* as long as nobody else gets one from the shop, which the lock prevents.  *)
OpNumbers(op) ==
    /\ op.do = "create_sale" => op.number \in Numbers \cup {Automatic}
    /\ op.do = "update_sale" => op.number \in Numbers \cup {Same}

SalesNumbered ==
    \A s \in Sales : There(s) => document[s].number \in Nat /\ document[s].written \in BOOLEAN

Numbered(op, row) ==
    /\ row.number \in Nat /\ row.written \in BOOLEAN
    /\ op.do = "create_sale" /\ ~row.written =>
          /\ op.number = Automatic
          /\ \A s \in Sales : There(s) /\ document[s].number = row.number => document[s].written
    /\ op.do = "update_sale" /\ ~row.written =>
          ~document[op.id].written /\ document[op.id].number = row.number

NumberedRequest(r) ==
    LET op == request[r].op
    IN  /\ ~At(r, "idle") => OpNumbers(op)
        /\ Holding(r) /\ op.id \in Sales /\ ~Deletes(op) => Numbered(op, request[r].row)

NumberInv ==
    SalesNumbered /\ NumbersDiffer(document) /\ \A r \in Requests : NumberedRequest(r)

(* The number the shop gives is not in use.                                 *)
LEMMA FreshNumber ==
    ASSUME SalesNumbered
    PROVE  /\ _allocate_invoice_number \in Nat
           /\ \A s \in Sales : There(s) => document[s].number # _allocate_invoice_number
<1> DEFINE N == NumbersInUse \cup {0}
           S == {s \in Sales : There(s)}
           f == [s \in S |-> document[s].number]
<1>1. N \subseteq Nat /\ N # {}
  BY DEF SalesNumbered, NumbersInUse
<1>2. IsFiniteSet(N)
  <2>1. S \in SUBSET (Sales \cup Expenses)
    OBVIOUS
  <2>2. IsFiniteSet(S)
    BY <2>1, BookkeepingAssumption, FS_Subset
  <2>3. IsFiniteSet({f[s] : s \in S})
    BY <2>2, ColumnIsFinite
  <2>4. NumbersInUse = {f[s] : s \in S}
    BY DEF NumbersInUse
  <2> QED
    BY <2>3, <2>4, FS_AddElement
<1> HIDE DEF N
<1>3. \E m \in N : \A k \in N : m >= k
  BY <1>1, <1>2, LargestNumber
<1>4. Max(N) \in N /\ \A k \in N : Max(N) >= k
  BY <1>3 DEF Max
<1>5. ASSUME NEW m \in N, \A k \in N : m >= k
      PROVE  m \in Nat /\ m + 1 \in Nat /\ m + 1 \notin N
  <2>1. m \in Nat /\ ~(m >= m + 1)
    BY <1>1
  <2> QED
    BY <1>5, <2>1
<1>6. _allocate_invoice_number = Max(N) + 1
  BY DEF _allocate_invoice_number, N
<1>7. \A s \in Sales : There(s) => document[s].number \in N
  BY DEF N, NumbersInUse
<1> QED
  BY <1>4, <1>5, <1>6, <1>7

(* A sale as it is numbered under the lock.                                 *)
LEMMA ChangedNumber ==
    ASSUME SalesNumbered, NEW op, OpNumbers(op), op.id \in Sales, OpOK(op), ~Deletes(op),
           op.do = "update_sale" => There(op.id), NEW seen, NEW on
    PROVE  Numbered(op, Changed(op, document[op.id], seen, on))
<1> DEFINE old == document[op.id]
           new == Changed(op, old, seen, on)
<1> SUFFICES Numbered(op, new)
  OBVIOUS
<1> HIDE DEF new
<1>1. CASE op.do = "create_sale"
  <2> DEFINE number == IF op.number = Automatic THEN _allocate_invoice_number ELSE op.number
  <2>1. new = SaleRow(FigureOf(op.lines, op.discount), TenderOf(op), number, op.number # Automatic, on)
    BY <1>1 DEF new, Changed, Deletes
  <2>2. new.number = number /\ new.written = (op.number # Automatic)
    BY <2>1 DEF SaleRow
  <2>3. CASE op.number = Automatic
    <3>1. new.number = _allocate_invoice_number
      BY <2>2, <2>3
    <3> QED
      BY <1>1, <2>2, <2>3, <3>1, FreshNumber DEF Numbered
  <2>4. CASE op.number # Automatic
    <3>1. op.number \in Numbers
      BY <1>1, <2>4 DEF OpNumbers
    <3>2. op.number \in Nat
      BY <3>1, BookkeepingAssumption
    <3>3. new.number = op.number
      BY <2>2, <2>4
    <3> QED
      BY <1>1, <2>2, <2>4, <3>2, <3>3 DEF Numbered
  <2> QED
    BY <2>3, <2>4
<1>2. CASE op.do = "update_sale"
  <2> DEFINE edited == Edited(seen.number, op.number)
  <2>1. new = SaleRow(FlushedFigure(op, old.figure, seen.figure), old.tender,
                      Column(old.number, seen.number, edited),
                      old.written \/ edited # seen.number, old.day)
    BY <1>2 DEF new, Changed, Deletes
  <2>2. /\ new.number = Column(old.number, seen.number, edited)
        /\ new.written = (old.written \/ edited # seen.number)
    BY <2>1 DEF SaleRow
  <2>3. old.number \in Nat /\ old.written \in BOOLEAN
    BY <1>2 DEF SalesNumbered
  <2>4. CASE edited = seen.number
    <3>1. new.number = old.number
      BY <2>2, <2>4 DEF Column
    <3> QED
      BY <1>2, <2>2, <2>3, <2>4, <3>1 DEF Numbered
  <2>5. CASE edited # seen.number
    <3>1. op.number \in Numbers /\ edited = op.number
      BY <1>2, <2>5 DEF OpNumbers, Edited
    <3>2. op.number \in Nat
      BY <3>1, BookkeepingAssumption
    <3>3. new.number = op.number
      BY <2>2, <2>5, <3>1 DEF Column
    <3> QED
      BY <1>2, <2>2, <2>3, <2>5, <3>2, <3>3 DEF Numbered
  <2> QED
    BY <2>4, <2>5
<1> QED
  BY <1>1, <1>2, BookkeepingAssumption DEF OpOK, Deletes

(* The shop starts with numbers that differ.                                *)
LEMMA InitNumbers == BookInit => NumberInv
<1> SUFFICES ASSUME BookInit PROVE NumberInv
  OBVIOUS
<1>1. PICK shop \in FirstShops : document = shop.document
  BY DEF BookInit
<1>2. NumbersDiffer(document)
  BY <1>1, FirstShopsAssumption
<1>3. SalesNumbered
  <2>1. ASSUME NEW s \in Sales, There(s)
        PROVE  document[s].number \in Nat /\ document[s].written \in BOOLEAN
    BY <1>1, <2>1, FirstShopsAssumption, RowsDiffer DEF FirstRow, There, Documents
  <2> QED
    BY <2>1 DEF SalesNumbered
<1>4. \A r \in Requests : NumberedRequest(r)
  BY DEF BookInit, NumberedRequest, Holding, At, Idle
<1> QED
  BY <1>2, <1>3, <1>4 DEF NumberInv

(* A step of one request that commits nothing.                              *)
LEMMA RequestNumbers ==
    ASSUME BookInv, NumberInv, NEW r \in Requests, NEW next, UNCHANGED document,
           request' = [request EXCEPT ![r] = next], NumberedRequest(r)'
    PROVE  NumberInv'
<1>1. \A u \in Requests \ {r} : request'[u] = request[u]
  BY DEF BookInv, RequestsOK
<1>2. ASSUME NEW u \in Requests \ {r}
      PROVE  NumberedRequest(u)'
  BY <1>1, <1>2 DEF NumberInv, NumberedRequest, Numbered, Holding, At, There
<1>3. SalesNumbered' /\ NumbersDiffer(document)'
  BY DEF NumberInv, SalesNumbered, NumbersDiffer, There
<1> QED
  BY <1>2, <1>3 DEF NumberInv

(* A request that ends without a commit.                                    *)
LEMMA EndNumbers ==
    ASSUME BookInv, NumberInv, NEW r \in Requests, UNCHANGED document,
           request' = [request EXCEPT ![r] = Idle]
    PROVE  NumberInv'
<1>1. request'[r] = Idle
  BY DEF BookInv, RequestsOK
<1>2. NumberedRequest(r)'
  BY <1>1 DEF NumberedRequest, Holding, At, Idle
<1> QED
  BY <1>2, RequestNumbers

(* A request arrives with a number somebody wrote, or none.                 *)
LEMMA ArriveNumbers ==
    ASSUME BookInv, NumberInv, NEW r \in Requests, Arrive(r)
    PROVE  NumberInv'
<1>1. PICK op \in (UNION {SaleOps(s) : s \in Sales}) \cup (UNION {ExpenseOps(e) : e \in Expenses}) :
          request' = [request EXCEPT ![r] =
              [at |-> "begin", op |-> op, day |-> day, seen |-> document[op.id]]]
  BY DEF Arrive
<1>2. OpNumbers(op)
  <2>1. CASE \E s \in Sales : op \in SaleOps(s)
    <3>1. PICK s \in Sales : op \in SaleOps(s)
      BY <2>1
    <3>2. CASE document[s].status = "new"
      BY <3>1, <3>2 DEF SaleOps, OpNumbers
    <3>3. CASE document[s].status = "there"
      BY <3>1, <3>3 DEF SaleOps, OpNumbers
    <3> QED
      BY <3>1, <3>2, <3>3 DEF SaleOps
  <2>2. CASE \E e \in Expenses : op \in ExpenseOps(e)
    <3>1. PICK e \in Expenses : op \in ExpenseOps(e)
      BY <2>2
    <3>2. CASE document[e].status = "new"
      BY <3>1, <3>2 DEF ExpenseOps, OpNumbers
    <3>3. CASE document[e].status = "there"
      BY <3>1, <3>3 DEF ExpenseOps, OpNumbers
    <3> QED
      BY <3>1, <3>2, <3>3 DEF ExpenseOps
  <2>3. \/ \E s \in Sales : op \in SaleOps(s)
        \/ \E e \in Expenses : op \in ExpenseOps(e)
    OBVIOUS
  <2> QED
    BY <2>1, <2>2, <2>3
<1>3. request'[r].op = op /\ ~Holding(r)'
  BY <1>1 DEF BookInv, RequestsOK, Holding, At
<1>4. NumberedRequest(r)'
  BY <1>2, <1>3 DEF NumberedRequest, OpNumbers
<1> QED
  BY <1>1, <1>4, RequestNumbers DEF Arrive

(* A request takes its number under the lock.                               *)
LEMMA ReadNumbers ==
    ASSUME BookInv, NumberInv, NEW r \in Requests, Read(r)
    PROVE  NumberInv'
<1> DEFINE op   == request[r].op
           was  == document[op.id]
           seen == request[r].seen
           row  == Changed(op, was, seen, request[r].day)
           total == TotalToPost(op, row, seen)
           next == [at |-> "read", op |-> op, day |-> request[r].day, seen |-> seen, was |-> was,
                    row |-> row, total |-> total]
<1>1. UNCHANGED document /\ At(r, "begin")
  BY DEF Read
<1>2. CASE request' = [request EXCEPT ![r] = Idle]
  BY <1>1, <1>2, EndNumbers
<1>3. CASE ~(~Creates(op) /\ ~There(op.id)) /\ request' = [request EXCEPT ![r] = next]
  <2>1. Underway(r) /\ ~At(r, "idle")
    BY <1>1, OfRequest DEF At
  <2>2. OpOK(op) /\ OpNumbers(op) /\ SalesNumbered
    BY <2>1 DEF Underway, NumberInv, NumberedRequest
  <2>3. op.id \in Sales /\ ~Deletes(op) => Numbered(op, row)
    BY <1>3, <2>2, ChangedNumber DEF Creates
  <2> HIDE DEF row, total
  <2>4. request'[r].op = op /\ request'[r].row = row
    BY <1>3 DEF BookInv, RequestsOK
  <2>5. NumberedRequest(r)'
    BY <1>1, <2>2, <2>3, <2>4 DEF NumberedRequest, OpNumbers, Numbered, There, Deletes
  <2> QED
    BY <1>1, <1>3, <2>5, RequestNumbers
<1> QED
  BY <1>2, <1>3 DEF Read

(* Completing the chart changes no number.                                  *)
LEMMA ChartNumbers ==
    ASSUME BookInv, NumberInv, NEW r \in Requests, ensure_system_accounts(r)
    PROVE  NumberInv'
<1> DEFINE op   == request[r].op
           row  == request[r].row
           next == [at |-> "charted", op |-> op, day |-> request[r].day, seen |-> request[r].seen,
                    was |-> request[r].was, row |-> row, total |-> request[r].total,
                    missing |-> Accounts \ accounts]
<1>1. At(r, "read") /\ UNCHANGED document /\ request' = [request EXCEPT ![r] = next]
  BY DEF ensure_system_accounts
<1>2. OpNumbers(op) /\ (op.id \in Sales /\ ~Deletes(op) => Numbered(op, row))
  BY <1>1 DEF NumberInv, NumberedRequest, Holding, At
<1>3. request'[r].op = op /\ request'[r].row = row
  BY <1>1 DEF BookInv, RequestsOK
<1>4. NumberedRequest(r)'
  BY <1>1, <1>2, <1>3 DEF NumberedRequest, OpNumbers, Numbered, There, Deletes
<1> QED
  BY <1>1, <1>4, RequestNumbers

(* What a request would write is all that its commit writes, and nobody     *)
(* else that holds a lock is at that document.                              *)
LEMMA CommitAlone ==
    ASSUME BookInv, NEW r \in Requests, Commit(r),
           NEW u \in Requests \ {r}, Holding(u)
    PROVE  request[u].op.id # request[r].op.id
<1> SUFFICES ASSUME request[u].op.id = request[r].op.id PROVE FALSE
  OBVIOUS
<1>1. Holding(r)
  BY DEF Commit, Ready, Holding
<1>2. Underway(r) /\ Underway(u) /\ ~At(r, "idle") /\ ~At(u, "idle")
  BY <1>1, OfRequest DEF Holding, At
<1>3. CASE Creates(request[r].op)
  BY <1>2, <1>3 DEF Underway
<1>4. CASE Creates(request[u].op)
  BY <1>2, <1>4 DEF Underway
<1>5. CASE ~Creates(request[r].op) /\ ~Creates(request[u].op)
  <2>1. LockOf(request[r].op) = {request[r].op.id} /\ LockOf(request[u].op) = {request[u].op.id}
    BY <1>5 DEF LockOf, Creates
  <2> QED
    BY <1>1, <2>1 DEF BookInv, LocksHeldOnce
<1> QED
  BY <1>3, <1>4, <1>5

(* A commit keeps the numbers apart, and with them every other request's.   *)
LEMMA CommitNumbers ==
    ASSUME BookInv, NumberInv, NEW r \in Requests, Commit(r)
    PROVE  NumberInv'
<1> DEFINE op  == request[r].op
           row == request[r].row
<1>1. Holding(r) /\ ~At(r, "idle") /\ ~NumberTaken(r)
  BY DEF Commit, Ready, Holding, At, Conflicts
<1>2. Underway(r) /\ Informed(r) /\ NumberedRequest(r)
  BY <1>1, OfRequest DEF NumberInv
<1>3. op.id \in Documents
  BY <1>2 DEF Underway, OpOK, Documents
<1>4. /\ document'[op.id] = row
      /\ \A d \in Documents \ {op.id} : document'[d] = document[d]
  BY <1>3 DEF Commit, BookInv, DocumentsOK
<1>5. /\ request'[r] = Idle
      /\ \A u \in Requests \ {r} : request'[u] = request[u]
  BY DEF Commit, BookInv, RequestsOK
<1>6. Deletes(op) => row.status # "there"
  BY <1>2, RowsDiffer DEF Informed
<1>7. op.id \in Sales /\ ~Deletes(op) => Numbered(op, row)
  BY <1>1, <1>2 DEF NumberedRequest
<1>8. op.id \in Sales /\ ~Deletes(op) =>
        \A s \in Sales \ {op.id} : There(s) => document[s].number # row.number
  BY <1>1 DEF NumberTaken
<1>9. \A s \in Sales : s \in Documents
  BY DEF Documents
<1>10. ASSUME NEW s \in Sales, There(s)'
       PROVE  \/ s # op.id /\ There(s) /\ document'[s] = document[s]
              \/ s = op.id /\ ~Deletes(op) /\ document'[s] = row
  BY <1>4, <1>6, <1>9, <1>10 DEF There
<1> HIDE DEF op, row
<1>11. SalesNumbered'
  BY <1>7, <1>10 DEF NumberInv, SalesNumbered, Numbered
<1>12. NumbersDiffer(document)'
  <2>1. ASSUME NEW s \in Sales, NEW t \in Sales, There(s)', There(t)',
               document'[s].number = document'[t].number
        PROVE  s = t
    <3>1. \/ s # op.id /\ There(s) /\ document'[s] = document[s]
          \/ s = op.id /\ ~Deletes(op) /\ document'[s] = row
      BY <1>10, <2>1
    <3>2. \/ t # op.id /\ There(t) /\ document'[t] = document[t]
          \/ t = op.id /\ ~Deletes(op) /\ document'[t] = row
      BY <1>10, <2>1
    <3> QED
      BY <1>8, <2>1, <3>1, <3>2 DEF NumberInv, NumbersDiffer, There
  <2> QED
    BY <2>1 DEF NumbersDiffer, There
<1>13. ASSUME NEW u \in Requests \ {r}
       PROVE  NumberedRequest(u)'
  <2> DEFINE its  == request[u].op
             goal == request[u].row
  <2>1. NumberedRequest(u)
    BY DEF NumberInv
  <2>2. ASSUME Holding(u), its.id \in Sales, ~Deletes(its)
        PROVE  /\ Numbered(its, goal)
               /\ its.do = "create_sale" /\ ~goal.written =>
                     \A s \in Sales : There(s)' /\ document'[s].number = goal.number
                                         => document'[s].written
               /\ document'[its.id] = document[its.id]
    <3>1. Numbered(its, goal)
      BY <2>1, <2>2 DEF NumberedRequest
    <3>2. its.id # op.id
      BY <2>2, CommitAlone DEF op
    <3>3. ASSUME its.do = "create_sale", ~goal.written,
                 NEW s \in Sales, There(s)', document'[s].number = goal.number
          PROVE  document'[s].written
      <4>0. CASE s # op.id /\ There(s) /\ document'[s] = document[s]
        BY <3>1, <3>3, <4>0 DEF Numbered
      <4> HIDE DEF its, goal
      <4>1. CASE s = op.id /\ ~Deletes(op) /\ document'[s] = row
        <5> SUFFICES ASSUME ~row.written PROVE FALSE
          BY <4>1
        <5>1. Numbered(op, row) /\ row.number = goal.number
          BY <1>7, <3>3, <4>1
        <5>2. CASE op.do = "create_sale"
          <6>1. op.number = Automatic /\ its.number = Automatic
            BY <3>1, <3>3, <5>1, <5>2 DEF Numbered
          <6>2. LockOf(op) = {"shop"} /\ LockOf(its) = {"shop"}
            BY <3>3, <5>2, <6>1 DEF LockOf
          <6> QED
            BY <1>1, <2>2, <6>2 DEF BookInv, LocksHeldOnce, op, its
        <5>3. CASE op.do = "update_sale"
          <6>1. ~document[op.id].written /\ document[op.id].number = goal.number
            BY <5>1, <5>3 DEF Numbered
          <6>2. There(op.id)
            BY <1>2, <5>3 DEF Informed, Creates, op
          <6> QED
            BY <3>1, <3>3, <4>1, <6>1, <6>2 DEF Numbered
        <5>4. op.do \in {"create_sale", "update_sale"}
          BY <1>2, <4>1, BookkeepingAssumption DEF Underway, OpOK, Deletes, op
        <5> QED
          BY <5>2, <5>3, <5>4
      <4> QED
        BY <1>10, <3>3, <4>0, <4>1
    <3>4. document'[its.id] = document[its.id]
      BY <1>4, <1>9, <2>2, <3>2
    <3> QED
      BY <3>1, <3>3, <3>4
  <2>3. request'[u] = request[u]
    BY <1>5
  <2> QED
    BY <2>1, <2>2, <2>3 DEF NumberedRequest, OpNumbers, Numbered, Holding, At, There, Deletes
<1>14. NumberedRequest(r)'
  BY <1>5 DEF NumberedRequest, Holding, At, Idle
<1> QED
  BY <1>11, <1>12, <1>13, <1>14 DEF NumberInv

(* A step that changes neither documents nor requests.                      *)
LEMMA StutterNumbers ==
    ASSUME NumberInv, UNCHANGED <<document, request>>
    PROVE  NumberInv'
<1>1. SalesNumbered' /\ NumbersDiffer(document)'
  BY DEF NumberInv, SalesNumbered, NumbersDiffer, There
<1>2. ASSUME NEW u \in Requests
      PROVE  NumberedRequest(u)'
  BY DEF NumberInv, NumberedRequest, OpNumbers, Numbered, Holding, At, There, Deletes
<1> QED
  BY <1>1, <1>2 DEF NumberInv

LEMMA StepNumbers == BookInv /\ NumberInv /\ [Next]_vars => NumberInv'
<1> SUFFICES ASSUME BookInv, NumberInv, [Next]_vars PROVE NumberInv'
  OBVIOUS
<1>1. CASE UNCHANGED bookVars
  BY <1>1, StutterNumbers DEF bookVars
<1>2. CASE BookNext
  <2>1. CASE \E r \in Requests :
               Arrive(r) \/ Read(r) \/ ensure_system_accounts(r) \/ Commit(r) \/ Conflict(r)
    BY <2>1, ArriveNumbers, ReadNumbers, ChartNumbers, CommitNumbers, EndNumbers DEF Conflict
  <2>2. CASE Tomorrow
    BY <2>2, StutterNumbers DEF Tomorrow
  <2> QED
    BY <1>2, <2>1, <2>2 DEF BookNext
<1> QED
  BY <1>1, <1>2 DEF Next, vars, bookVars, Ask, ReadOn, Close

(* Why a request ready to commit fails on a unique key, in any state.       *)
Explained(r) ==
    Ready(r) /\ Conflicts(r) =>
        \/ Missing(r) \cap accounts # {}
        \/ request[r].row.written
        \/ \E s \in Sales : There(s) /\ document[s].written
              /\ document[s].number = request[r].row.number

LEMMA EveryConflict ==
    ASSUME BookInv, NumberInv, NEW r \in Requests
    PROVE  Explained(r)
<1> DEFINE op  == request[r].op
           row == request[r].row
<1> SUFFICES ASSUME Ready(r), NumberTaken(r), ~row.written
             PROVE  \E s \in Sales : There(s) /\ document[s].written
                                        /\ document[s].number = row.number
  BY DEF Explained, Conflicts
<1>1. Holding(r)
  BY DEF Ready, Holding
<1>2. Underway(r) /\ Informed(r)
  BY <1>1, OfRequest DEF Holding, At
<1>3. op.id \in Sales /\ ~Deletes(op)
  BY DEF NumberTaken
<1>4. PICK s \in Sales \ {op.id} : There(s) /\ document[s].number = row.number
  BY DEF NumberTaken
<1>5. Numbered(op, row)
  BY <1>1, <1>3 DEF NumberInv, NumberedRequest
<1>6. CASE op.do = "create_sale"
  BY <1>4, <1>5, <1>6 DEF Numbered
<1>7. CASE op.do = "update_sale"
  <2>1. There(op.id)
    BY <1>2, <1>7 DEF Informed, Creates
  <2>2. document[op.id].number = row.number
    BY <1>5, <1>7 DEF Numbered
  <2> QED
    BY <1>3, <1>4, <2>1, <2>2 DEF NumberInv, NumbersDiffer, There
<1>8. op.do \in {"create_sale", "update_sale"}
  BY <1>2, <1>3, BookkeepingAssumption DEF Underway, OpOK, Deletes
<1> QED
  BY <1>6, <1>7, <1>8

(* Two sales that get their numbers from the shop never collide: the insert *)
(* or edit of a sale fails on its unique number only when somebody wrote    *)
(* that number, or with the chart of accounts completed by someone else     *)
(* (_allocate_invoice_number under the lock of the shop).                   *)
THEOREM NumbersFromTheShopNeverCollide == Spec => ConflictsAreExplained
<1>1. Init => BookInv /\ NumberInv
  BY InitBook, InitNumbers DEF Init
<1>2. BookInv /\ NumberInv /\ [Next]_vars => (BookInv /\ NumberInv)'
  BY StepBook, StepNumbers
<1>3. BookInv /\ NumberInv => (\A r \in Requests : Ready(r) /\ Conflicts(r) =>
          \/ Missing(r) \cap accounts # {}
          \/ request[r].row.written
          \/ \E s \in Sales : There(s) /\ document[s].written
                /\ document[s].number = request[r].row.number)
  BY EveryConflict DEF Explained
<1> QED
  BY <1>1, <1>2, <1>3, PTL DEF Spec, ConflictsAreExplained

-----------------------------------------------------------------------------
(* The books as sums.                                                       *)

(* The total a document has been posted with, and the day of its entries.   *)
BookedTotal(d) ==
    IF Matched(d) THEN RowTotal(d, document[d])
    ELSE CHOOSE total \in Nat : \E on \in document[d].day .. day : BookedAs(d, total, on)

PostedOn(d) == CHOOSE on \in document[d].day .. day : BookedAs(d, BookedTotal(d), on)

LEMMA PostedDay ==
    ASSUME BookInv, NEW d \in Documents, There(d)
    PROVE  /\ RowOK(d, document[d])
           /\ PostedOn(d) \in Nat \ {0} /\ PostedOn(d) <= day
           /\ ledger[d] = Posting(d, document[d], BookedTotal(d), PostedOn(d))
           /\ TotalOK(d, document[d], BookedTotal(d))
<1>1. RowOK(d, document[d])
  BY OfDocument, RowsDiffer DEF There
<1>2. \E on \in document[d].day .. day : BookedAs(d, BookedTotal(d), on)
  <2>1. CASE Matched(d)
    <3>1. BookedTotal(d) = RowTotal(d, document[d])
      BY <2>1 DEF BookedTotal
    <3>2. TotalOK(d, document[d], RowTotal(d, document[d]))
      BY <1>1, OwnTotal DEF There
    <3> QED
      BY <2>1, <3>1, <3>2 DEF Matched, Posted, BookedAs
  <2>2. CASE ~Matched(d)
    <3>1. \E total \in Nat : \E on \in document[d].day .. day : BookedAs(d, total, on)
      BY OfDocument DEF Kept
    <3>2. BookedTotal(d) = CHOOSE total \in Nat : \E on \in document[d].day .. day : BookedAs(d, total, on)
      BY <2>2 DEF BookedTotal
    <3> QED
      BY <3>1, <3>2
  <2> QED
    BY <2>1, <2>2
<1>3. PostedOn(d) \in document[d].day .. day /\ BookedAs(d, BookedTotal(d), PostedOn(d))
  BY <1>2 DEF PostedOn
<1> QED
  BY <1>1, <1>3 DEF BookInv, RowOK, BookedAs

(* The five entries of a sale.                                              *)
PaidEntry(s)    == Entry(document[s].tender.method, "debit", document[s].tender.paid, PostedOn(s))
DueEntry(s)     == Entry("receivable", "debit", BookedTotal(s) - document[s].tender.paid, PostedOn(s))
RevenueEntry(s) == Entry("sales_revenue", "credit", BookedTotal(s), PostedOn(s))
CogsEntry(s)    == Entry("cogs", "debit", document[s].figure.cost, PostedOn(s))
StockEntry(s)   == Entry("inventory", "credit", document[s].figure.cost, PostedOn(s))

FiveEntries(s) == {PaidEntry(s), DueEntry(s), RevenueEntry(s), CogsEntry(s), StockEntry(s)}

LEMMA EntryFields ==
    ASSUME NEW account, NEW side, NEW amount, NEW on
    PROVE  /\ Entry(account, side, amount, on).account = account
           /\ Entry(account, side, amount, on).side = side
           /\ Entry(account, side, amount, on).amount = amount
           /\ Entry(account, side, amount, on).day = on
BY DEF Entry

LEMMA SaleFields ==
    ASSUME NEW s
    PROVE  /\ PaidEntry(s).account = document[s].tender.method /\ PaidEntry(s).side = "debit"
           /\ PaidEntry(s).amount = document[s].tender.paid /\ PaidEntry(s).day = PostedOn(s)
           /\ DueEntry(s).account = "receivable" /\ DueEntry(s).side = "debit"
           /\ DueEntry(s).amount = BookedTotal(s) - document[s].tender.paid
           /\ DueEntry(s).day = PostedOn(s)
           /\ RevenueEntry(s).account = "sales_revenue" /\ RevenueEntry(s).side = "credit"
           /\ RevenueEntry(s).amount = BookedTotal(s) /\ RevenueEntry(s).day = PostedOn(s)
           /\ CogsEntry(s).account = "cogs" /\ CogsEntry(s).side = "debit"
           /\ CogsEntry(s).amount = document[s].figure.cost /\ CogsEntry(s).day = PostedOn(s)
           /\ StockEntry(s).account = "inventory" /\ StockEntry(s).side = "credit"
           /\ StockEntry(s).amount = document[s].figure.cost /\ StockEntry(s).day = PostedOn(s)
BY EntryFields DEF PaidEntry, DueEntry, RevenueEntry, CogsEntry, StockEntry

(* None of an amount that is 0.                                             *)
LEMMA SaleEntries ==
    ASSUME BookInv, NEW s \in Sales, There(s)
    PROVE  /\ ledger[s] = {e \in FiveEntries(s) : e.amount # 0}
           /\ BookedTotal(s) \in Nat /\ document[s].figure.cost \in Nat
           /\ document[s].tender.paid \in Nat /\ document[s].tender.paid <= BookedTotal(s)
           /\ document[s].tender.method \in Methods
<1> DEFINE total  == BookedTotal(s)
           tender == document[s].tender
           cost   == document[s].figure.cost
           on     == PostedOn(s)
<1>1. s \in Documents
  BY DEF Documents
<1>2. /\ RowOK(s, document[s]) /\ ledger[s] = Posting(s, document[s], total, on)
      /\ TotalOK(s, document[s], total)
  BY <1>1, PostedDay
<1>3. /\ total \in Nat /\ cost \in Nat /\ tender.paid \in Nat /\ tender.paid <= total
      /\ tender.method \in Methods
  BY <1>2 DEF RowOK, TotalOK, FigureOK, TenderOK
<1>4. ledger[s] = post_sale(total, tender, on) \cup post_cogs(cost, on)
  BY <1>2 DEF Posting
<1>5. post_cogs(cost, on) = {e \in {CogsEntry(s), StockEntry(s)} : e.amount # 0}
  <2>1. post_cogs(cost, on) = {e \in {CogsEntry(s), StockEntry(s)} : cost # 0}
    BY DEF post_cogs, CogsEntry, StockEntry
  <2>2. CogsEntry(s).amount = cost /\ StockEntry(s).amount = cost
    BY SaleFields
  <2> HIDE DEF cost
  <2> QED
    BY <2>1, <2>2
<1>6. post_sale(total, tender, on) = {e \in {PaidEntry(s), DueEntry(s), RevenueEntry(s)} : e.amount # 0}
  <2>1. post_sale(total, tender, on)
          = {e \in {PaidEntry(s), DueEntry(s), RevenueEntry(s)} : total # 0 /\ e.amount # 0}
    BY DEF post_sale, PaidEntry, DueEntry, RevenueEntry
  <2>2. /\ PaidEntry(s).amount = tender.paid /\ DueEntry(s).amount = total - tender.paid
        /\ RevenueEntry(s).amount = total
    BY SaleFields
  <2> HIDE DEF total, tender
  <2>3. total = 0 => PaidEntry(s).amount = 0 /\ DueEntry(s).amount = 0 /\ RevenueEntry(s).amount = 0
    BY <1>3, <2>2
  <2> QED
    BY <2>1, <2>3
<1> QED
  BY <1>3, <1>4, <1>5, <1>6, Zenon DEF FiveEntries

(* The entries of an expense.                                               *)
LEMMA ExpenseEntries ==
    ASSUME BookInv, NEW x \in Expenses, There(x)
    PROVE  /\ ledger[x] = {Entry(document[x].category, "debit", document[x].amount, PostedOn(x)),
                           Entry(document[x].method, "credit", document[x].amount, PostedOn(x))}
           /\ document[x].category \in Categories /\ document[x].amount \in Nat \ {0}
           /\ document[x].method \in Methods
<1>1. x \in Documents /\ x \notin Sales
  BY BookkeepingAssumption DEF Documents
<1>2. RowOK(x, document[x]) /\ ledger[x] = Posting(x, document[x], BookedTotal(x), PostedOn(x))
  BY <1>1, PostedDay
<1> QED
  BY <1>1, <1>2, BookkeepingAssumption DEF RowOK, Posting, post_expense

(* Each entry is of a document that is there, of the day the document was   *)
(* posted, in an account of the shop.                                       *)
LEMMA OneEntry ==
    ASSUME BookInv, NEW p \in Entries
    PROVE  /\ p = <<p[1], p[2]>> /\ p[1] \in Documents /\ There(p[1]) /\ p[2] \in ledger[p[1]]
           /\ p[2].amount \in Nat /\ p[2].day = PostedOn(p[1]) /\ p[2].account \in accounts
<1>1. p = <<p[1], p[2]>> /\ p[1] \in Documents /\ p[2] \in ledger[p[1]]
  BY DEF Entries
<1>2. There(p[1]) /\ p[2].account \in accounts
  BY <1>1, OfDocument DEF Kept
<1> DEFINE d == p[1]
           e == p[2]
           on == PostedOn(d)
           amount == document[d].amount
<1> HIDE DEF d, e, on
<1>3. CASE d \in Sales
  <2>1. e \in FiveEntries(d)
    BY <1>1, <1>2, <1>3, SaleEntries DEF d, e
  <2>2. /\ BookedTotal(d) - document[d].tender.paid \in Nat /\ BookedTotal(d) \in Nat
        /\ document[d].tender.paid \in Nat /\ document[d].figure.cost \in Nat
    BY <1>2, <1>3, SaleEntries DEF d
  <2>3. e.amount \in Nat /\ e.day = on
    BY <2>1, <2>2, SaleFields DEF FiveEntries, on
  <2> QED
    BY <1>1, <1>2, <2>3 DEF d, e, on
<1>4. CASE d \in Expenses
  <2>1. /\ ledger[d] = {Entry(document[d].category, "debit", amount, on),
                        Entry(document[d].method, "credit", amount, on)}
        /\ amount \in Nat
    BY <1>2, <1>4, ExpenseEntries DEF d, on
  <2> HIDE DEF amount
  <2>2. e \in ledger[d]
    BY <1>1 DEF d, e
  <2>3. e.amount \in Nat /\ e.day = on
    BY <2>1, <2>2, EntryFields
  <2> QED
    BY <1>1, <1>2, <2>3 DEF d, e, on
<1> QED
  BY <1>1, <1>3, <1>4 DEF Documents, d

(* The entries are finitely many.                                           *)
LEMMA EntriesAreFinite ==
    ASSUME BookInv
    PROVE  IsFiniteSet(Entries)
<1> DEFINE rows == [d \in Documents |-> {d} \X ledger[d]]
           groups == {rows[d] : d \in Documents}
<1>1. IsFiniteSet(Documents)
  BY BookkeepingAssumption DEF Documents
<1>2. ASSUME NEW a, NEW b, NEW c, NEW e, NEW z
      PROVE  IsFiniteSet({a, b, c, e, z})
  <2>1. IsFiniteSet({} \cup {a})
    BY FS_EmptySet, FS_AddElement
  <2>2. IsFiniteSet(({} \cup {a}) \cup {b})
    BY <2>1, FS_AddElement
  <2>3. IsFiniteSet((({} \cup {a}) \cup {b}) \cup {c})
    BY <2>2, FS_AddElement
  <2>4. IsFiniteSet(((({} \cup {a}) \cup {b}) \cup {c}) \cup {e})
    BY <2>3, FS_AddElement
  <2>5. IsFiniteSet((((({} \cup {a}) \cup {b}) \cup {c}) \cup {e}) \cup {z})
    BY <2>4, FS_AddElement
  <2>6. (((({} \cup {a}) \cup {b}) \cup {c}) \cup {e}) \cup {z} = {a, b, c, e, z}
    OBVIOUS
  <2> QED
    BY <2>5, <2>6
<1>3. ASSUME NEW d \in Documents
      PROVE  IsFiniteSet(ledger[d])
  <2>1. CASE ~There(d)
    BY <2>1, OfDocument, FS_EmptySet DEF Kept
  <2>2. CASE There(d) /\ d \in Sales
    <3>1. ledger[d] \in SUBSET FiveEntries(d)
      BY <2>2, SaleEntries
    <3>2. IsFiniteSet(FiveEntries(d))
      BY <1>2, Zenon DEF FiveEntries
    <3> QED
      BY <3>1, <3>2, FS_Subset, Zenon
  <2>3. CASE There(d) /\ d \in Expenses
    <3> DEFINE x == Entry(document[d].category, "debit", document[d].amount, PostedOn(d))
               y == Entry(document[d].method, "credit", document[d].amount, PostedOn(d))
    <3>1. ledger[d] = {x, y}
      BY <2>3, ExpenseEntries
    <3> HIDE DEF x, y
    <3>2. IsFiniteSet({x, y, y, y, y}) /\ {x, y} = {x, y, y, y, y}
      BY <1>2, Zenon
    <3> QED
      BY <3>1, <3>2, Zenon
  <2> QED
    BY <2>1, <2>2, <2>3 DEF Documents
<1>4. ASSUME NEW d \in Documents
      PROVE  IsFiniteSet(rows[d])
  BY <1>3, FS_Singleton, FS_Product
<1>5. Entries = UNION groups
  BY DEF Entries
<1> HIDE DEF rows
<1>6. IsFiniteSet(groups)
  BY <1>1, ColumnIsFinite
<1>7. \A G \in groups : IsFiniteSet(G)
  BY <1>4
<1> HIDE DEF groups
<1> QED
  BY <1>5, <1>6, <1>7, FS_UNION

(* A statement's sum, as one over the column of all the entries.            *)
LEMMA SummedColumn ==
    ASSUME BookInv, NEW codes, NEW side, NEW from, NEW to
    PROVE  /\ Picked(codes, side, from, to) \subseteq Entries
           /\ IsFiniteSet(Picked(codes, side, from, to))
           /\ \A p \in Entries : AmountOf(Entries)[p] \in Nat /\ AmountOf(Entries)[p] = p[2].amount
           /\ Summed(codes, side, from, to) = SumOf(AmountOf(Entries), Picked(codes, side, from, to))
           /\ Summed(codes, side, from, to) \in Nat
<1> DEFINE P == Picked(codes, side, from, to)
<1>1. P \subseteq Entries
  BY DEF Picked
<1>2. IsFiniteSet(P)
  BY <1>1, EntriesAreFinite, FS_Subset
<1>3. \A p \in Entries : AmountOf(Entries)[p] \in Nat /\ AmountOf(Entries)[p] = p[2].amount
  BY OneEntry DEF AmountOf
<1>4. \A p \in P : AmountOf(P)[p] = AmountOf(Entries)[p]
  BY <1>1 DEF AmountOf
<1>5. SumOf(AmountOf(P), P) = SumOf(AmountOf(Entries), P)
  BY <1>4, SumOfSame
<1>6. SumOf(AmountOf(Entries), P) \in Nat
  BY <1>1, <1>2, <1>3, SumType
<1> QED
  BY <1>1, <1>2, <1>3, <1>5, <1>6 DEF Summed

(* Sums of different accounts add up.                                       *)
LEMMA SummedTwo ==
    ASSUME BookInv, NEW codes, NEW others, codes \cap others = {},
           NEW both, both = codes \cup others, NEW side, NEW from, NEW to
    PROVE  Summed(both, side, from, to)
             = Summed(codes, side, from, to) + Summed(others, side, from, to)
<1> DEFINE P == Picked(codes, side, from, to)
           Q == Picked(others, side, from, to)
<1>1. Picked(both, side, from, to) = P \cup Q
  BY DEF Picked
<1>2. P \cap Q = {}
  BY DEF Picked
<1>3. P \cup Q \subseteq Entries /\ IsFiniteSet(P) /\ IsFiniteSet(Q)
  BY SummedColumn
<1>4. \A p \in P \cup Q : AmountOf(Entries)[p] \in Nat
  BY <1>3, SummedColumn
<1> HIDE DEF P, Q
<1>5. SumOf(AmountOf(Entries), P \cup Q)
        = SumOf(AmountOf(Entries), P) + SumOf(AmountOf(Entries), Q)
  BY <1>2, <1>3, <1>4, SumOfTwo
<1>6. /\ Summed(both, side, from, to) = SumOf(AmountOf(Entries), Picked(both, side, from, to))
      /\ Summed(codes, side, from, to) = SumOf(AmountOf(Entries), P)
      /\ Summed(others, side, from, to) = SumOf(AmountOf(Entries), Q)
  BY SummedColumn DEF P, Q
<1> QED
  BY <1>1, <1>5, <1>6

(* And those of the days before a day and of the days from it on.           *)
LEMMA SummedDays ==
    ASSUME BookInv, NEW codes, NEW side, NEW from \in Nat, NEW then \in Nat, NEW to \in Nat,
           from <= then, then <= to
    PROVE  Summed(codes, side, from, to)
             = Summed(codes, side, from, then - 1) + Summed(codes, side, then, to)
<1> DEFINE P == Picked(codes, side, from, then - 1)
           Q == Picked(codes, side, then, to)
<1>1. ASSUME NEW p \in Entries
      PROVE  /\ p[2].day \in from .. to <=> p[2].day \in from .. (then - 1) \/ p[2].day \in then .. to
             /\ ~(p[2].day \in from .. (then - 1) /\ p[2].day \in then .. to)
  <2>1. p[2].day \in Nat
    BY OneEntry, PostedDay
  <2> QED
    BY <2>1
<1>2. Picked(codes, side, from, to) = P \cup Q
  BY <1>1 DEF Picked
<1>3. P \cap Q = {}
  BY <1>1 DEF Picked
<1>4. P \cup Q \subseteq Entries /\ IsFiniteSet(P) /\ IsFiniteSet(Q)
  BY SummedColumn
<1>5. \A p \in P \cup Q : AmountOf(Entries)[p] \in Nat
  BY <1>4, SummedColumn
<1> HIDE DEF P, Q
<1>6. SumOf(AmountOf(Entries), P \cup Q)
        = SumOf(AmountOf(Entries), P) + SumOf(AmountOf(Entries), Q)
  BY <1>3, <1>4, <1>5, SumOfTwo
<1> QED
  BY <1>2, <1>6, SummedColumn DEF P, Q

(* The activity of the accounts, account by account, is that of all.        *)
LEMMA SummedGroups ==
    ASSUME BookInv, NEW codes, NEW side, NEW from, NEW to, NEW column,
           \A a \in codes : column[a] = Summed({a}, side, from, to)
    PROVE  SumOf(column, codes) = Summed(codes, side, from, to)
<1> DEFINE P == Picked(codes, side, from, to)
           home == [p \in P |-> p[2].account]
           part == [a \in codes |-> Picked({a}, side, from, to)]
<1>1. P \subseteq Entries /\ IsFiniteSet(P) /\ \A p \in P : AmountOf(Entries)[p] \in Nat
  BY SummedColumn
<1>2. \A p \in P : home[p] \in codes
  BY DEF Picked
<1>3. ASSUME NEW a \in codes
      PROVE  /\ column[a] = SumOf(AmountOf(Entries), part[a])
             /\ \A p : p \in part[a] <=> p \in P /\ home[p] = a
  <2>1. part[a] = Picked({a}, side, from, to)
    OBVIOUS
  <2>2. \A p : p \in Picked({a}, side, from, to) <=> p \in P /\ home[p] = a
    BY DEF Picked
  <2>3. Summed({a}, side, from, to) = SumOf(AmountOf(Entries), Picked({a}, side, from, to))
    BY SummedColumn
  <2> HIDE DEF part
  <2> QED
    BY <2>1, <2>2, <2>3
<1> HIDE DEF P, home, part
<1>4. SumOf(AmountOf(Entries), P) = SumOf(column, codes)
  BY <1>1, <1>2, <1>3, SumOfGroups
<1> QED
  BY <1>4, SummedColumn DEF P

(* Every entry is in an account the shop has.                               *)
LEMMA SummedOfShop ==
    ASSUME BookInv, NEW codes, NEW held, held = codes \cap accounts,
           NEW side, NEW from, NEW to
    PROVE  Summed(held, side, from, to) = Summed(codes, side, from, to)
<1>1. Picked(held, side, from, to) = Picked(codes, side, from, to)
  BY OneEntry DEF Picked
<1> QED
  BY <1>1 DEF Summed

(* One entry picked of each document: their sum, over the documents.        *)
LEMMA SumOfDocuments ==
    ASSUME BookInv, NEW codes, NEW side, NEW from, NEW to, NEW T, NEW post, NEW column,
           \A p \in Picked(codes, side, from, to) : p[1] \in T /\ p[2] = post[p[1]],
           \A d \in T : <<d, post[d]>> \in Picked(codes, side, from, to)
                          /\ column[d] = post[d].amount
    PROVE  Summed(codes, side, from, to) = SumOf(column, T)
<1> DEFINE P == Picked(codes, side, from, to)
           h == [p \in P |-> p[1]]
<1>1. P \subseteq Entries /\ IsFiniteSet(P) /\ \A p \in P : AmountOf(Entries)[p] \in Nat
  BY SummedColumn
<1>2. ASSUME NEW p \in P
      PROVE  h[p] \in T /\ column[h[p]] = AmountOf(Entries)[p]
  <2>1. AmountOf(Entries)[p] = p[2].amount
    BY <1>1, SummedColumn
  <2>2. h[p] \in T /\ p[2] = post[h[p]] /\ column[h[p]] = post[h[p]].amount
    OBVIOUS
  <2> QED
    BY <2>1, <2>2
<1>3. ASSUME NEW p \in P, NEW q \in P, h[p] = h[q]
      PROVE  p = q
  BY <1>1, <1>3, OneEntry
<1>4. ASSUME NEW d \in T
      PROVE  \E p \in P : h[p] = d
  <2>1. <<d, post[d]>> \in P
    OBVIOUS
  <2> QED
    BY <2>1
<1> HIDE DEF P, h
<1>5. SumOf(AmountOf(Entries), P) = SumOf(column, T)
  BY <1>1, <1>2, <1>3, <1>4, SumOfPaired
<1> QED
  BY <1>5, SummedColumn DEF P

(* An entry of a sale, by its side and its account.                         *)
LEMMA OneSaleEntry ==
    ASSUME BookInv, NEW p \in Entries, p[1] \in Sales
    PROVE  \/ p[2] = PaidEntry(p[1]) /\ p[2].account \in Methods /\ p[2].side = "debit"
           \/ p[2] = DueEntry(p[1]) /\ p[2].account = "receivable" /\ p[2].side = "debit"
           \/ p[2] = RevenueEntry(p[1]) /\ p[2].account = "sales_revenue" /\ p[2].side = "credit"
           \/ p[2] = CogsEntry(p[1]) /\ p[2].account = "cogs" /\ p[2].side = "debit"
           \/ p[2] = StockEntry(p[1]) /\ p[2].account = "inventory" /\ p[2].side = "credit"
<1> DEFINE s == p[1]
           e == p[2]
<1>1. There(s) /\ e \in ledger[s]
  BY OneEntry
<1> HIDE DEF s, e
<1>2. e \in FiveEntries(s) /\ document[s].tender.method \in Methods
  BY <1>1, SaleEntries DEF s
<1>3. \/ e = PaidEntry(s) \/ e = DueEntry(s) \/ e = RevenueEntry(s)
      \/ e = CogsEntry(s) \/ e = StockEntry(s)
  BY <1>2 DEF FiveEntries
<1> QED
  BY <1>2, <1>3, SaleFields DEF s, e

(* And one of an expense.                                                   *)
LEMMA OneExpenseEntry ==
    ASSUME BookInv, NEW p \in Entries, p[1] \in Expenses
    PROVE  LET row == document[p[1]]
               on  == PostedOn(p[1])
           IN  \/ p[2] = Entry(row.category, "debit", row.amount, on)
                     /\ p[2].account \in Categories /\ p[2].side = "debit"
               \/ p[2] = Entry(row.method, "credit", row.amount, on)
                     /\ p[2].account \in Methods /\ p[2].side = "credit"
<1> DEFINE x == p[1]
           e == p[2]
           a == Entry(document[x].category, "debit", document[x].amount, PostedOn(x))
           b == Entry(document[x].method, "credit", document[x].amount, PostedOn(x))
<1>1. There(x) /\ e \in ledger[x]
  BY OneEntry
<1> HIDE DEF x, e
<1>2. ledger[x] = {a, b} /\ document[x].category \in Categories /\ document[x].method \in Methods
  BY <1>1, ExpenseEntries DEF x
<1>3. /\ a.account \in Categories /\ a.side = "debit"
      /\ b.account \in Methods /\ b.side = "credit"
  BY <1>2, EntryFields
<1> HIDE DEF a, b
<1>4. e = a \/ e = b
  BY <1>1, <1>2, Zenon
<1>5. \/ e = a /\ e.account \in Categories /\ e.side = "debit"
      \/ e = b /\ e.account \in Methods /\ e.side = "credit"
  BY <1>3, <1>4, Zenon
<1> QED
  BY <1>5 DEF x, e, a, b

(* What keeps the accounts apart.                                           *)
LEMMA AccountsDiffer ==
    /\ Methods = {"cash", "bank"} /\ Categories \cap Methods = {}
    /\ {"receivable", "inventory", "sales_revenue", "cogs"} \cap (Categories \cup Methods) = {}
    /\ Sales \cap Expenses = {} /\ Documents = Sales \cup Expenses
BY BookkeepingAssumption DEF Methods, Documents

(* No entry is of amount zero.                                              *)
LEMMA NothingOfZero ==
    ASSUME BookInv, NEW p \in Entries
    PROVE  p[2].amount # 0
<1> DEFINE d == p[1]
           e == p[2]
<1>1. d \in Documents /\ There(d) /\ e \in ledger[d]
  BY OneEntry
<1> HIDE DEF d, e
<1>2. CASE d \in Sales
  BY <1>1, <1>2, SaleEntries DEF e
<1>3. CASE d \in Expenses
  <2>1. /\ ledger[d] = {Entry(document[d].category, "debit", document[d].amount, PostedOn(d)),
                        Entry(document[d].method, "credit", document[d].amount, PostedOn(d))}
        /\ document[d].amount # 0
    BY <1>1, <1>3, ExpenseEntries
  <2> QED
    BY <1>1, <2>1 DEF Entry, e
<1> QED
  BY <1>1, <1>2, <1>3, AccountsDiffer

(* The documents whose entries are of a period.                             *)
OfPeriod(from, to) == {d \in Documents : There(d) /\ PostedOn(d) \in from .. to}

(* Accounts and a side that one entry of each document of a kind is on, and *)
(* no other entry; it is left out when its amount is 0.                     *)
OnlyEntry(codes, side, D, post) ==
    /\ D \subseteq Documents
    /\ \A p \in Entries : p[2].account \in codes /\ p[2].side = side =>
           p[1] \in D /\ p[2] = post[p[1]]
    /\ \A d \in D : There(d) /\ post[d].amount # 0 =>
           post[d] \in ledger[d] /\ post[d].account \in codes /\ post[d].side = side
             /\ post[d].day = PostedOn(d)

(* They hold what the documents of the period come to.                      *)
LEMMA SumOfPosted ==
    ASSUME BookInv, NEW codes, NEW side, NEW from, NEW to,
           NEW D, NEW post, OnlyEntry(codes, side, D, post),
           NEW column, \A d \in OfPeriod(from, to) \cap D : column[d] = post[d].amount
    PROVE  Summed(codes, side, from, to) = SumOf(column, OfPeriod(from, to) \cap D)
<1> DEFINE T == {d \in OfPeriod(from, to) \cap D : post[d].amount # 0}
<1>1. ASSUME NEW p \in Picked(codes, side, from, to)
      PROVE  p[1] \in OfPeriod(from, to) \cap D /\ p[2] = post[p[1]]
  <2>1. p \in Entries /\ p[2].account \in codes /\ p[2].side = side /\ p[2].day \in from .. to
    BY DEF Picked
  <2> QED
    BY <2>1, OneEntry DEF OfPeriod, OnlyEntry
<1>2. ASSUME NEW p \in Picked(codes, side, from, to)
      PROVE  post[p[1]].amount # 0
  <2>1. p \in Entries /\ p[2] = post[p[1]]
    BY <1>1 DEF Picked
  <2> QED
    BY <2>1, NothingOfZero
<1>3. ASSUME NEW d \in T
      PROVE  <<d, post[d]>> \in Picked(codes, side, from, to) /\ column[d] = post[d].amount
  <2>1. d \in D /\ There(d) /\ PostedOn(d) \in from .. to /\ post[d].amount # 0
    BY DEF OfPeriod
  <2>2. <<d, post[d]>> \in Entries
    BY <2>1 DEF Entries, OnlyEntry
  <2> QED
    BY <2>1, <2>2 DEF Picked, OnlyEntry
<1>4. T \subseteq OfPeriod(from, to) \cap D /\ \A d \in (OfPeriod(from, to) \cap D) \ T : column[d] = 0
  OBVIOUS
<1>5. \A p \in Picked(codes, side, from, to) : p[1] \in T /\ p[2] = post[p[1]]
  BY <1>1, <1>2
<1> HIDE DEF T
<1>6. Summed(codes, side, from, to) = SumOf(column, T)
  BY <1>3, <1>5, SumOfDocuments
<1> QED
  BY <1>4, <1>6, SumOfNonzero

(* A side that no document posts to.                                        *)
LEMMA SumOfNone ==
    ASSUME NEW codes, NEW side, NEW from, NEW to,
           \A p \in Entries : ~(p[2].account \in codes /\ p[2].side = side)
    PROVE  Summed(codes, side, from, to) = 0
<1>1. Picked(codes, side, from, to) = {}
  BY DEF Picked
<1> QED
  BY <1>1, SumOfNothing DEF Summed

Takings(T) == SumOf([s \in T |-> BookedTotal(s)], T)
PaidOf(T) == SumOf([s \in T |-> document[s].tender.paid], T)
DueOf(T) == SumOf([s \in T |-> BookedTotal(s) - document[s].tender.paid], T)
CostOf(T) == SumOf([s \in T |-> document[s].figure.cost], T)
SpentOf(T) == SumOf([x \in T |-> document[x].amount], T)

(* One entry of each sale, picked by its accounts and side: their sum is    *)
(* that of a column of the sales.                                           *)
LEMMA SaleColumn ==
    ASSUME BookInv, NEW codes, NEW side, NEW from, NEW to, NEW post,
           \A p \in Entries : p[2].account \in codes /\ p[2].side = side =>
               p[1] \in Sales /\ p[2] = post[p[1]],
           \A s \in Sales : There(s) =>
               /\ post[s] \in FiveEntries(s) /\ post[s].account \in codes /\ post[s].side = side
               /\ post[s].day = PostedOn(s),
           NEW column, \A s \in OfPeriod(from, to) \cap Sales : column[s] = post[s].amount
    PROVE  Summed(codes, side, from, to) = SumOf(column, OfPeriod(from, to) \cap Sales)
<1>1. Sales \subseteq Documents
  BY AccountsDiffer
<1>2. ASSUME NEW s \in Sales, There(s), post[s].amount # 0
      PROVE  post[s] \in ledger[s]
  <2>1. ledger[s] = {e \in FiveEntries(s) : e.amount # 0} /\ post[s] \in FiveEntries(s)
    BY <1>2, SaleEntries
  <2> QED
    BY <1>2, <2>1
<1>3. OnlyEntry(codes, side, Sales, post)
  BY <1>1, <1>2 DEF OnlyEntry
<1> QED
  BY <1>3, SumOfPosted

(* Revenue is what the sales have been posted with.                         *)
LEMMA RevenueIsTakings ==
    ASSUME BookInv, NEW from, NEW to
    PROVE  Summed({"sales_revenue"}, "credit", from, to) = Takings(OfPeriod(from, to) \cap Sales)
<1> DEFINE post == [s \in Sales |-> RevenueEntry(s)]
           codes == {"sales_revenue"}
           T == OfPeriod(from, to) \cap Sales
           column == [s \in T |-> BookedTotal(s)]
<1>1. ASSUME NEW p \in Entries, p[2].account \in codes, p[2].side = "credit"
      PROVE  p[1] \in Sales /\ p[2] = post[p[1]]
  <2>1. p[1] \in Sales
    BY <1>1, OneEntry, OneExpenseEntry, AccountsDiffer
  <2>2. p[2] = RevenueEntry(p[1])
    BY <1>1, <2>1, OneSaleEntry, AccountsDiffer
  <2> QED
    BY <2>1, <2>2
<1>2. ASSUME NEW s \in Sales
      PROVE  /\ post[s] \in FiveEntries(s) /\ post[s].account \in codes /\ post[s].side = "credit"
             /\ post[s].day = PostedOn(s) /\ post[s].amount = BookedTotal(s)
  BY SaleFields DEF FiveEntries
<1>3. \A s \in T : column[s] = post[s].amount
  BY <1>2
<1> HIDE DEF post, column, codes
<1>4. Summed(codes, "credit", from, to) = SumOf(column, OfPeriod(from, to) \cap Sales)
  BY <1>1, <1>2, <1>3, SaleColumn
<1> QED
  BY <1>4 DEF Takings, column, codes

(* Nothing is taken back from it.                                           *)
LEMMA NoRevenueBack ==
    ASSUME BookInv, NEW from, NEW to
    PROVE  Summed({"sales_revenue"}, "debit", from, to) = 0
<1>1. ASSUME NEW p \in Entries, p[2].account \in {"sales_revenue"}, p[2].side = "debit"
      PROVE  FALSE
  BY <1>1, OneEntry, OneSaleEntry, OneExpenseEntry, AccountsDiffer
<1> QED
  BY <1>1, SumOfNone

(* The cost of goods is that of the sales.                                  *)
LEMMA CogsIsCost ==
    ASSUME BookInv, NEW from, NEW to
    PROVE  Summed({"cogs"}, "debit", from, to) = CostOf(OfPeriod(from, to) \cap Sales)
<1> DEFINE post == [s \in Sales |-> CogsEntry(s)]
           codes == {"cogs"}
           T == OfPeriod(from, to) \cap Sales
           column == [s \in T |-> document[s].figure.cost]
<1>1. ASSUME NEW p \in Entries, p[2].account \in codes, p[2].side = "debit"
      PROVE  p[1] \in Sales /\ p[2] = post[p[1]]
  <2>1. p[1] \in Sales
    BY <1>1, OneEntry, OneExpenseEntry, AccountsDiffer
  <2>2. p[2] = CogsEntry(p[1])
    BY <1>1, <2>1, OneSaleEntry, AccountsDiffer
  <2> QED
    BY <2>1, <2>2
<1>2. ASSUME NEW s \in Sales
      PROVE  /\ post[s] \in FiveEntries(s) /\ post[s].account \in codes /\ post[s].side = "debit"
             /\ post[s].day = PostedOn(s) /\ post[s].amount = document[s].figure.cost
  BY SaleFields DEF FiveEntries
<1>3. \A s \in T : column[s] = post[s].amount
  BY <1>2
<1> HIDE DEF post, column, codes
<1>4. Summed(codes, "debit", from, to) = SumOf(column, OfPeriod(from, to) \cap Sales)
  BY <1>1, <1>2, <1>3, SaleColumn
<1> QED
  BY <1>4 DEF CostOf, column, codes

(* Nothing is taken back from that.                                         *)
LEMMA NoCogsBack ==
    ASSUME BookInv, NEW from, NEW to
    PROVE  Summed({"cogs"}, "credit", from, to) = 0
<1>1. ASSUME NEW p \in Entries, p[2].account \in {"cogs"}, p[2].side = "credit"
      PROVE  FALSE
  BY <1>1, OneEntry, OneSaleEntry, OneExpenseEntry, AccountsDiffer
<1> QED
  BY <1>1, SumOfNone

(* The same goes out of the stock.                                          *)
LEMMA StockIsCost ==
    ASSUME BookInv, NEW from, NEW to
    PROVE  Summed({"inventory"}, "credit", from, to) = CostOf(OfPeriod(from, to) \cap Sales)
<1> DEFINE post == [s \in Sales |-> StockEntry(s)]
           codes == {"inventory"}
           T == OfPeriod(from, to) \cap Sales
           column == [s \in T |-> document[s].figure.cost]
<1>1. ASSUME NEW p \in Entries, p[2].account \in codes, p[2].side = "credit"
      PROVE  p[1] \in Sales /\ p[2] = post[p[1]]
  <2>1. p[1] \in Sales
    BY <1>1, OneEntry, OneExpenseEntry, AccountsDiffer
  <2>2. p[2] = StockEntry(p[1])
    BY <1>1, <2>1, OneSaleEntry, AccountsDiffer
  <2> QED
    BY <2>1, <2>2
<1>2. ASSUME NEW s \in Sales
      PROVE  /\ post[s] \in FiveEntries(s) /\ post[s].account \in codes /\ post[s].side = "credit"
             /\ post[s].day = PostedOn(s) /\ post[s].amount = document[s].figure.cost
  BY SaleFields DEF FiveEntries
<1>3. \A s \in T : column[s] = post[s].amount
  BY <1>2
<1> HIDE DEF post, column, codes
<1>4. Summed(codes, "credit", from, to) = SumOf(column, OfPeriod(from, to) \cap Sales)
  BY <1>1, <1>2, <1>3, SaleColumn
<1> QED
  BY <1>4 DEF CostOf, column, codes

(* Cash and bank take in what was paid for the sales.                       *)
LEMMA MethodsTakeIn ==
    ASSUME BookInv, NEW from, NEW to
    PROVE  Summed(Methods \cup {"inventory"}, "debit", from, to) = PaidOf(OfPeriod(from, to) \cap Sales)
<1> DEFINE post == [s \in Sales |-> PaidEntry(s)]
           codes == Methods \cup {"inventory"}
           T == OfPeriod(from, to) \cap Sales
           column == [s \in T |-> document[s].tender.paid]
<1>1. ASSUME NEW p \in Entries, p[2].account \in codes, p[2].side = "debit"
      PROVE  p[1] \in Sales /\ p[2] = post[p[1]]
  <2>1. p[1] \in Sales
    BY <1>1, OneEntry, OneExpenseEntry, AccountsDiffer
  <2>2. p[2] = PaidEntry(p[1])
    BY <1>1, <2>1, OneSaleEntry, AccountsDiffer
  <2> QED
    BY <2>1, <2>2
<1>2. ASSUME NEW s \in Sales, There(s)
      PROVE  /\ post[s] \in FiveEntries(s) /\ post[s].account \in codes /\ post[s].side = "debit"
             /\ post[s].day = PostedOn(s)
  BY <1>2, SaleFields, SaleEntries DEF FiveEntries
<1>3. \A s \in T : column[s] = post[s].amount
  BY SaleFields
<1> HIDE DEF post, column, codes
<1>4. Summed(codes, "debit", from, to) = SumOf(column, OfPeriod(from, to) \cap Sales)
  BY <1>1, <1>2, <1>3, SaleColumn
<1> QED
  BY <1>4 DEF PaidOf, column, codes

(* The customers owe the rest.                                              *)
LEMMA ReceivableIsDue ==
    ASSUME BookInv, NEW from, NEW to
    PROVE  Summed({"receivable"}, "debit", from, to) = DueOf(OfPeriod(from, to) \cap Sales)
<1> DEFINE post == [s \in Sales |-> DueEntry(s)]
           codes == {"receivable"}
           T == OfPeriod(from, to) \cap Sales
           column == [s \in T |-> BookedTotal(s) - document[s].tender.paid]
<1>1. ASSUME NEW p \in Entries, p[2].account \in codes, p[2].side = "debit"
      PROVE  p[1] \in Sales /\ p[2] = post[p[1]]
  <2>1. p[1] \in Sales
    BY <1>1, OneEntry, OneExpenseEntry, AccountsDiffer
  <2>2. p[2] = DueEntry(p[1])
    BY <1>1, <2>1, OneSaleEntry, AccountsDiffer
  <2> QED
    BY <2>1, <2>2
<1>2. ASSUME NEW s \in Sales
      PROVE  /\ post[s] \in FiveEntries(s) /\ post[s].account \in codes /\ post[s].side = "debit"
             /\ post[s].day = PostedOn(s)
             /\ post[s].amount = BookedTotal(s) - document[s].tender.paid
  BY SaleFields DEF FiveEntries
<1>3. \A s \in T : column[s] = post[s].amount
  BY <1>2
<1> HIDE DEF post, column, codes
<1>4. Summed(codes, "debit", from, to) = SumOf(column, OfPeriod(from, to) \cap Sales)
  BY <1>1, <1>2, <1>3, SaleColumn
<1> QED
  BY <1>4 DEF DueOf, column, codes

(* None of these requests pays it.                                          *)
LEMMA NothingSettled ==
    ASSUME BookInv, NEW from, NEW to
    PROVE  Summed({"receivable"}, "credit", from, to) = 0
<1>1. ASSUME NEW p \in Entries, p[2].account \in {"receivable"}, p[2].side = "credit"
      PROVE  FALSE
  BY <1>1, OneEntry, OneSaleEntry, OneExpenseEntry, AccountsDiffer
<1> QED
  BY <1>1, SumOfNone

(* What was paid for the sales and what is due is what they were posted     *)
(* with.                                                                    *)
LEMMA PaidAndDue ==
    ASSUME BookInv, NEW from, NEW to
    PROVE  PaidOf(OfPeriod(from, to) \cap Sales) + DueOf(OfPeriod(from, to) \cap Sales)
             = Takings(OfPeriod(from, to) \cap Sales)
<1> DEFINE T == OfPeriod(from, to) \cap Sales
           paid == [s \in T |-> document[s].tender.paid]
           due == [s \in T |-> BookedTotal(s) - document[s].tender.paid]
           total == [s \in T |-> BookedTotal(s)]
<1>1. IsFiniteSet(T)
  <2>1. T \in SUBSET (Sales \cup Expenses) /\ IsFiniteSet(Sales \cup Expenses)
    BY BookkeepingAssumption
  <2> QED
    BY <2>1, FS_Subset
<1>2. ASSUME NEW s \in T
      PROVE  paid[s] \in Nat /\ due[s] \in Nat /\ total[s] = paid[s] + due[s]
  <2>1. s \in Sales /\ There(s)
    BY DEF OfPeriod
  <2>2. BookedTotal(s) \in Nat /\ document[s].tender.paid \in Nat /\ document[s].tender.paid <= BookedTotal(s)
    BY <2>1, SaleEntries
  <2> QED
    BY <2>2
<1>3. PaidOf(T) = SumOf(paid, T) /\ DueOf(T) = SumOf(due, T) /\ Takings(T) = SumOf(total, T)
  BY Zenon DEF PaidOf, DueOf, Takings
<1> HIDE DEF T, paid, due, total
<1>4. SumOf(total, T) = SumOf(paid, T) + SumOf(due, T)
  BY <1>1, <1>2, SumOfColumns
<1>5. PaidOf(T) + DueOf(T) = Takings(T)
  BY <1>3, <1>4
<1> QED
  BY <1>5 DEF T

(* Cash, bank, stock and the customers take in what the sales come to.      *)
LEMMA TakingsComeIn ==
    ASSUME BookInv, NEW from, NEW to
    PROVE  Summed(Methods \cup {"receivable", "inventory"}, "debit", from, to)
             = Takings(OfPeriod(from, to) \cap Sales)
<1> DEFINE codes == Methods \cup {"inventory"}
           owed  == {"receivable"}
           held  == Methods \cup {"receivable", "inventory"}
<1>1. codes \cap owed = {} /\ held = codes \cup owed
  BY AccountsDiffer
<1> HIDE DEF codes, owed, held
<1>2. Summed(held, "debit", from, to) = Summed(codes, "debit", from, to) + Summed(owed, "debit", from, to)
  BY <1>1, SummedTwo
<1>3. Summed(held, "debit", from, to)
        = PaidOf(OfPeriod(from, to) \cap Sales) + DueOf(OfPeriod(from, to) \cap Sales)
  BY <1>2, MethodsTakeIn, ReceivableIsDue DEF codes, owed
<1> QED
  BY <1>3, PaidAndDue DEF held

(* A document whose books match is posted with its own total.               *)
LEMMA MatchedTotal ==
    ASSUME NEW s \in Sales, There(s), Matched(s)
    PROVE  BookedTotal(s) = document[s].figure.total
BY DEF BookedTotal, RowTotal, There

LEMMA MatchedTakings ==
    ASSUME \A d \in Documents : Matched(d), NEW from, NEW to
    PROVE  Takings(OfPeriod(from, to) \cap Sales) = Turnover(OfPeriod(from, to) \cap Sales)
<1> DEFINE T == OfPeriod(from, to) \cap Sales
           booked == [s \in T |-> BookedTotal(s)]
           total == [s \in T |-> document[s].figure.total]
<1>1. \A s \in T : booked[s] = total[s]
  BY MatchedTotal, AccountsDiffer DEF OfPeriod
<1>2. Takings(T) = SumOf(booked, T) /\ Turnover(T) = SumOf(total, T)
  BY Zenon DEF Takings, Turnover
<1> HIDE DEF T, booked, total
<1>3. SumOf(booked, T) = SumOf(total, T)
  BY <1>1, SumOfSame
<1> QED
  BY <1>2, <1>3 DEF T

(* The categories hold what the expenses come to.                           *)
LEMMA CategoriesAreExpenses ==
    ASSUME BookInv, NEW from, NEW to
    PROVE  Summed(Categories, "debit", from, to) = SpentOf(OfPeriod(from, to) \cap Expenses)
<1> DEFINE post == [x \in Expenses |->
                      Entry(document[x].category, "debit", document[x].amount, PostedOn(x))]
           codes == Categories
           T == OfPeriod(from, to) \cap Expenses
           column == [x \in T |-> document[x].amount]
<1>1. ASSUME NEW p \in Entries, p[2].account \in codes, p[2].side = "debit"
      PROVE  p[1] \in Expenses /\ p[2] = post[p[1]]
  <2>1. p[1] \in Expenses
    BY <1>1, OneEntry, OneSaleEntry, AccountsDiffer
  <2>2. p[2] = Entry(document[p[1]].category, "debit", document[p[1]].amount, PostedOn(p[1]))
    BY <1>1, <2>1, OneExpenseEntry
  <2> QED
    BY <2>1, <2>2
<1>2. ASSUME NEW x \in Expenses
      PROVE  /\ post[x].account = document[x].category /\ post[x].side = "debit"
             /\ post[x].day = PostedOn(x) /\ post[x].amount = document[x].amount
  BY DEF Entry
<1>3. ASSUME NEW x \in Expenses, There(x)
      PROVE  post[x] \in ledger[x] /\ post[x].account \in codes
  <2>1. /\ Entry(document[x].category, "debit", document[x].amount, PostedOn(x)) \in ledger[x]
        /\ document[x].category \in Categories
    BY <1>3, ExpenseEntries
  <2> QED
    BY <1>2, <2>1
<1>4. \A x \in T : column[x] = post[x].amount
  BY <1>2
<1> HIDE DEF post, column, codes
<1>5. Sales \subseteq Documents /\ Expenses \subseteq Documents
  BY AccountsDiffer
<1>6. OnlyEntry(codes, "debit", Expenses, post)
  BY <1>1, <1>2, <1>3, <1>5 DEF OnlyEntry
<1>7. Summed(codes, "debit", from, to) = SumOf(column, OfPeriod(from, to) \cap Expenses)
  BY <1>4, <1>6, SumOfPosted
<1> QED
  BY <1>7 DEF SpentOf, column, codes

(* Nothing is taken back from them.                                         *)
LEMMA NoExpenseBack ==
    ASSUME BookInv, NEW from, NEW to
    PROVE  Summed(Categories, "credit", from, to) = 0
<1>1. ASSUME NEW p \in Entries, p[2].account \in Categories, p[2].side = "credit"
      PROVE  FALSE
  BY <1>1, OneEntry, OneSaleEntry, OneExpenseEntry, AccountsDiffer
<1> QED
  BY <1>1, SumOfNone

(* And cash and bank pay it.                                                *)
LEMMA MethodsPayExpenses ==
    ASSUME BookInv, NEW from, NEW to
    PROVE  Summed(Methods, "credit", from, to) = SpentOf(OfPeriod(from, to) \cap Expenses)
<1> DEFINE post == [x \in Expenses |->
                      Entry(document[x].method, "credit", document[x].amount, PostedOn(x))]
           codes == Methods
           T == OfPeriod(from, to) \cap Expenses
           column == [x \in T |-> document[x].amount]
<1>1. ASSUME NEW p \in Entries, p[2].account \in codes, p[2].side = "credit"
      PROVE  p[1] \in Expenses /\ p[2] = post[p[1]]
  <2>1. p[1] \in Expenses
    BY <1>1, OneEntry, OneSaleEntry, AccountsDiffer
  <2>2. p[2] = Entry(document[p[1]].method, "credit", document[p[1]].amount, PostedOn(p[1]))
    BY <1>1, <2>1, OneExpenseEntry
  <2> QED
    BY <2>1, <2>2
<1>2. ASSUME NEW x \in Expenses
      PROVE  /\ post[x].account = document[x].method /\ post[x].side = "credit"
             /\ post[x].day = PostedOn(x) /\ post[x].amount = document[x].amount
  BY DEF Entry
<1>3. ASSUME NEW x \in Expenses, There(x)
      PROVE  post[x] \in ledger[x] /\ post[x].account \in codes
  <2>1. /\ Entry(document[x].method, "credit", document[x].amount, PostedOn(x)) \in ledger[x]
        /\ document[x].method \in Methods
    BY <1>3, ExpenseEntries
  <2> QED
    BY <1>2, <2>1
<1>4. \A x \in T : column[x] = post[x].amount
  BY <1>2
<1> HIDE DEF post, column, codes
<1>5. Sales \subseteq Documents /\ Expenses \subseteq Documents
  BY AccountsDiffer
<1>6. OnlyEntry(codes, "credit", Expenses, post)
  BY <1>1, <1>2, <1>3, <1>5 DEF OnlyEntry
<1>7. Summed(codes, "credit", from, to) = SumOf(column, OfPeriod(from, to) \cap Expenses)
  BY <1>4, <1>6, SumOfPosted
<1> QED
  BY <1>7 DEF SpentOf, column, codes

(* What the documents of a period come to is a number.                      *)
LEMMA PostedSums ==
    ASSUME BookInv, NEW from, NEW to
    PROVE  /\ Takings(OfPeriod(from, to) \cap Sales) \in Nat
           /\ CostOf(OfPeriod(from, to) \cap Sales) \in Nat
           /\ SpentOf(OfPeriod(from, to) \cap Expenses) \in Nat
<1>1. /\ Summed({"sales_revenue"}, "credit", from, to) \in Nat
      /\ Summed({"cogs"}, "debit", from, to) \in Nat
      /\ Summed(Categories, "debit", from, to) \in Nat
  BY SummedColumn
<1>2. /\ Summed({"sales_revenue"}, "credit", from, to) = Takings(OfPeriod(from, to) \cap Sales)
      /\ Summed({"cogs"}, "debit", from, to) = CostOf(OfPeriod(from, to) \cap Sales)
      /\ Summed(Categories, "debit", from, to) = SpentOf(OfPeriod(from, to) \cap Expenses)
  BY RevenueIsTakings, CogsIsCost, CategoriesAreExpenses
<1> QED
  BY <1>1, <1>2

(* Cash, bank and stock give the cost of the sales and the expenses, and    *)
(* the customers nothing.                                                   *)
LEMMA WhatIsPaid ==
    ASSUME BookInv, NEW from, NEW to
    PROVE  Summed(Methods \cup {"receivable", "inventory"}, "credit", from, to)
             = SpentOf(OfPeriod(from, to) \cap Expenses) + CostOf(OfPeriod(from, to) \cap Sales)
<1> DEFINE stock == {"inventory"}
           owed  == {"receivable"}
           paid  == Methods \cup stock
           held  == Methods \cup {"receivable", "inventory"}
<1>1. Methods \cap stock = {} /\ paid \cap owed = {} /\ held = paid \cup owed
  BY AccountsDiffer
<1>2. paid = Methods \cup stock
  OBVIOUS
<1> HIDE DEF stock, owed, paid, held
<1>3. Summed(held, "credit", from, to) = Summed(paid, "credit", from, to) + Summed(owed, "credit", from, to)
  BY <1>1, SummedTwo
<1>4. Summed(paid, "credit", from, to) = Summed(Methods, "credit", from, to) + Summed(stock, "credit", from, to)
  BY <1>1, <1>2, SummedTwo
<1>5. /\ Summed(Methods, "credit", from, to) = SpentOf(OfPeriod(from, to) \cap Expenses)
      /\ Summed(stock, "credit", from, to) = CostOf(OfPeriod(from, to) \cap Sales)
      /\ Summed(owed, "credit", from, to) = 0
  BY MethodsPayExpenses, StockIsCost, NothingSettled DEF stock, owed
<1>6. /\ SpentOf(OfPeriod(from, to) \cap Expenses) \in Nat
      /\ CostOf(OfPeriod(from, to) \cap Sales) \in Nat
  BY PostedSums
<1>7. Summed(held, "credit", from, to)
        = SpentOf(OfPeriod(from, to) \cap Expenses) + CostOf(OfPeriod(from, to) \cap Sales)
  BY <1>3, <1>4, <1>5, <1>6
<1> QED
  BY <1>7 DEF held

(* The chart, in four parts.                                                *)
LEMMA ChartInParts ==
    ASSUME BookInv, NEW side, NEW from, NEW to
    PROVE  Summed(accounts, side, from, to)
             = Summed(Methods \cup {"receivable", "inventory"}, side, from, to)
               + Summed({"cogs"}, side, from, to)
               + Summed(Categories, side, from, to) + Summed({"sales_revenue"}, side, from, to)
<1> DEFINE held    == Methods \cup {"receivable", "inventory"}
           cogs    == {"cogs"}
           revenue == {"sales_revenue"}
           spent   == held \cup cogs
           most    == spent \cup Categories
           chart   == most \cup revenue
<1>1. /\ held \cap cogs = {} /\ spent \cap Categories = {} /\ most \cap revenue = {}
      /\ accounts = chart \cap accounts
  BY AccountsDiffer DEF BookInv, Accounts
<1>2. spent = held \cup cogs /\ most = spent \cup Categories /\ chart = most \cup revenue
  OBVIOUS
<1> HIDE DEF held, cogs, revenue, spent, most, chart
<1>3. Summed(accounts, side, from, to) = Summed(chart, side, from, to)
  BY <1>1, SummedOfShop
<1>4. Summed(chart, side, from, to) = Summed(most, side, from, to) + Summed(revenue, side, from, to)
  BY <1>1, <1>2, SummedTwo
<1>5. Summed(most, side, from, to) = Summed(spent, side, from, to) + Summed(Categories, side, from, to)
  BY <1>1, <1>2, SummedTwo
<1>6. Summed(spent, side, from, to) = Summed(held, side, from, to) + Summed(cogs, side, from, to)
  BY <1>1, <1>2, SummedTwo
<1> QED
  BY <1>3, <1>4, <1>5, <1>6 DEF held, cogs, revenue

(* The debits are what the sales were posted with, their cost and the       *)
(* expenses, and so are the credits.                                        *)
LEMMA ChartBalances ==
    ASSUME BookInv, NEW from, NEW to
    PROVE  Summed(accounts, "debit", from, to) = Summed(accounts, "credit", from, to)
<1> DEFINE takings == Takings(OfPeriod(from, to) \cap Sales)
           cost  == CostOf(OfPeriod(from, to) \cap Sales)
           spent == SpentOf(OfPeriod(from, to) \cap Expenses)
<1>1. takings \in Nat /\ cost \in Nat /\ spent \in Nat
  BY PostedSums
<1>2. Summed(Methods \cup {"receivable", "inventory"}, "debit", from, to) = takings
  BY TakingsComeIn
<1>3. Summed(Methods \cup {"receivable", "inventory"}, "credit", from, to) = spent + cost
  BY WhatIsPaid
<1>4. Summed({"cogs"}, "debit", from, to) = cost /\ Summed({"cogs"}, "credit", from, to) = 0
  BY CogsIsCost, NoCogsBack
<1>5. Summed(Categories, "debit", from, to) = spent /\ Summed(Categories, "credit", from, to) = 0
  BY CategoriesAreExpenses, NoExpenseBack
<1>6. /\ Summed({"sales_revenue"}, "credit", from, to) = takings
      /\ Summed({"sales_revenue"}, "debit", from, to) = 0
  BY RevenueIsTakings, NoRevenueBack
<1> HIDE DEF takings, cost, spent
<1>7. Summed(accounts, "debit", from, to) = takings + cost + spent + 0
  BY <1>2, <1>4, <1>5, <1>6, ChartInParts
<1>8. Summed(accounts, "credit", from, to) = (spent + cost) + 0 + 0 + takings
  BY <1>3, <1>4, <1>5, <1>6, ChartInParts
<1> QED
  BY <1>1, <1>7, <1>8

(* The activity of some accounts of the chart, summed.                      *)
LEMMA ActivityOf ==
    ASSUME BookInv, NEW codes, codes \subseteq Accounts, NEW from, NEW to
    PROVE  /\ SumOf([a \in codes |-> _account_activity(from, to)[a].debit], codes)
                = Summed(codes, "debit", from, to)
           /\ SumOf([a \in codes |-> _account_activity(from, to)[a].credit], codes)
                = Summed(codes, "credit", from, to)
<1> DEFINE debits  == [a \in codes |-> _account_activity(from, to)[a].debit]
           credits == [a \in codes |-> _account_activity(from, to)[a].credit]
<1>1. \A a \in codes : /\ debits[a] = Summed({a}, "debit", from, to)
                       /\ credits[a] = Summed({a}, "credit", from, to)
  BY DEF _account_activity
<1> HIDE DEF debits, credits
<1>2. SumOf(debits, codes) = Summed(codes, "debit", from, to)
  BY <1>1, SummedGroups
<1>3. SumOf(credits, codes) = Summed(codes, "credit", from, to)
  BY <1>1, SummedGroups
<1> QED
  BY <1>2, <1>3 DEF debits, credits

(* The profit the documents of a period make.                               *)
LEMMA ProfitOfPosted ==
    ASSUME NEW from, NEW to
    PROVE  ProfitOf(OfPeriod(from, to)) = Turnover(OfPeriod(from, to) \cap Sales)
               - CostOf(OfPeriod(from, to) \cap Sales) - SpentOf(OfPeriod(from, to) \cap Expenses)
<1>1. {s \in OfPeriod(from, to) \cap Sales : There(s)} = OfPeriod(from, to) \cap Sales
  BY DEF OfPeriod
<1>2. {x \in OfPeriod(from, to) \cap Expenses : There(x)} = OfPeriod(from, to) \cap Expenses
  BY DEF OfPeriod
<1> QED
  BY <1>1, <1>2, Zenon DEF ProfitOf, CostOf, SpentOf

(* A document that has entries: any but a sale given away, of goods that    *)
(* cost nothing.  Only these count towards the sums.                        *)
Counts(d) == d \in Sales => document[d].figure.total # 0 \/ document[d].figure.cost # 0

Counting(docs) == {d \in docs : Counts(d)}

LEMMA TurnoverOfCounting ==
    ASSUME NEW S, NEW T, S \subseteq Sales, T \subseteq Sales, Counting(S) = Counting(T)
    PROVE  /\ Turnover(S) = Turnover(T)
           /\ CostOf(S) = CostOf(T)
<1>1. ASSUME NEW R, R \subseteq Sales
      PROVE  /\ Turnover(R) = Turnover(Counting(R))
             /\ CostOf(R) = CostOf(Counting(R))
  <2> DEFINE totals == [s \in R |-> document[s].figure.total]
             costs  == [s \in R |-> document[s].figure.cost]
             Q == Counting(R)
  <2>1. Q \subseteq R /\ \A s \in R \ Q : totals[s] = 0 /\ costs[s] = 0
    BY <1>1 DEF Counting, Counts
  <2>2. /\ \A s \in Q : totals[s] = [x \in Q |-> document[x].figure.total][s]
        /\ \A s \in Q : costs[s] = [x \in Q |-> document[x].figure.cost][s]
    BY <2>1
  <2>3. /\ Turnover(R) = SumOf(totals, R) /\ CostOf(R) = SumOf(costs, R)
        /\ Turnover(Q) = SumOf([x \in Q |-> document[x].figure.total], Q)
        /\ CostOf(Q) = SumOf([x \in Q |-> document[x].figure.cost], Q)
    BY DEF Turnover, CostOf
  <2> HIDE DEF totals, costs, Q
  <2>4. SumOf(totals, R) = SumOf(totals, Q) /\ SumOf(costs, R) = SumOf(costs, Q)
    BY <2>1, SumOfNonzero
  <2>5. /\ SumOf(totals, Q) = SumOf([x \in Q |-> document[x].figure.total], Q)
        /\ SumOf(costs, Q) = SumOf([x \in Q |-> document[x].figure.cost], Q)
    BY <2>2, SumOfSame
  <2> QED
    BY <2>3, <2>4, <2>5 DEF Q
<1>2. /\ Turnover(S) = Turnover(Counting(S)) /\ CostOf(S) = CostOf(Counting(S))
      /\ Turnover(T) = Turnover(Counting(T)) /\ CostOf(T) = CostOf(Counting(T))
  BY <1>1
<1> QED
  BY <1>2

(* The profit of documents is that of those that count.                     *)
LEMMA ProfitOfCounting ==
    ASSUME NEW A, NEW B, A \subseteq Documents, B \subseteq Documents, Counting(A) = Counting(B)
    PROVE  ProfitOf(A) = ProfitOf(B)
<1> DEFINE S == {s \in A \cap Sales : There(s)}
           T == {s \in B \cap Sales : There(s)}
           X == {e \in A \cap Expenses : There(e)}
           Y == {e \in B \cap Expenses : There(e)}
<1>1. S \subseteq Sales /\ T \subseteq Sales /\ Counting(S) = Counting(T)
  BY DEF Counting
<1>2. X = Y
  BY AccountsDiffer DEF Counting, Counts
<1>3. /\ ProfitOf(A) = Turnover(S) - CostOf(S) - SpentOf(X)
      /\ ProfitOf(B) = Turnover(T) - CostOf(T) - SpentOf(Y)
  BY Zenon DEF ProfitOf, CostOf, SpentOf
<1> HIDE DEF S, T, X, Y
<1>4. Turnover(S) = Turnover(T) /\ CostOf(S) = CostOf(T)
  BY <1>1, TurnoverOfCounting
<1> QED
  BY <1>2, <1>3, <1>4

(* The entries of a document that counts are there, all of its day.         *)
LEMMA CountingIsPosted ==
    ASSUME BookInv, NEW d \in Documents, There(d), Matched(d)
    PROVE  /\ Counts(d) <=> ledger[d] # {}
           /\ \A e \in ledger[d] : e.day = PostedOn(d)
<1>1. \A e \in ledger[d] : <<d, e>> \in Entries
  BY DEF Entries
<1>2. \A e \in ledger[d] : e.day = PostedOn(d)
  BY <1>1, OneEntry
<1>3. CASE d \in Sales
  <2>1. BookedTotal(d) = document[d].figure.total
    BY <1>3, MatchedTotal
  <2>2. RevenueEntry(d).amount = BookedTotal(d) /\ CogsEntry(d).amount = document[d].figure.cost
    BY SaleFields
  <2>3. ledger[d] = {e \in FiveEntries(d) : e.amount # 0}
    BY <1>3, SaleEntries
  <2>4. Counts(d) => RevenueEntry(d) \in ledger[d] \/ CogsEntry(d) \in ledger[d]
    BY <1>3, <2>1, <2>2, <2>3 DEF Counts, FiveEntries
  <2>5. ASSUME ~Counts(d)
        PROVE  ledger[d] = {}
    <3>1. BookedTotal(d) = 0 /\ document[d].figure.cost = 0
      BY <2>1, <2>5 DEF Counts
    <3>2. document[d].tender.paid = 0
      BY <1>3, <3>1, SaleEntries
    <3>3. \A e \in FiveEntries(d) : e.amount = 0
      BY <3>1, <3>2, SaleFields DEF FiveEntries
    <3> QED
      BY <2>3, <3>3
  <2> QED
    BY <1>2, <2>4, <2>5
<1>4. CASE d \in Expenses
  BY <1>2, <1>4, ExpenseEntries, AccountsDiffer DEF Counts
<1> QED
  BY <1>3, <1>4, AccountsDiffer

(* The documents posted by a day are those with an entry by that day, but   *)
(* for some that do not count.                                              *)
LEMMA KnownArePosted ==
    ASSUME BookInv, \A d \in Documents : Matched(d), NEW today \in Nat
    PROVE  Counting({d \in Documents : There(d) /\ \E e \in ledger[d] : e.day <= today})
             = Counting(OfPeriod(1, today))
<1>1. ASSUME NEW d \in Documents, There(d), Counts(d)
      PROVE  (\E e \in ledger[d] : e.day <= today) <=> PostedOn(d) \in 1 .. today
  <2>1. PostedOn(d) \in Nat \ {0}
    BY <1>1, PostedDay
  <2>2. ledger[d] # {} /\ \A e \in ledger[d] : e.day = PostedOn(d)
    BY <1>1, CountingIsPosted
  <2> QED
    BY <2>1, <2>2
<1> QED
  BY <1>1 DEF OfPeriod, Counting

(* Those posted on a day are those of that day, when each is on its own.    *)
LEMMA TodaysArePosted ==
    ASSUME BookInv, \A d \in Documents : Matched(d), OnTheirDay(Documents), NEW today \in Nat
    PROVE  Counting({d \in Documents : There(d) /\ document[d].day = today})
             = Counting(OfPeriod(today, today))
<1>1. ASSUME NEW d \in Documents, There(d), Counts(d)
      PROVE  document[d].day = PostedOn(d) /\ PostedOn(d) \in Nat
  <2>1. PICK e \in ledger[d] : TRUE
    BY <1>1, CountingIsPosted
  <2>2. e.day = PostedOn(d) /\ e.day = document[d].day
    BY <1>1, CountingIsPosted DEF OnTheirDay
  <2> QED
    BY <1>1, <2>2, PostedDay
<1> QED
  BY <1>1 DEF OfPeriod, Counting

-----------------------------------------------------------------------------
(* The reports.  What a report has read stays: a trial balance reads the    *)
(* chart first and every sum over that chart balances, as long as no commit *)
(* adds an account before its last statement; and a report that nothing     *)
(* has overtaken has read what its statements would still return.           *)
Balanced(chart, activity) ==
    SumOf([a \in chart |-> activity[a]["debit"]], chart)
        = SumOf([a \in chart |-> activity[a]["credit"]], chart)

ReaderShape(q) ==
    /\ report[q].at \in {"reading", "told"} /\ report[q].kind \in Kinds
    /\ report[q].today \in Nat \ {0}
    /\ report[q].quiet \in BOOLEAN /\ report[q].grew \in BOOLEAN
    /\ report[q] = [at |-> report[q].at, kind |-> report[q].kind, today |-> report[q].today,
                    got |-> report[q].got, quiet |-> report[q].quiet, grew |-> report[q].grew]
    /\ \E S : report[q].got \in Seq(S)
    /\ IF report[q].at = "told" THEN Len(report[q].got) = Length(report[q].kind)
                                ELSE Len(report[q].got) < Length(report[q].kind)

ReadQuietly(q) ==
    report[q].quiet =>
        \A n \in 1 .. Len(report[q].got) :
            report[q].got[n] = Statements(report[q].kind, report[q].today)[n]

ReadBalanced(q) ==
    report[q].kind = "trial_balance" /\ ~report[q].grew =>
        /\ report[q].at = "reading" => Len(report[q].got) = 0 \/ report[q].got[1] = accounts
        /\ \A n \in {2, 3} : n <= Len(report[q].got) => Balanced(report[q].got[1], report[q].got[n])

ReaderOK(q) ==
    \/ report[q].at = "resting"
    \/ ReaderShape(q) /\ ReadQuietly(q) /\ ReadBalanced(q)

ReportInv ==
    /\ report = [q \in Readers |-> report[q]]
    /\ \A q \in Readers : ReaderOK(q)

(* A statement returns the same as long as nothing is committed.            *)
LEMMA SameStatements ==
    ASSUME UNCHANGED <<accounts, document, ledger>>, NEW kind, NEW today
    PROVE  Statements(kind, today)' = Statements(kind, today)
<1>1. Entries' = Entries
  BY DEF Entries
<1>2. ASSUME NEW codes, NEW side, NEW from, NEW to
      PROVE  Summed(codes, side, from, to)' = Summed(codes, side, from, to)
  BY <1>1 DEF Summed, Picked
<1>3. ASSUME NEW from, NEW to
      PROVE  /\ _account_activity(from, to)' = _account_activity(from, to)
             /\ _revenue_for_period(from, to)' = _revenue_for_period(from, to)
  BY <1>2 DEF _account_activity, _revenue_for_period
<1>4. ASSUME NEW codes, NEW from, NEW to
      PROVE  Balance(codes, from, to)' = Balance(codes, from, to)
  BY <1>2 DEF Balance
<1>5. ASSUME NEW include_cogs, NEW from, NEW to
      PROVE  _expense_activity_for_period(include_cogs, from, to)'
               = _expense_activity_for_period(include_cogs, from, to)
  BY <1>4 DEF _expense_activity_for_period
<1>6. Turnover(SoldOn(today))' = Turnover(SoldOn(today))
  <2>1. SoldOn(today)' = SoldOn(today)
    BY DEF SoldOn, There
  <2> QED
    BY <2>1 DEF Turnover
<1> QED
  BY <1>3, <1>4, <1>5, <1>6 DEF Statements

(* What a trial balance reads of a period balances over the chart.          *)
LEMMA ActivityBalances ==
    ASSUME BookInv, NEW from, NEW to
    PROVE  Balanced(accounts, _account_activity(from, to))
<1>1. accounts \subseteq Accounts
  BY DEF BookInv
<1>2. /\ SumOf([a \in accounts |-> _account_activity(from, to)[a].debit], accounts)
           = Summed(accounts, "debit", from, to)
      /\ SumOf([a \in accounts |-> _account_activity(from, to)[a].credit], accounts)
           = Summed(accounts, "credit", from, to)
  BY <1>1, ActivityOf
<1> QED
  BY <1>2, ChartBalances DEF Balanced

LEMMA InitReports == Init => ReportInv
BY DEF Init, ReportInv, ReaderOK, Resting

(* A reader that does nothing while nothing happens to the books.           *)
LEMMA OneReader ==
    ASSUME ReportInv, NEW u \in Readers, report'[u] = report[u],
           UNCHANGED <<accounts, document, ledger>>
    PROVE  ReaderOK(u)'
<1>1. ReaderOK(u)
  BY DEF ReportInv
<1>2. CASE report[u].at = "resting"
  BY <1>2 DEF ReaderOK
<1>3. CASE ReaderShape(u) /\ ReadQuietly(u) /\ ReadBalanced(u)
  <2>1. ReaderShape(u)'
    BY <1>3 DEF ReaderShape
  <2>2. \A kind, today : Statements(kind, today)' = Statements(kind, today)
    BY SameStatements
  <2>3. ReadQuietly(u)'
    BY <1>3, <2>2 DEF ReadQuietly
  <2>4. ReadBalanced(u)'
    BY <1>3 DEF ReadBalanced, Balanced
  <2> QED
    BY <2>1, <2>3, <2>4 DEF ReaderOK
<1> QED
  BY <1>1, <1>2, <1>3 DEF ReaderOK

(* A commit, or any other step of the books, as a report sees it.           *)
LEMMA OvertakenReader ==
    ASSUME ReportInv, NEW q \in Readers, report' = [u \in Readers |-> Overtaken(u)]
    PROVE  ReaderOK(q)'
<1>1. report'[q] = Overtaken(q) /\ ReaderOK(q)
  BY DEF ReportInv
<1>2. CASE report[q].at = "resting"
  BY <1>1, <1>2 DEF Overtaken, ReaderOK
<1>3. CASE report[q].at # "resting" /\ UNCHANGED <<accounts, document, ledger>>
  <2>1. report'[q] = report[q]
    BY <1>1, <1>3 DEF Overtaken
  <2> QED
    BY <1>3, <2>1, OneReader
<1>4. CASE report[q].at # "resting" /\ ~UNCHANGED <<accounts, document, ledger>>
  <2> DEFINE was == report[q]
             grew == was.grew \/ (was.at = "reading" /\ was.got # <<>> /\ accounts' # accounts)
  <2>1. ReaderShape(q) /\ ReadBalanced(q)
    BY <1>1, <1>4 DEF ReaderOK
  <2>2. report'[q] = [was EXCEPT !.quiet = FALSE, !.grew = grew]
    BY <1>1, <1>4 DEF Overtaken
  <2>3. was = [at |-> was.at, kind |-> was.kind, today |-> was.today,
               got |-> was.got, quiet |-> was.quiet, grew |-> was.grew]
    BY <2>1 DEF ReaderShape
  <2>4. report'[q] = [at |-> was.at, kind |-> was.kind, today |-> was.today,
                      got |-> was.got, quiet |-> FALSE, grew |-> grew]
    <3> HIDE DEF grew, was
    <3> QED
      BY <2>2, <2>3
  <2>5. /\ report'[q].at = was.at /\ report'[q].kind = was.kind /\ report'[q].today = was.today
        /\ report'[q].got = was.got /\ report'[q].quiet = FALSE /\ report'[q].grew = grew
    BY <2>4
  <2>6. ReaderShape(q)'
    BY <2>1, <2>4, <2>5 DEF ReaderShape
  <2>7. ReadQuietly(q)'
    BY <2>5 DEF ReadQuietly
  <2>8. ReadBalanced(q)'
    <3>1. Len(was.got) # 0 => was.got # <<>>
      OBVIOUS
    <3> QED
      BY <2>1, <2>5, <3>1 DEF ReadBalanced, Balanced
  <2> QED
    BY <2>6, <2>7, <2>8 DEF ReaderOK
<1> QED
  BY <1>2, <1>3, <1>4

(* A report begins with nothing read.                                       *)
LEMMA AskReader ==
    ASSUME BookInv, ReportInv, NEW q \in Readers, Ask(q)
    PROVE  ReportInv'
<1>1. PICK kind \in Kinds :
          report' = [report EXCEPT ![q] =
              [at |-> "reading", kind |-> kind, today |-> day, got |-> <<>>,
               quiet |-> TRUE, grew |-> FALSE]]
  BY DEF Ask
<1>2. report'[q] = [at |-> "reading", kind |-> kind, today |-> day, got |-> <<>>,
                    quiet |-> TRUE, grew |-> FALSE]
  BY <1>1 DEF ReportInv
<1>3. /\ report'[q].at = "reading" /\ report'[q].kind = kind /\ report'[q].today = day
      /\ report'[q].got = <<>> /\ report'[q].quiet = TRUE /\ report'[q].grew = FALSE
  BY <1>2
<1>4. Len(<<>>) = 0 /\ <<>> \in Seq({}) /\ Length(kind) \in {2, 3}
  BY DEF Length
<1>5. ReaderShape(q)'
  BY <1>2, <1>3, <1>4 DEF ReaderShape, BookInv
<1>6. ReadQuietly(q)' /\ ReadBalanced(q)'
  BY <1>3, <1>4 DEF ReadQuietly, ReadBalanced
<1>7. \A u \in Readers \ {q} : ReaderOK(u)'
  BY <1>1, OneReader DEF Ask, ReportInv, bookVars
<1> QED
  BY <1>1, <1>5, <1>6, <1>7 DEF ReportInv, ReaderOK

(* The next statement of a report.                                          *)
LEMMA ReadOnReader ==
    ASSUME BookInv, ReportInv, NEW q \in Readers, ReadOn(q)
    PROVE  ReportInv'
<1> DEFINE was == report[q]
           read == was.got
<1>1. was.at = "reading" /\ Len(read) + 1 <= Length(was.kind) /\ UNCHANGED bookVars
  BY DEF ReadOn
<1>2. ReaderShape(q) /\ ReadQuietly(q) /\ ReadBalanced(q)
  BY <1>1 DEF ReportInv, ReaderOK
<1>3. PICK S : read \in Seq(S)
  BY <1>2 DEF ReaderShape
<1>4. PICK k \in Nat : Len(read) = k
  BY <1>3, LenProperties
<1> DEFINE value == Statements(was.kind, was.today)[k + 1]
           got == Append(read, value)
           at == IF k + 1 = Length(was.kind) THEN "told" ELSE was.at
<1>5. report' = [report EXCEPT ![q].got = got, ![q].at = at]
  BY <1>4 DEF ReadOn
<1>6. report'[q] = [at |-> at, kind |-> was.kind, today |-> was.today,
                    got |-> got, quiet |-> was.quiet, grew |-> was.grew]
  <2>1. was = [at |-> was.at, kind |-> was.kind, today |-> was.today,
               got |-> was.got, quiet |-> was.quiet, grew |-> was.grew]
    BY <1>2 DEF ReaderShape
  <2>2. report'[q] = [was EXCEPT !.got = got, !.at = at]
    <3> HIDE DEF got, at
    <3> QED
      BY <1>5 DEF ReportInv
  <2> HIDE DEF was, got, at
  <2> QED
    BY <2>1, <2>2
<1>7. /\ report'[q].at = at /\ report'[q].kind = was.kind /\ report'[q].today = was.today
      /\ report'[q].got = got /\ report'[q].quiet = was.quiet /\ report'[q].grew = was.grew
  BY <1>6
<1>8. /\ got \in Seq(S \cup {value}) /\ Len(got) = k + 1
      /\ \A i \in 1 .. k : got[i] = read[i]
      /\ got[k + 1] = value
  <2>1. read \in Seq(S \cup {value}) /\ value \in S \cup {value}
    BY <1>3, SeqMonotonic
  <2> HIDE DEF value, read
  <2> QED
    BY <1>4, <2>1, AppendProperties
<1>9. k + 1 <= Length(was.kind) /\ Length(was.kind) \in {2, 3}
  BY <1>1, <1>4 DEF Length
<1>10. value = Statements(was.kind, was.today)[k + 1]
  OBVIOUS
<1> HIDE DEF got, value, at
<1>11. ReaderShape(q)'
  <2>1. at \in {"reading", "told"} /\ (at = "told" <=> k + 1 = Length(was.kind))
    BY <1>1 DEF at
  <2> QED
    BY <1>2, <1>6, <1>7, <1>8, <1>9, <2>1 DEF ReaderShape
<1>12. ReadQuietly(q)'
  <2>1. \A kind, today : Statements(kind, today)' = Statements(kind, today)
    BY <1>1, SameStatements DEF bookVars
  <2>2. ASSUME was.quiet, NEW i \in 1 .. (k + 1)
        PROVE  got[i] = Statements(was.kind, was.today)[i]
    <3>1. CASE i = k + 1
      BY <1>8, <1>10, <3>1
    <3>2. CASE i \in 1 .. k
      BY <1>2, <1>4, <1>8, <2>2, <3>2 DEF ReadQuietly
    <3> QED
      BY <3>1, <3>2
  <2> QED
    BY <1>7, <1>8, <2>1, <2>2 DEF ReadQuietly
<1>13. ReadBalanced(q)'
  <2> SUFFICES ASSUME was.kind = "trial_balance", ~was.grew
               PROVE  /\ got[1] = accounts
                      /\ \A i \in {2, 3} : i <= k + 1 => Balanced(got[1], got[i])
    BY <1>1, <1>7, <1>8 DEF ReadBalanced, bookVars
  <2>1. /\ Statements(was.kind, was.today)[1] = accounts
        /\ Statements(was.kind, was.today)[2] = _account_activity(was.today, was.today)
        /\ Statements(was.kind, was.today)[3] = _account_activity(1, was.today)
    BY DEF Statements
  <2>2. /\ k = 0 \/ read[1] = accounts
        /\ \A i \in {2, 3} : i <= k => Balanced(read[1], read[i])
    BY <1>1, <1>2, <1>4 DEF ReadBalanced
  <2>3. got[1] = accounts
    <3>1. CASE k = 0
      <4>1. got[0 + 1] = Statements(was.kind, was.today)[0 + 1]
        BY <1>8, <1>10, <3>1
      <4> QED
        BY <2>1, <4>1
    <3>2. CASE k # 0
      <4>1. 1 \in 1 .. k
        BY <1>4, <3>2
      <4> QED
        BY <1>8, <2>2, <3>2, <4>1
    <3> QED
      BY <3>1, <3>2
  <2>4. ASSUME NEW i \in {2, 3}, i <= k + 1
        PROVE  Balanced(got[1], got[i])
    <3>1. CASE i = k + 1
      <4>1. value = _account_activity(was.today, was.today) \/ value = _account_activity(1, was.today)
        BY <1>10, <2>1, <3>1
      <4>2. Balanced(accounts, value)
        BY <4>1, ActivityBalances
      <4> QED
        BY <1>8, <2>3, <3>1, <4>2
    <3>2. CASE i <= k
      <4>1. i \in 1 .. k /\ 1 \in 1 .. k
        BY <1>4, <3>2
      <4> QED
        BY <1>8, <2>2, <3>2, <4>1
    <3> QED
      BY <1>4, <2>4, <3>1, <3>2
  <2> QED
    BY <2>3, <2>4
<1>14. \A u \in Readers \ {q} : ReaderOK(u)'
  <2>1. \A u \in Readers \ {q} : report'[u] = report[u]
    BY <1>5 DEF ReportInv
  <2> QED
    BY <1>1, <2>1, OneReader DEF bookVars
<1>15. report' = [u \in Readers |-> report'[u]]
  BY <1>5 DEF ReportInv
<1> QED
  BY <1>11, <1>12, <1>13, <1>14, <1>15 DEF ReportInv, ReaderOK

(* A report that has been read out.                                         *)
LEMMA CloseReader ==
    ASSUME ReportInv, NEW q \in Readers, Close(q)
    PROVE  ReportInv'
<1>1. report'[q].at = "resting" /\ UNCHANGED bookVars
  BY DEF Close, ReportInv, Resting
<1>2. \A u \in Readers \ {q} : ReaderOK(u)'
  BY OneReader DEF Close, ReportInv, bookVars
<1> QED
  BY <1>1, <1>2 DEF Close, ReportInv, ReaderOK

LEMMA StepReports == BookInv /\ ReportInv /\ [Next]_vars => ReportInv'
<1> SUFFICES ASSUME BookInv, ReportInv, [Next]_vars PROVE ReportInv'
  OBVIOUS
<1>1. CASE UNCHANGED vars
  <2>1. \A q \in Readers : ReaderOK(q)'
    BY <1>1, OneReader DEF vars
  <2> QED
    BY <1>1, <2>1 DEF ReportInv, vars
<1>2. CASE BookNext /\ report' = [q \in Readers |-> Overtaken(q)]
  <2>1. \A q \in Readers : ReaderOK(q)'
    BY <1>2, OvertakenReader
  <2> QED
    BY <1>2, <2>1 DEF ReportInv
<1> QED
  BY <1>1, <1>2, AskReader, ReadOnReader, CloseReader DEF Next

(* A trial balance that has been told has read all three.                   *)
LEMMA ToldBalances == ReportInv => TrialBalanceBalances
<1> SUFFICES ASSUME ReportInv, NEW q \in Readers, Told(q, "trial_balance"), ~report[q].grew,
                    NEW n \in {2, 3}
             PROVE  Total(q, n, "debit") = Total(q, n, "credit")
  BY DEF TrialBalanceBalances
<1>1. report[q].at = "told" /\ report[q].kind = "trial_balance"
  BY DEF Told
<1>2. ReaderShape(q) /\ ReadBalanced(q)
  BY <1>1 DEF ReportInv, ReaderOK
<1>3. Len(report[q].got) = 3
  BY <1>1, <1>2 DEF ReaderShape, Length
<1>4. Balanced(report[q].got[1], report[q].got[n])
  BY <1>1, <1>2, <1>3 DEF ReadBalanced
<1> QED
  BY <1>4 DEF Balanced, Total

(* The difference between revenue and what is counted against it.           *)
LEMMA PeriodProfit ==
    ASSUME BookInv, \A d \in Documents : Matched(d), NEW from, NEW to
    PROVE  _revenue_for_period(from, to) - _expense_activity_for_period(TRUE, from, to)
               - _expense_activity_for_period(FALSE, from, to) = ProfitOf(OfPeriod(from, to))
<1> DEFINE takings == Takings(OfPeriod(from, to) \cap Sales)
           cost  == CostOf(OfPeriod(from, to) \cap Sales)
           spent == SpentOf(OfPeriod(from, to) \cap Expenses)
<1>1. takings \in Nat /\ cost \in Nat /\ spent \in Nat
  BY PostedSums
<1>2. ProfitOf(OfPeriod(from, to)) = takings - cost - spent
  BY ProfitOfPosted, MatchedTakings
<1> HIDE DEF takings, cost, spent
<1>3. _revenue_for_period(from, to) = takings - 0
  BY RevenueIsTakings, NoRevenueBack DEF _revenue_for_period, takings
<1>4. _expense_activity_for_period(TRUE, from, to) = cost - 0
  BY CogsIsCost, NoCogsBack DEF _expense_activity_for_period, Balance, cost
<1>5. _expense_activity_for_period(FALSE, from, to) = spent - 0
  BY CategoriesAreExpenses, NoExpenseBack DEF _expense_activity_for_period, Balance, spent
<1> DEFINE cogs   == _expense_activity_for_period(TRUE, from, to)
           others == _expense_activity_for_period(FALSE, from, to)
<1>6. cogs = cost - 0 /\ others = spent - 0
  BY <1>4, <1>5
<1> HIDE DEF cogs, others
<1>7. _revenue_for_period(from, to) - cogs - others = ProfitOf(OfPeriod(from, to))
  BY <1>1, <1>2, <1>3, <1>6
<1> QED
  BY <1>7 DEF cogs, others

(* The assets are what came in less what went out.                          *)
LEMMA AssetsAreProfit ==
    ASSUME BookInv, \A d \in Documents : Matched(d), NEW q, NEW today,
           report[q].got[1] = accounts, report[q].got[2] = _account_activity(1, today)
    PROVE  Assets(q) = ProfitOf(OfPeriod(1, today))
<1> DEFINE held == (Methods \cup {"receivable", "inventory"}) \cap accounts
           takings == Takings(OfPeriod(1, today) \cap Sales)
           cost  == CostOf(OfPeriod(1, today) \cap Sales)
           spent == SpentOf(OfPeriod(1, today) \cap Expenses)
<1>1. takings \in Nat /\ cost \in Nat /\ spent \in Nat
  BY PostedSums
<1>2. ProfitOf(OfPeriod(1, today)) = takings - cost - spent
  BY ProfitOfPosted, MatchedTakings
<1>3. held \subseteq Accounts
  BY DEF BookInv
<1>4. Assets(q) = SumOf([a \in held |-> _account_activity(1, today)[a].debit], held)
                    - SumOf([a \in held |-> _account_activity(1, today)[a].credit], held)
  BY DEF Assets
<1>5. /\ Summed(Methods \cup {"receivable", "inventory"}, "debit", 1, today) = takings
      /\ Summed(Methods \cup {"receivable", "inventory"}, "credit", 1, today) = spent + cost
  BY TakingsComeIn, WhatIsPaid
<1> DEFINE codes == Methods \cup {"receivable", "inventory"}
<1>6. held = codes \cap accounts /\ Summed(codes, "debit", 1, today) = takings
      /\ Summed(codes, "credit", 1, today) = spent + cost
  BY <1>5
<1> HIDE DEF held, codes, takings, cost, spent
<1>7. /\ SumOf([a \in held |-> _account_activity(1, today)[a].debit], held)
           = Summed(held, "debit", 1, today)
      /\ SumOf([a \in held |-> _account_activity(1, today)[a].credit], held)
           = Summed(held, "credit", 1, today)
  BY <1>3, ActivityOf
<1>8. /\ Summed(held, "debit", 1, today) = Summed(codes, "debit", 1, today)
      /\ Summed(held, "credit", 1, today) = Summed(codes, "credit", 1, today)
  BY <1>6, SummedOfShop
<1>9. Assets(q) = takings - (spent + cost)
  BY <1>4, <1>6, <1>7, <1>8
<1> QED
  BY <1>1, <1>2, <1>9

(* A balance up to a day and that of the day itself.                        *)
LEMMA BalanceOfDays ==
    ASSUME BookInv, NEW codes, NEW today \in Nat \ {0}
    PROVE  Balance(codes, 1, today - 1) + Balance(codes, today, today) = Balance(codes, 1, today)
<1>1. \A side : /\ Summed(codes, side, 1, today)
                     = Summed(codes, side, 1, today - 1) + Summed(codes, side, today, today)
                /\ Summed(codes, side, 1, today - 1) \in Nat /\ Summed(codes, side, today, today) \in Nat
  <2>1. 1 \in Nat /\ today \in Nat /\ 1 <= today /\ today <= today
    OBVIOUS
  <2> QED
    BY <2>1, SummedDays, SummedColumn
<1> QED
  BY <1>1 DEF Balance

(* What a report that nothing overtook says.                                *)
LEMMA QuietAgrees == BookInv /\ ReportInv => QuietReportsAgree
<1> SUFFICES ASSUME BookInv, ReportInv, NEW q \in Readers, report[q].at = "told", report[q].quiet
             PROVE  LET today   == report[q].today
                        ofToday == {d \in Documents : There(d) /\ document[d].day = today}
                        known   == {d \in Documents : There(d) /\ \E e \in ledger[d] : e.day <= today}
                        matched == \A d \in Documents : Matched(d)
                    IN  CASE report[q].kind = "profit_and_loss" -> matched => Profit(q) = ProfitOf(known)
                          [] report[q].kind = "balance_sheet"   -> matched => Assets(q) = ProfitOf(known)
                          [] report[q].kind = "dashboard"       ->
                                matched /\ OnTheirDay(Documents) => Profit(q) = ProfitOf(ofToday)
                          [] report[q].kind = "account_ledger"  ->
                                report[q].got[1] + report[q].got[2] = Balance({"cash"}, 1, today)
                          [] OTHER                              -> TRUE
  BY Zenon DEF QuietReportsAgree
<1> DEFINE today == report[q].today
           kind  == report[q].kind
           known == {d \in Documents : There(d) /\ \E e \in ledger[d] : e.day <= today}
<1>1. ReaderShape(q) /\ ReadQuietly(q)
  BY DEF ReportInv, ReaderOK
<1>2. today \in Nat \ {0} /\ Len(report[q].got) = Length(kind)
  BY <1>1 DEF ReaderShape
<1>3. \A n \in 1 .. Length(kind) : report[q].got[n] = Statements(kind, today)[n]
  BY <1>1, <1>2 DEF ReadQuietly
<1> DEFINE matched == \A d \in Documents : Matched(d)
<1>4. matched => ProfitOf(known) = ProfitOf(OfPeriod(1, today))
  <2> SUFFICES ASSUME matched PROVE ProfitOf(known) = ProfitOf(OfPeriod(1, today))
    OBVIOUS
  <2>1. Counting(known) = Counting(OfPeriod(1, today))
    BY <1>2, KnownArePosted
  <2>2. known \subseteq Documents /\ OfPeriod(1, today) \subseteq Documents
    BY DEF OfPeriod
  <2> HIDE DEF known
  <2> QED
    BY <2>1, <2>2, ProfitOfCounting
<1>5. CASE kind = "profit_and_loss"
  <2>1. /\ report[q].got[1] = _revenue_for_period(1, today)
        /\ report[q].got[2] = _expense_activity_for_period(TRUE, 1, today)
        /\ report[q].got[3] = _expense_activity_for_period(FALSE, 1, today)
    <3> DEFINE cogs   == _expense_activity_for_period(TRUE, 1, today)
               others == _expense_activity_for_period(FALSE, 1, today)
    <3>1. Statements(kind, today) = <<_revenue_for_period(1, today), cogs, others>>
      BY <1>5 DEF Statements
    <3>2. Length(kind) = 3
      BY <1>5 DEF Length
    <3> HIDE DEF cogs, others
    <3>3. /\ report[q].got[1] = _revenue_for_period(1, today)
          /\ report[q].got[2] = cogs /\ report[q].got[3] = others
      BY <1>3, <3>1, <3>2
    <3> QED
      BY <3>3 DEF cogs, others
  <2>2. matched => Profit(q) = ProfitOf(OfPeriod(1, today))
    BY <2>1, PeriodProfit DEF Profit
  <2> QED
    BY <1>4, <1>5, <2>2
<1>6. CASE kind = "balance_sheet"
  <2>1. report[q].got[1] = accounts /\ report[q].got[2] = _account_activity(1, today)
    BY <1>3, <1>6 DEF Length, Statements
  <2>2. matched => Assets(q) = ProfitOf(OfPeriod(1, today))
    BY <2>1, AssetsAreProfit
  <2> QED
    BY <1>4, <1>6, <2>2
<1>7. CASE kind = "dashboard"
  <2> SUFFICES ASSUME matched, OnTheirDay(Documents)
               PROVE  Profit(q) = ProfitOf({d \in Documents : There(d) /\ document[d].day = today})
    BY <1>7
  <2> DEFINE ofToday == {d \in Documents : There(d) /\ document[d].day = today}
             sold    == OfPeriod(today, today) \cap Sales
  <2>1. Counting(ofToday) = Counting(OfPeriod(today, today))
    BY <1>2, TodaysArePosted
  <2>2. Turnover(SoldOn(today)) = Turnover(sold)
    <3>1. Counting(SoldOn(today)) = Counting(sold)
      BY <2>1, AccountsDiffer DEF SoldOn, Counting
    <3>2. SoldOn(today) \subseteq Sales /\ sold \subseteq Sales
      BY DEF SoldOn
    <3> QED
      BY <3>1, <3>2, TurnoverOfCounting
  <2>3. /\ report[q].got[1] = Turnover(SoldOn(today))
        /\ report[q].got[2] = _expense_activity_for_period(TRUE, today, today)
        /\ report[q].got[3] = _expense_activity_for_period(FALSE, today, today)
    <3> DEFINE cogs   == _expense_activity_for_period(TRUE, today, today)
               others == _expense_activity_for_period(FALSE, today, today)
    <3>1. Statements(kind, today) = <<Turnover(SoldOn(today)), cogs, others>>
      BY <1>7 DEF Statements
    <3>2. Length(kind) = 3
      BY <1>7 DEF Length
    <3> HIDE DEF cogs, others
    <3>3. report[q].got[1] = Turnover(SoldOn(today)) /\ report[q].got[2] = cogs /\ report[q].got[3] = others
      BY <1>3, <3>1, <3>2
    <3> QED
      BY <3>3 DEF cogs, others
  <2>4. Turnover(SoldOn(today)) = _revenue_for_period(today, today)
    <3>1. Takings(sold) = Turnover(sold)
      BY MatchedTakings
    <3>2. Takings(sold) \in Nat
      BY PostedSums
    <3>3. _revenue_for_period(today, today) = Turnover(SoldOn(today)) - 0
      BY <2>2, <3>1, RevenueIsTakings, NoRevenueBack DEF _revenue_for_period
    <3> QED
      BY <2>2, <3>1, <3>2, <3>3
  <2>5. Profit(q) = ProfitOf(OfPeriod(today, today))
    BY <2>3, <2>4, PeriodProfit DEF Profit
  <2>6. ProfitOf(ofToday) = ProfitOf(OfPeriod(today, today))
    <3>1. ofToday \subseteq Documents /\ OfPeriod(today, today) \subseteq Documents
      BY DEF OfPeriod
    <3> HIDE DEF ofToday
    <3> QED
      BY <2>1, <3>1, ProfitOfCounting
  <2> QED
    BY <2>5, <2>6
<1>8. CASE kind = "account_ledger"
  <2>1. /\ report[q].got[1] = Balance({"cash"}, 1, today - 1)
        /\ report[q].got[2] = Balance({"cash"}, today, today)
    BY <1>3, <1>8 DEF Length, Statements
  <2>2. Balance({"cash"}, 1, today - 1) + Balance({"cash"}, today, today) = Balance({"cash"}, 1, today)
    BY <1>2, BalanceOfDays
  <2> QED
    BY <1>8, <2>1, <2>2
<1> QED
  BY <1>5, <1>6, <1>7, <1>8

(* The trial balance balances for its period and at its close, whatever is  *)
(* committed between its statements (get_trial_balance under READ           *)
(* COMMITTED), unless a commit adds an account to the chart it has read.    *)
THEOREM TrialBalancesBalance == Spec => []TrialBalanceBalances
<1>1. Init => BookInv /\ ReportInv
  BY InitBook, InitReports DEF Init
<1>2. BookInv /\ ReportInv /\ [Next]_vars => (BookInv /\ ReportInv)'
  BY StepBook, StepReports
<1> QED
  BY <1>1, <1>2, ToldBalances, PTL DEF Spec

(* The reports agree with the documents when nothing is committed between   *)
(* their statements and no outdated edit has left the books unmatched:      *)
(* profit and loss, balance sheet, dashboard and account ledger of          *)
(* services/reporting.py and services/accounting.py.                        *)
THEOREM ReportsAgreeWithDocuments == Spec => []QuietReportsAgree
<1>1. Init => BookInv /\ ReportInv
  BY InitBook, InitReports DEF Init
<1>2. BookInv /\ ReportInv /\ [Next]_vars => (BookInv /\ ReportInv)'
  BY StepBook, StepReports
<1> QED
  BY <1>1, <1>2, QuietAgrees, PTL DEF Spec
=============================================================================
