--------------------------- MODULE SalesDeskProofs ---------------------------
(***************************************************************************)
(* Theorems about SalesDesk, for every value of its constants.             *)
(***************************************************************************)
EXTENDS SalesDesk, FiniteSetTheorems, FunctionTheorems, TLAPS

-----------------------------------------------------------------------------
(* Sums over rows, when rows are added, removed or rewritten.               *)

(* The sum of finitely many amounts is a natural number.                    *)
LEMMA TallyType ==
    ASSUME NEW f, NEW S, IsFiniteSet(S)
    PROVE  /\ IsFiniteSet(Units(f, S))
           /\ TallyOf(f, S) \in Nat
<1>1. IsFiniteSet(Amounts)
  BY FS_Interval, MaxAmountIsNat DEF Amounts
<1>2. IsFiniteSet(S \X Amounts)
  BY <1>1, FS_Product
<1>3. Units(f, S) \in SUBSET (S \X Amounts)
  BY DEF Units
<1>4. IsFiniteSet(Units(f, S))
  BY <1>2, <1>3, FS_Subset
<1> QED
  BY <1>4, FS_CardinalityType DEF TallyOf

(* Nothing sums to nothing.                                                 *)
LEMMA TallyEmpty ==
    ASSUME NEW f
    PROVE  TallyOf(f, {}) = 0
<1>1. Units(f, {}) = {}
  BY DEF Units
<1> QED
  BY <1>1, FS_EmptySet DEF TallyOf

(* A sum only depends on the column of the rows summed.                     *)
LEMMA TallySame ==
    ASSUME NEW f, NEW g, NEW S, \A x \in S : f[x] = g[x]
    PROVE  TallyOf(f, S) = TallyOf(g, S)
<1>1. Units(f, S) = Units(g, S)
  BY DEF Units
<1> QED
  BY <1>1 DEF TallyOf

(* Adding a row adds its amount; removing one takes it away.                *)
LEMMA TallyAdd ==
    ASSUME NEW f, NEW S, NEW x, IsFiniteSet(S), x \notin S, f[x] \in 0 .. MaxAmount
    PROVE  TallyOf(f, S \cup {x}) = TallyOf(f, S) + f[x]
<1> DEFINE row == {x} \X (1 .. f[x])
<1>1. Units(f, S \cup {x}) = Units(f, S) \cup row /\ Units(f, S) \cap row = {}
  BY MaxAmountIsNat DEF Units, Amounts
<1>2. f[x] \in Nat
  BY MaxAmountIsNat
<1>3. IsFiniteSet(1 .. f[x]) /\ Cardinality(1 .. f[x]) = IF 1 > f[x] THEN 0 ELSE f[x] - 1 + 1
  <2> DEFINE n == f[x]
  <2>1. n \in Int
    BY <1>2
  <2> HIDE DEF n
  <2>2. IsFiniteSet(1 .. n) /\ Cardinality(1 .. n) = IF 1 > n THEN 0 ELSE n - 1 + 1
    BY <2>1, FS_Interval
  <2> QED
    BY <2>2 DEF n
<1>4. IsFiniteSet({x}) /\ Cardinality({x}) = 1
  BY FS_Singleton
<1>5. IsFiniteSet(row) /\ Cardinality(row) = Cardinality({x}) * Cardinality(1 .. f[x])
  BY <1>3, <1>4, FS_Product
<1>6. Cardinality(row) = f[x]
  <2>1. Cardinality(1 .. f[x]) = f[x]
    BY <1>2, <1>3
  <2> HIDE DEF row
  <2> QED
    BY <1>2, <1>4, <1>5, <2>1
<1> HIDE DEF row
<1>7. IsFiniteSet(Units(f, S)) /\ Cardinality(Units(f, S)) \in Nat
  BY TallyType DEF TallyOf
<1>8. Cardinality({}) = 0
  BY FS_EmptySet
<1>9. Cardinality(Units(f, S) \cup row) = Cardinality(Units(f, S)) + Cardinality(row) - 0
  BY <1>1, <1>5, <1>7, <1>8, FS_Union
<1>10. Cardinality(Units(f, S \cup {x})) = Cardinality(Units(f, S)) + f[x]
  BY <1>1, <1>2, <1>6, <1>7, <1>9
<1> QED
  BY <1>10 DEF TallyOf

-----------------------------------------------------------------------------
(* Lemmas about the arithmetic and the posting rules.                       *)

(* Round-half-up division of naturals is a natural.                         *)
LEMMA RoundDivType ==
    ASSUME NEW n \in Nat, NEW d \in Nat \ {0}
    PROVE  RoundDiv(n, d) \in Nat
<1>1. 2 * n + d \in Nat /\ 2 * d \in Nat /\ 2 * d > 0
  OBVIOUS
<1> QED
  BY <1>1 DEF RoundDiv

(* It is off by at most half of one.                                        *)
LEMMA RoundDivNear ==
    ASSUME NEW n \in Nat, NEW d \in Nat \ {0}
    PROVE  /\ 2 * (d * RoundDiv(n, d)) <= 2 * n + d
           /\ 2 * n - d <= 2 * (d * RoundDiv(n, d))
<1> DEFINE x == 2 * n + d
           y == 2 * d
           r == x \div y
<1>1. x \in Nat /\ y \in Nat /\ y > 0 /\ r \in Nat /\ RoundDiv(n, d) = r
  BY DEF RoundDiv
<1>2. x = y * r + (x % y) /\ (x % y) \in 0 .. (y - 1)
  <2> HIDE DEF x, y
  <2> QED
    BY <1>1
<1>3. y * r = 2 * (d * r)
  <2> HIDE DEF r
  <2> QED
    BY <1>1
<1> DEFINE z == d * r
<1>4. z \in Int
  BY <1>1
<1> HIDE DEF r, z
<1>5. x = 2 * z + (x % y)
  BY <1>2, <1>3 DEF z
<1>6. (x % y) \in Int /\ 0 <= (x % y) /\ (x % y) <= 2 * d - 1
  BY <1>1, <1>2
<1>7. 2 * z <= 2 * n + d /\ 2 * n - d <= 2 * z
  BY <1>4, <1>5, <1>6
<1> QED
  BY <1>1, <1>7 DEF z

(* The value of a quantity is a natural, off by at most half of one.        *)
LEMMA ValuedType ==
    ASSUME NEW q \in Nat, NEW price \in Nat
    PROVE  /\ Valued(q, price) \in Nat
           /\ 2 * (QuantityScale * Valued(q, price)) <= 2 * (q * price) + QuantityScale
           /\ 2 * (q * price) - QuantityScale <= 2 * (QuantityScale * Valued(q, price))
<1>1. q * price \in Nat /\ QuantityScale \in Nat \ {0}
  BY InventoryAssumption
<1> QED
  BY <1>1, RoundDivType, RoundDivNear DEF Valued

(* The minimum and the excess of two naturals.                              *)
LEMMA LeastExcess ==
    ASSUME NEW a \in Int, NEW b \in Int
    PROVE  /\ Least(a, b) \in Int
           /\ Least(a, b) <= a /\ Least(a, b) <= b
           /\ Least(a, b) \in {a, b}
           /\ Excess(a, b) \in Nat
           /\ a >= b => Excess(a, b) = a - b
           /\ a <= b => Excess(a, b) = 0
BY DEF Least, Excess

(* The same of any two naturals, for citing.                                *)
LEMMA NaturalLeastExcess ==
    \A a, b \in Nat : /\ Least(a, b) \in Nat /\ Least(a, b) <= a /\ Least(a, b) <= b
                      /\ a - Least(a, b) \in Nat
                      /\ Excess(a, b) \in Nat
BY DEF Least, Excess

(* The money collected on a sale, by till, is a natural number.             *)
LEMMA InflowType ==
    ASSUME NEW rows, NEW s
    PROVE  InflowIn(rows, s) \in [Tills -> Nat]
<1> SUFFICES ASSUME NEW t \in Tills
             PROVE  TallyOf(AmountsIn(rows),
                            {p \in AllocatedIn(rows, s) : rows[p].till = t}) \in Nat
  BY DEF InflowIn
<1>1. {p \in AllocatedIn(rows, s) : rows[p].till = t} \in SUBSET Payments
  BY DEF AllocatedIn
<1>2. IsFiniteSet({p \in AllocatedIn(rows, s) : rows[p].till = t})
  BY <1>1, FS_Subset, DeskAssumption
<1> QED
  BY <1>2, TallyType

(* post_sale builds amounts that are not negative.                          *)
LEMMA SaleGroupType ==
    ASSUME NEW total \in Int, NEW paid \in Nat, NEW inflow \in [Tills -> Nat]
    PROVE  SaleGroup(total, paid, inflow) \in SaleGroups
<1>1. Excess(paid, Collected(inflow)) \in Nat /\ Excess(total, paid) \in Nat
  BY DEF Excess, Collected, Tills
<1>2. NoSaleGroup \in SaleGroups
  BY DEF NoSaleGroup, SaleGroups
<1>3. [t \in Tills |-> inflow[t] + IF t = "Cash" THEN Excess(paid, Collected(inflow)) ELSE 0]
         \in [Tills -> Nat]
  BY <1>1
<1> QED
  BY <1>1, <1>2, <1>3 DEF SaleGroup, SaleGroups

(* post_sale_return builds amounts that are not negative, and its refund    *)
(* lines balance.                                                           *)
LEMMA ReturnGroupType ==
    ASSUME NEW refund \in Nat, NEW ar \in Nat, ar <= refund, NEW cogs \in Nat,
           NEW first \in Tills, NEW inflow \in [Tills -> Nat]
    PROVE  /\ ReturnGroup(refund, ar, cogs, first, inflow) \in ReturnGroups
           /\ ReturnGroupBalances(ReturnGroup(refund, ar, cogs, first, inflow))
<1> DEFINE cash == refund - ar
           back == RefundTo(first, cash, inflow)
           rest == Leftover(first, cash, inflow)
           money == [t \in Tills |-> back[t] + IF t = "Cash" THEN rest ELSE 0]
<1>1. cash \in Nat /\ inflow["Cash"] \in Nat /\ inflow["Bank"] \in Nat
  BY DEF Tills
<1>2. back \in [Tills -> Nat] /\ rest \in Nat
  BY <1>1 DEF RefundTo, Leftover, Least, Excess, Collected, Tills
<1>3. money["Cash"] + money["Bank"] = cash
  <2>1. CASE first = "Cash"
    BY <1>1, <2>1 DEF RefundTo, Leftover, Least, Excess, Collected, Tills
  <2>2. CASE first = "Bank"
    BY <1>1, <2>2 DEF RefundTo, Leftover, Least, Excess, Collected, Tills
  <2> QED
    BY <2>1, <2>2 DEF Tills
<1>4. money \in [Tills -> Nat]
  BY <1>2
<1>5. ReturnGroup(refund, ar, cogs, first, inflow)
        = [money |-> money, ar |-> ar, revenue |-> refund, cogs |-> cogs]
  BY DEF ReturnGroup
<1> HIDE DEF money
<1> QED
  BY <1>3, <1>4, <1>5 DEF ReturnGroups, ReturnGroupBalances

(* Adding up return groups keeps their type and their balance.              *)
LEMMA AddReturnGroupType ==
    ASSUME NEW g \in ReturnGroups, NEW h \in ReturnGroups
    PROVE  /\ AddReturnGroup(g, h) \in ReturnGroups
           /\ ReturnGroupBalances(g) /\ ReturnGroupBalances(h)
                => ReturnGroupBalances(AddReturnGroup(g, h))
<1>1. g.money \in [Tills -> Nat] /\ h.money \in [Tills -> Nat]
      /\ g.ar \in Nat /\ h.ar \in Nat /\ g.revenue \in Nat /\ h.revenue \in Nat
      /\ g.cogs \in Nat /\ h.cogs \in Nat
  BY DEF ReturnGroups
<1>2. [t \in Tills |-> g.money[t] + h.money[t]] \in [Tills -> Nat]
  BY <1>1
<1>3. AddReturnGroup(g, h) \in ReturnGroups
  BY <1>1, <1>2 DEF AddReturnGroup, ReturnGroups
<1>4. ASSUME ReturnGroupBalances(g), ReturnGroupBalances(h)
      PROVE  ReturnGroupBalances(AddReturnGroup(g, h))
  <2>1. g.money["Cash"] \in Nat /\ g.money["Bank"] \in Nat
        /\ h.money["Cash"] \in Nat /\ h.money["Bank"] \in Nat
    BY <1>1 DEF Tills
  <2> QED
    BY <1>1, <1>4, <2>1 DEF AddReturnGroup, ReturnGroupBalances, Tills
<1> QED
  BY <1>3, <1>4

-----------------------------------------------------------------------------
(* Type correctness, one lemma per operation.                               *)

(* Rows that are unused or deleted, and empty books, are well typed.        *)
LEMMA BlankTypes ==
    /\ \A status \in {"unused", "partial", "completed", "deleted"} :
           BlankSale(status) \in SaleRows
    /\ \A state \in {"unused", "live", "deleted"} : BlankPayment(state) \in PaymentRows
    /\ NoSaleGroup \in SaleGroups
    /\ NoReturnGroup \in ReturnGroups
    /\ NoBooks \in [sale : SaleGroups, cogs : Nat, returns : ReturnGroups]
<1>1. (CHOOSE v \in Variants : TRUE) \in Variants
  BY InventoryAssumption
<1>2. NoSaleGroup \in SaleGroups /\ NoReturnGroup \in ReturnGroups
  BY DEF NoSaleGroup, NoReturnGroup, SaleGroups, ReturnGroups
<1>3. "Cash" \in Tills /\ 0 \in 0 .. MaxAmount
  BY MaxAmountIsNat DEF Tills
<1> QED
  BY <1>1, <1>2, <1>3 DEF BlankSale, BlankPayment, SaleRows, PaymentRows, Parties, NoBooks

(* An empty shop is well typed.                                             *)
LEMMA InitType == Init => TypeOK
BY BlankTypes DEF Init, TypeOK

(* A costed receipt, of a purchase or of a return, keeps the inventory row  *)
(* a pair of naturals.                                                      *)
LEMMA ReceiptType ==
    ASSUME TypeOK, NEW v \in Variants, NEW q \in Nat \ {0}, NEW cost \in Nat
    PROVE  CostedReceipt(v, q, cost) \in [Variants -> [quantity : Nat, average : Nat]]
<1>1. stock[v] \in [quantity : Nat, average : Nat]
  BY DEF TypeOK
<1>2. stock[v].quantity + q \in Nat \ {0}
  BY <1>1
<1>3. AverageScale \in Nat
  BY InventoryAssumption
<1>4. stock[v].quantity * stock[v].average \in Nat /\ q * cost * AverageScale \in Nat
  BY <1>1, <1>3
<1>5. stock[v].quantity * stock[v].average + q * cost * AverageScale \in Nat
  BY <1>4
<1>6. AverageAfter(stock[v], q, cost) \in Nat
  BY <1>2, <1>5, RoundDivType DEF AverageAfter
<1> QED
  BY <1>1, <1>2, <1>6 DEF CostedReceipt, TypeOK

(* The cost snapshot of a line is natural, rounded from the average.        *)
LEMMA SnapshotType ==
    ASSUME TypeOK, NEW v \in Variants
    PROVE  SnapshotCost(v) \in Nat
<1>1. stock[v].average \in Nat
  BY DEF TypeOK
<1> QED
  BY <1>1, RoundDivType, InventoryAssumption DEF SnapshotCost

(* The quantities a row takes out of each variant.                          *)
LEMMA LineType ==
    ASSUME NEW row \in SaleRows
    PROVE  LineOf(row) \in [Variants -> Nat] /\ LineOf(row) \in [Variants -> Int]
BY DEF LineOf, SaleRows

(* Uncosted movements that are available keep the stock natural.            *)
LEMMA ShiftType ==
    ASSUME TypeOK, NEW s \in Sales, NEW need \in [Variants -> Int], Available(need)
    PROVE  /\ Shift(need) \in [Variants -> [quantity : Nat, average : Nat]]
           /\ MoveFor(s, need) \in [Sales -> [Variants -> Int]]
<1>1. ASSUME NEW v \in Variants
      PROVE  [stock[v] EXCEPT !.quantity = @ - need[v]] \in [quantity : Nat, average : Nat]
  <2>1. stock[v] \in [quantity : Nat, average : Nat]
    BY DEF TypeOK
  <2>2. need[v] <= stock[v].quantity
    BY <2>1 DEF Available
  <2> QED
    BY <2>1, <2>2
<1>2. [v \in Variants |-> moved[s][v] - need[v]] \in [Variants -> Int]
  BY DEF TypeOK
<1> QED
  BY <1>1, <1>2 DEF Shift, MoveFor, TypeOK

(* The total of a typed row is an integer; the actions keep it natural.     *)
LEMMA TotalType ==
    ASSUME NEW row \in SaleRows
    PROVE  TotalOf(row) \in Int
<1>1. row.qty \in Nat /\ row.price \in Nat /\ row.discount \in Nat
  BY DEF SaleRows
<1>2. Valued(row.qty, row.price) \in Nat
  BY <1>1, ValuedType
<1> QED
  BY <1>1, <1>2 DEF TotalOf

(* A computed status counts for the Khata.                                  *)
LEMMA StatusType ==
    ASSUME NEW paid, NEW total
    PROVE  StatusFor(paid, total) \in Qualifying
BY DEF StatusFor, Qualifying

(* add_stock keeps the types.                                               *)
LEMMA ReceiveStockType ==
    ASSUME TypeOK, NEW v \in Variants, NEW q \in Quantities, NEW cost \in Costs,
           ReceiveStock(v, q, cost)
    PROVE  TypeOK'
<1>1. q \in Nat \ {0} /\ cost \in Nat
  BY DeskAssumption, MaxAmountIsNat DEF Amounts
<1>2. stock' \in [Variants -> [quantity : Nat, average : Nat]]
  BY <1>1, ReceiptType DEF ReceiveStock
<1>3. supplied' \in [Variants -> Int]
  BY <1>1 DEF ReceiveStock, TypeOK
<1> QED
  BY <1>2, <1>3 DEF ReceiveStock, TypeOK

(* adjust_stock keeps the types: its check keeps the stock natural.         *)
LEMMA AdjustStockType ==
    ASSUME TypeOK, NEW v \in Variants, NEW delta \in Int, AdjustStock(v, delta)
    PROVE  TypeOK'
<1>1. stock[v] \in [quantity : Nat, average : Nat] /\ MaxStock \in Nat
  BY InventoryAssumption DEF TypeOK
<1>2. stock[v].quantity + delta \in Nat
  BY <1>1 DEF AdjustStock
<1>3. stock' \in [Variants -> [quantity : Nat, average : Nat]]
  BY <1>1, <1>2 DEF AdjustStock, TypeOK
<1>4. supplied' \in [Variants -> Int]
  BY DEF AdjustStock, TypeOK
<1> QED
  BY <1>3, <1>4 DEF AdjustStock, TypeOK

(* The tender of a sale: finitely many payments of the shop, each with an   *)
(* amount and a till.                                                       *)
LEMMA TenderType ==
    ASSUME NEW tender \in Tenders
    PROVE  /\ DOMAIN tender \in SUBSET Payments
           /\ IsFiniteSet(DOMAIN tender)
           /\ \A p \in DOMAIN tender : /\ tender[p].amount \in Amounts
                                       /\ tender[p].till \in Tills
           /\ TallyOf([p \in DOMAIN tender |-> tender[p].amount], DOMAIN tender) \in Nat
<1>1. PICK T \in SUBSET Payments : tender \in [T -> [amount : Amounts, till : Tills]]
  BY DEF Tenders
<1>2. DOMAIN tender = T
  BY <1>1
<1>3. IsFiniteSet(T)
  BY FS_Subset, DeskAssumption
<1> QED
  BY <1>1, <1>2, <1>3, TallyType

(* create_sale keeps the types: the lines are available, the total typed.   *)
LEMMA CreateSaleType ==
    ASSUME TypeOK, NEW s \in Sales, NEW c \in Parties, NEW v \in Variants,
           NEW q \in Quantities, NEW price \in Prices, NEW discount \in Discounts,
           NEW tender \in Tenders,
           CreateSale(s, c, v, q, price, discount, tender)
    PROVE  TypeOK'
<1> DEFINE paid == TallyOf([p \in DOMAIN tender |-> tender[p].amount], DOMAIN tender)
           row  == [BlankSale("partial") EXCEPT
                      !.customer = c, !.variant = v, !.qty = q, !.price = price,
                      !.discount = discount, !.cost = SnapshotCost(v), !.paid = paid]
           total == TotalOf(row)
           inflow == InflowIn(payments', s)
<1>1. q \in Nat /\ price \in Nat /\ discount \in Nat /\ SnapshotCost(v) \in Nat
      /\ paid \in Nat
  BY DeskAssumption, MaxAmountIsNat, SnapshotType, TenderType DEF Amounts
<1>2. row \in SaleRows
  BY <1>1, BlankTypes DEF SaleRows
<1>3. total \in Int
  BY <1>2, TotalType
<1>4. sales' \in [Sales -> SaleRows]
  <2>1. [row EXCEPT !.status = StatusFor(paid, total)] \in SaleRows
    <3>1. StatusFor(paid, total) \in {"unused", "partial", "completed", "deleted"}
      BY StatusType DEF Qualifying
    <3> HIDE DEF row, total, paid
    <3> QED
      BY <1>2, <3>1 DEF SaleRows
  <2>2. sales' = [sales EXCEPT ![s] = [row EXCEPT !.status = StatusFor(paid, total)]]
    BY DEF CreateSale, Posted
  <2> QED
    BY <2>1, <2>2 DEF TypeOK
<1>5. /\ stock' \in [Variants -> [quantity : Nat, average : Nat]]
      /\ moved' \in [Sales -> [Variants -> Int]]
  <2>1. LineOf(row) \in [Variants -> Int]
    BY <1>2, LineType
  <2>2. Available(LineOf(row)) /\ stock' = Shift(LineOf(row)) /\ moved' = MoveFor(s, LineOf(row))
    BY DEF CreateSale, Posted
  <2> QED
    BY <2>1, <2>2, ShiftType
<1>6. payments' \in [Payments -> PaymentRows]
  <2>1. ASSUME NEW p \in DOMAIN tender
        PROVE  [BlankPayment("live") EXCEPT !.sale = s, !.customer = c,
                  !.amount = tender[p].amount, !.till = tender[p].till] \in PaymentRows
    <3>1. tender[p].amount \in Amounts /\ tender[p].till \in Tills
      BY TenderType
    <3>2. tender[p].amount \in 0 .. MaxAmount
      BY <3>1, MaxAmountIsNat DEF Amounts
    <3> QED
      BY <3>1, <3>2, BlankTypes DEF PaymentRows
  <2>2. payments' = [p \in Payments |->
                       IF p \in DOMAIN tender
                       THEN [BlankPayment("live") EXCEPT !.sale = s, !.customer = c,
                               !.amount = tender[p].amount, !.till = tender[p].till]
                       ELSE payments[p]]
    BY DEF CreateSale, Posted
  <2> QED
    BY <2>1, <2>2 DEF TypeOK
<1>7. books' \in [Sales -> [sale : SaleGroups, cogs : Nat, returns : ReturnGroups]]
  <2>1. SaleGroup(total, paid, inflow) \in SaleGroups
    BY <1>1, <1>3, InflowType, SaleGroupType
  <2>2. Valued(row.qty, row.cost) \in Nat /\ row.paid = paid
    <3>1. row.qty = q /\ row.cost = SnapshotCost(v) /\ row.paid = paid
      BY DEF BlankSale
    <3> QED
      BY <1>1, <3>1, ValuedType
  <2>3. books' = Posted(s, row, inflow)
    BY DEF CreateSale
  <2>4. books' = [books EXCEPT ![s].sale = SaleGroup(total, paid, inflow),
                               ![s].cogs = Valued(row.qty, row.cost)]
    BY <2>2, <2>3 DEF Posted
  <2> HIDE DEF row, total, paid, inflow
  <2> QED
    BY <2>1, <2>2, <2>4 DEF TypeOK
<1>8. supplied' \in [Variants -> Int]
  BY DEF CreateSale, Posted, TypeOK
<1> QED
  BY <1>4, <1>5, <1>6, <1>7, <1>8 DEF TypeOK

(* update_sale keeps the types: only the extra units need be available.     *)
LEMMA UpdateSaleType ==
    ASSUME TypeOK, NEW s \in Sales, NEW c \in Parties, NEW replace \in BOOLEAN,
           NEW v \in Variants, NEW q \in Quantities, NEW price \in Prices,
           NEW discount \in Discounts \cup {sales[s].discount},
           UpdateSale(s, c, replace, v, q, price, discount)
    PROVE  TypeOK'
<1> DEFINE old  == sales[s]
           line == IF replace
                   THEN [old EXCEPT !.variant = v, !.qty = q, !.price = price,
                                    !.cost = SnapshotCost(v)]
                   ELSE old
           row  == [line EXCEPT !.customer = c, !.discount = discount]
           total == TotalOf(row)
           need == [w \in Variants |-> LineOf(row)[w] - LineOf(old)[w]]
           inflow == InflowIn(payments, s)
<1>1. old \in SaleRows
  BY DEF TypeOK
<1>2. q \in Nat /\ price \in Nat /\ discount \in Nat /\ SnapshotCost(v) \in Nat
  <2>1. q \in Nat /\ price \in Nat
    BY DeskAssumption, MaxAmountIsNat DEF Amounts
  <2>2. discount \in Nat
    BY <1>1, DeskAssumption DEF SaleRows
  <2> QED
    BY <2>1, <2>2, SnapshotType
<1>3. row \in SaleRows
  BY <1>1, <1>2 DEF SaleRows
<1>4. total \in Int /\ old.paid \in Nat /\ row.qty \in Nat /\ row.cost \in Nat
  BY <1>1, <1>3, TotalType DEF SaleRows
<1>5. need \in [Variants -> Int]
  BY <1>1, <1>3, LineType
<1>6. /\ Available(need)
      /\ sales' = [sales EXCEPT ![s] = [row EXCEPT !.status = StatusFor(old.paid, total)]]
      /\ stock' = Shift(need)
      /\ moved' = MoveFor(s, need)
      /\ payments' = [p \in Payments |->
                         IF p \in AllocatedIn(payments, s)
                         THEN [payments[p] EXCEPT !.customer = c] ELSE payments[p]]
      /\ books' = [books EXCEPT ![s].sale = SaleGroup(total, old.paid, inflow),
                                ![s].cogs = Valued(row.qty, row.cost)]
      /\ supplied' = supplied
  BY DEF UpdateSale, Editable, PaymentsRepointed, Posted
<1>7. sales' \in [Sales -> SaleRows]
  <2>1. [row EXCEPT !.status = StatusFor(old.paid, total)] \in SaleRows
    <3>1. StatusFor(old.paid, total) \in Qualifying
      BY StatusType
    <3> HIDE DEF row, total
    <3> QED
      BY <1>3, <3>1 DEF SaleRows, Qualifying
  <2> QED
    BY <1>6, <2>1 DEF TypeOK
<1>8. /\ stock' \in [Variants -> [quantity : Nat, average : Nat]]
      /\ moved' \in [Sales -> [Variants -> Int]]
  BY <1>5, <1>6, ShiftType
<1>9. payments' \in [Payments -> PaymentRows]
  BY ZenonT(40), <1>6 DEF TypeOK, PaymentRows
<1>10. books' \in [Sales -> [sale : SaleGroups, cogs : Nat, returns : ReturnGroups]]
  <2>1. SaleGroup(total, old.paid, inflow) \in SaleGroups
    BY <1>4, InflowType, SaleGroupType
  <2>2. Valued(row.qty, row.cost) \in Nat
    BY <1>4, ValuedType
  <2> HIDE DEF row, total, old, inflow
  <2> QED
    BY <1>6, <2>1, <2>2 DEF TypeOK
<1> QED
  BY <1>6, <1>7, <1>8, <1>9, <1>10 DEF TypeOK

(* delete_sale keeps the types: units only go back.                         *)
LEMMA DeleteSaleType ==
    ASSUME TypeOK, NEW s \in Sales, DeleteSale(s)
    PROVE  TypeOK'
<1> DEFINE back == [v \in Variants |-> - LineOf(sales[s])[v]]
<1>1. sales[s] \in SaleRows
  BY DEF TypeOK
<1>2. LineOf(sales[s]) \in [Variants -> Nat]
  BY <1>1, LineType
<1>3. back \in [Variants -> Int] /\ Available(back)
  BY <1>2 DEF Available
<1>4. stock' = Shift(back) /\ moved' = MoveFor(s, back)
  BY DEF DeleteSale, Editable, Unposted
<1>5. /\ stock' \in [Variants -> [quantity : Nat, average : Nat]]
      /\ moved' \in [Sales -> [Variants -> Int]]
  BY <1>3, <1>4, ShiftType
<1> QED
  BY <1>5, BlankTypes DEF DeleteSale, Editable, Unposted, TypeOK

(* record_customer_payment keeps the types.                                 *)
LEMMA RecordPaymentType ==
    ASSUME TypeOK, NEW p \in Payments, NEW c \in Customers, NEW s \in Sales \cup {NoSale},
           NEW amount \in Amounts, NEW till \in Tills,
           RecordPayment(p, c, s, amount, till)
    PROVE  TypeOK'
<1>1. amount \in 0 .. MaxAmount /\ amount \in Nat
  BY MaxAmountIsNat DEF Amounts
<1>2. payments' \in [Payments -> PaymentRows]
  BY <1>1 DEF RecordPayment, PaidChangedTo, TypeOK, PaymentRows, Parties
<1>3. sales' \in [Sales -> SaleRows]
  <2>1. CASE s = NoSale
    BY <2>1 DEF RecordPayment, PaidChangedTo, TypeOK
  <2>2. CASE s # NoSale
    <3>1. sales[s] \in SaleRows
      BY <2>2 DEF TypeOK
    <3>2. sales[s].paid + amount \in Nat
      BY <1>1, <3>1 DEF SaleRows
    <3>3. StatusFor(sales[s].paid + amount, TotalOf(sales[s])) \in Qualifying
      BY StatusType
    <3> QED
      BY <2>2, <3>1, <3>2, <3>3 DEF RecordPayment, PaidChangedTo, TypeOK, SaleRows, Qualifying
  <2> QED
    BY <2>1, <2>2
<1> QED
  BY <1>2, <1>3 DEF RecordPayment, PaidChangedTo, TypeOK

(* void_payment keeps the types: the excess never falls below zero.         *)
LEMMA VoidPaymentType ==
    ASSUME TypeOK, NEW p \in Payments, VoidPayment(p)
    PROVE  TypeOK'
<1> DEFINE s == payments[p].sale
           left == Excess(sales[s].paid, payments[p].amount)
<1>1. payments[p] \in PaymentRows
  BY DEF TypeOK
<1>2. payments' \in [Payments -> PaymentRows]
  BY BlankTypes DEF VoidPayment, PaidChangedTo, TypeOK
<1>3. sales' \in [Sales -> SaleRows]
  <2>1. CASE s = NoSale
    BY <2>1 DEF VoidPayment, PaidChangedTo, TypeOK
  <2>2. CASE s # NoSale
    <3>1. s \in Sales /\ sales[s] \in SaleRows
      BY <1>1, <2>2 DEF TypeOK, PaymentRows
    <3>2. left \in Nat
      <4>1. payments[p].amount \in Nat /\ sales[s].paid \in Nat
        BY <1>1, <3>1, MaxAmountIsNat DEF SaleRows, PaymentRows
      <4> QED
        BY <4>1, NaturalLeastExcess
    <3>3. StatusFor(left, TotalOf(sales[s])) \in Qualifying
      BY StatusType
    <3>4. sales' = [sales EXCEPT ![s].paid = left,
                                 ![s].status = StatusFor(left, TotalOf(sales[s]))]
      BY <2>2 DEF VoidPayment, PaidChangedTo
    <3> HIDE DEF left, s
    <3> QED
      BY <3>1, <3>2, <3>3, <3>4 DEF TypeOK, SaleRows, Qualifying
  <2> QED
    BY <2>1, <2>2
<1> QED
  BY <1>2, <1>3 DEF VoidPayment, PaidChangedTo, TypeOK

(* The refund of a return is an integer between 0 and the gross price.      *)
LEMMA RefundType ==
    ASSUME NEW row \in SaleRows, NEW q \in Nat \ {0}, q <= row.qty
    PROVE  RefundFor(row, q) \in Nat
<1>1. row.price \in Nat /\ row.discount \in Nat /\ row.qty \in Nat \ {0}
  BY DEF SaleRows
<1>2. Valued(q, row.price) \in Nat /\ row.discount * q \in Nat
  <2>1. Valued(q, row.price) \in Nat
    BY <1>1, ValuedType
  <2> QED
    BY <1>1, <2>1
<1>3. RoundDiv(row.discount * q, row.qty) \in Nat
  BY <1>1, <1>2, RoundDivType
<1> QED
  BY <1>2, <1>3, NaturalLeastExcess DEF RefundFor

(* What a return step writes, as typed values.                              *)
LEMMA ReturnParts ==
    ASSUME TypeOK, NEW s \in Sales, NEW q \in Quantities, NEW first \in Tills,
           ReturnGoods(s, q, first),
           NEW refund, refund = RefundFor(sales[s], q),
           NEW ar, ar = ReceivableBack(sales[s], refund)
    PROVE  /\ sales[s] \in SaleRows
           /\ q \in Nat \ {0} /\ q <= sales[s].qty
           /\ refund \in Nat /\ ar \in Nat /\ ar <= refund
           /\ Valued(q, sales[s].cost) \in Nat
           /\ LET group == ReturnGroup(refund, ar, Valued(q, sales[s].cost), first,
                                       InflowIn(payments, s))
              IN  /\ group \in ReturnGroups
                  /\ ReturnGroupBalances(group)
<1>1. sales[s] \in SaleRows
  BY DEF TypeOK
<1>2. q \in Nat \ {0}
  BY DeskAssumption, MaxAmountIsNat DEF Amounts
<1>3. q <= sales[s].qty
  BY <1>1, <1>2 DEF ReturnGoods, ReceivableBack, SaleRows
<1>4. refund \in Nat
  BY <1>1, <1>2, <1>3, RefundType
<1>5. TotalOf(sales[s]) - sales[s].paid \in Int /\ sales[s].arBack \in Int
  BY <1>1, TotalType DEF SaleRows
<1>6. Excess(TotalOf(sales[s]) - sales[s].paid, sales[s].arBack) \in Nat
  BY <1>5, LeastExcess
<1>7. ar \in Nat /\ ar <= refund
  BY <1>4, <1>6, NaturalLeastExcess DEF ReceivableBack
<1>8. Valued(q, sales[s].cost) \in Nat
  BY <1>1, <1>2, ValuedType DEF SaleRows
<1> QED
  BY <1>1, <1>2, <1>3, <1>4, <1>7, <1>8, InflowType, ReturnGroupType

(* create_sale_return keeps the types of the sums, the stock and the books. *)
LEMMA ReturnGoodsType ==
    ASSUME TypeOK, NEW s \in Sales, NEW q \in Quantities, NEW first \in Tills,
           ReturnGoods(s, q, first)
    PROVE  TypeOK'
<1> DEFINE row    == sales[s]
           refund == RefundFor(row, q)
           ar     == ReceivableBack(row, refund)
           group  == ReturnGroup(refund, ar, Valued(q, row.cost), first, InflowIn(payments, s))
<1>1. /\ row \in SaleRows /\ q \in Nat \ {0} /\ refund \in Nat /\ ar \in Nat
      /\ group \in ReturnGroups
  BY ReturnParts
<1>2. /\ sales' = [sales EXCEPT ![s].returned = @ + q,
                                ![s].refunded = @ + refund,
                                ![s].arBack = @ + ar,
                                ![s].slips = @ + 1]
      /\ stock' = CostedReceipt(row.variant, q, row.cost)
      /\ moved' = [moved EXCEPT ![s][row.variant] = @ + q]
      /\ books' = [books EXCEPT ![s].returns = AddReturnGroup(@, group)]
      /\ UNCHANGED <<payments, supplied>>
  BY DEF ReturnGoods
<1> HIDE DEF group, ar, refund
<1>3. row.variant \in Variants /\ row.cost \in Nat
  BY <1>1 DEF SaleRows
<1>4. stock' \in [Variants -> [quantity : Nat, average : Nat]]
  BY <1>1, <1>2, <1>3, ReceiptType
<1>5. sales' \in [Sales -> SaleRows]
  <2>1. row.returned + q \in Nat /\ row.refunded + refund \in Nat /\ row.arBack + ar \in Nat
        /\ row.slips + 1 \in Nat
    BY <1>1 DEF SaleRows
  <2>2. [row EXCEPT !.returned = row.returned + q, !.refunded = row.refunded + refund,
                    !.arBack = row.arBack + ar, !.slips = row.slips + 1] \in SaleRows
    BY <1>1, <2>1 DEF SaleRows
  <2>3. sales' = [sales EXCEPT ![s] = [row EXCEPT !.returned = row.returned + q,
                    !.refunded = row.refunded + refund, !.arBack = row.arBack + ar,
                    !.slips = row.slips + 1]]
    BY <1>2 DEF TypeOK
  <2> QED
    BY <2>2, <2>3 DEF TypeOK
<1>6. moved' \in [Sales -> [Variants -> Int]]
  BY <1>1, <1>2, <1>3 DEF TypeOK
<1>7. books' \in [Sales -> [sale : SaleGroups, cogs : Nat, returns : ReturnGroups]]
  <2>1. books[s].returns \in ReturnGroups
    BY DEF TypeOK
  <2>2. AddReturnGroup(books[s].returns, group) \in ReturnGroups
    BY <1>1, <2>1, AddReturnGroupType
  <2> QED
    BY <1>2, <2>2 DEF TypeOK
<1> QED
  BY <1>2, <1>4, <1>5, <1>6, <1>7 DEF TypeOK

(* Every operation of the desk writes rows of the declared types.           *)
LEMMA NextType == TypeOK /\ [Next]_vars => TypeOK'
<1> SUFFICES ASSUME TypeOK, [Next]_vars PROVE TypeOK'
  OBVIOUS
<1>1. CASE Ring
  BY <1>1, CreateSaleType DEF Ring
<1>2. ASSUME NEW s \in Sales, Edit(s) PROVE TypeOK'
  BY <1>2, UpdateSaleType DEF Edit
<1>3. ASSUME NEW s \in Sales, DeleteSale(s) PROVE TypeOK'
  BY <1>3, DeleteSaleType
<1>4. CASE Settle
  BY <1>4, RecordPaymentType DEF Settle
<1>5. ASSUME NEW p \in Payments, VoidPayment(p) PROVE TypeOK'
  BY <1>5, VoidPaymentType
<1>6. CASE Return
  BY <1>6, ReturnGoodsType DEF Return
<1>7. CASE Supply
  <2>1. \A q \in Quantities : q \in Int /\ -q \in Int
    BY DeskAssumption, MaxAmountIsNat DEF Amounts
  <2> QED
    BY <1>7, <2>1, ReceiveStockType, AdjustStockType DEF Supply
<1>8. CASE UNCHANGED vars
  BY <1>8 DEF vars, TypeOK
<1> QED
  BY <1>1, <1>2, <1>3, <1>4, <1>5, <1>6, <1>7, <1>8 DEF Next

(* The rows, the stock and the ledger of the desk always hold values of     *)
(* their columns: no quantity, average cost, paid amount or posting is ever *)
(* negative, whatever the order of sales, edits, voids and returns.         *)
THEOREM TypeCorrect == Spec => []TypeOK
<1> QED
  BY InitType, NextType, PTL DEF Spec

-----------------------------------------------------------------------------
(* The cached paid_amount against the payment rows.  PaidIsRecorded is not  *)
(* inductive alone: a new or deleted sale must own no payment row, which is *)
(* PaymentsNameTheirSale.                                                   *)

PaymentsInv == TypeOK /\ PaidIsRecorded /\ PaymentsNameTheirSale

Recorded(rows, s) == TallyOf(AmountsIn(rows), AllocatedIn(rows, s))

(* The payments of a sale are finitely many.                                *)
LEMMA AllocatedFinite ==
    ASSUME NEW rows, NEW s
    PROVE  IsFiniteSet(AllocatedIn(rows, s))
<1>1. AllocatedIn(rows, s) \in SUBSET Payments
  BY DEF AllocatedIn
<1> QED
  BY <1>1, FS_Subset, DeskAssumption

(* A sale whose payment rows keep their amounts has the same sum.           *)
LEMMA RecordedSame ==
    ASSUME NEW rows, NEW new, NEW s, AllocatedIn(new, s) = AllocatedIn(rows, s),
           \A p \in AllocatedIn(rows, s) : new[p].amount = rows[p].amount
    PROVE  Recorded(new, s) = Recorded(rows, s)
<1>1. \A p \in AllocatedIn(rows, s) : AmountsIn(new)[p] = AmountsIn(rows)[p]
  BY DEF AmountsIn, AllocatedIn
<1>2. TallyOf(AmountsIn(new), AllocatedIn(rows, s)) = TallyOf(AmountsIn(rows), AllocatedIn(rows, s))
  BY <1>1, TallySame
<1> QED
  BY <1>2 DEF Recorded

(* One more payment row on a sale adds its amount to the sum.               *)
LEMMA RecordedAdd ==
    ASSUME NEW rows, NEW new, NEW s, NEW p \in Payments, p \notin AllocatedIn(rows, s),
           AllocatedIn(new, s) = AllocatedIn(rows, s) \cup {p},
           \A r \in AllocatedIn(rows, s) : new[r].amount = rows[r].amount,
           new[p].amount \in 0 .. MaxAmount
    PROVE  Recorded(new, s) = Recorded(rows, s) + new[p].amount
<1>1. \A r \in AllocatedIn(rows, s) : AmountsIn(new)[r] = AmountsIn(rows)[r]
  BY DEF AmountsIn, AllocatedIn
<1>2. TallyOf(AmountsIn(new), AllocatedIn(rows, s)) = Recorded(rows, s)
  BY <1>1, TallySame DEF Recorded
<1>3. AmountsIn(new)[p] = new[p].amount
  BY DEF AmountsIn
<1>4. TallyOf(AmountsIn(new), AllocatedIn(rows, s) \cup {p})
        = TallyOf(AmountsIn(new), AllocatedIn(rows, s)) + AmountsIn(new)[p]
  BY <1>3, AllocatedFinite, TallyAdd
<1> QED
  BY <1>2, <1>3, <1>4 DEF Recorded

(* The sum over the payment rows of a sale is a natural number.             *)
LEMMA RecordedType ==
    ASSUME NEW rows, NEW s
    PROVE  Recorded(rows, s) \in Nat
BY AllocatedFinite, TallyType DEF Recorded

(* A sale is rung up: its tender is all that is allocated to it, because no *)
(* payment names a sale that was not live.                                  *)
LEMMA CreateSalePayments ==
    ASSUME PaymentsInv, NEW s \in Sales, NEW c \in Parties, NEW v \in Variants,
           NEW q \in Quantities, NEW price \in Prices, NEW discount \in Discounts,
           NEW tender \in Tenders,
           CreateSale(s, c, v, q, price, discount, tender)
    PROVE  PaidIsRecorded' /\ PaymentsNameTheirSale'
<1> DEFINE paid == TallyOf([p \in DOMAIN tender |-> tender[p].amount], DOMAIN tender)
           row  == [BlankSale("partial") EXCEPT
                      !.customer = c, !.variant = v, !.qty = q, !.price = price,
                      !.discount = discount, !.cost = SnapshotCost(v), !.paid = paid]
           total == TotalOf(row)
           done  == [row EXCEPT !.status = StatusFor(paid, total)]
<1>1. /\ sales[s].status = "unused"
      /\ \A p \in DOMAIN tender : payments[p].state = "unused"
      /\ paid <= total
      /\ sales' = [sales EXCEPT ![s] = done]
      /\ payments' = [p \in Payments |->
                         IF p \in DOMAIN tender
                         THEN [BlankPayment("live") EXCEPT !.sale = s, !.customer = c,
                                 !.amount = tender[p].amount, !.till = tender[p].till]
                         ELSE payments[p]]
  BY DEF CreateSale, Posted
<1>2. DOMAIN tender \in SUBSET Payments
  BY TenderType
<1>3. /\ \A p \in DOMAIN tender : /\ payments'[p].state = "live" /\ payments'[p].sale = s
                                 /\ payments'[p].customer = c
                                 /\ payments'[p].amount = tender[p].amount
      /\ \A p \in Payments \ DOMAIN tender : payments'[p] = payments[p]
  BY <1>1, <1>2 DEF BlankPayment
<1>4. done.customer = c /\ done.paid = paid /\ done.status = StatusFor(paid, total)
      /\ TotalOf(done) = total
  BY DEF BlankSale, TotalOf
<1> HIDE DEF done, row, total
<1>5. sales'[s] = done /\ \A t \in Sales \ {s} : sales'[t] = sales[t]
  BY <1>1 DEF PaymentsInv, TypeOK
<1>6. Live(s)' /\ ~Live(s)
  BY <1>1, <1>4, <1>5, StatusType DEF Live, Qualifying
<1>7. AllocatedIn(payments, s) = {}
  BY <1>6, DeskAssumption DEF PaymentsInv, PaymentsNameTheirSale, AllocatedIn
<1>8. AllocatedIn(payments', s) = DOMAIN tender
  BY <1>2, <1>3, <1>7 DEF AllocatedIn
<1>9. Recorded(payments', s) = paid
  <2>1. \A p \in DOMAIN tender :
           AmountsIn(payments')[p] = [r \in DOMAIN tender |-> tender[r].amount][p]
    BY <1>2, <1>3 DEF AmountsIn
  <2> QED
    BY <1>8, <2>1, TallySame DEF Recorded
<1>10. PaidIsRecorded'
  <2> SUFFICES ASSUME NEW t \in Sales, Live(t)'
               PROVE  /\ sales'[t].paid = Recorded(payments', t)
                      /\ sales'[t].paid <= TotalOf(sales'[t])
                      /\ sales'[t].status = StatusFor(sales'[t].paid, TotalOf(sales'[t]))
    BY DEF PaidIsRecorded, Recorded
  <2>1. CASE t = s
    BY <1>1, <1>4, <1>5, <1>9, <2>1
  <2>2. CASE t # s
    <3>1. \A p \in Payments :
             payments'[p].state = "live" /\ payments'[p].sale = t
               <=> payments[p].state = "live" /\ payments[p].sale = t
      BY <1>1, <1>2, <1>3, <2>2
    <3>2. AllocatedIn(payments', t) = AllocatedIn(payments, t)
      BY <3>1 DEF AllocatedIn
    <3>3. \A p \in AllocatedIn(payments, t) : payments'[p].amount = payments[p].amount
      BY <1>1, <1>2, <1>3 DEF AllocatedIn
    <3>4. Recorded(payments', t) = Recorded(payments, t)
      BY <3>2, <3>3, RecordedSame
    <3>5. sales'[t] = sales[t] /\ Live(t)
      BY <1>5, <2>2 DEF Live
    <3> QED
      BY <3>4, <3>5 DEF PaymentsInv, PaidIsRecorded, Recorded
  <2> QED
    BY <2>1, <2>2
<1>11. PaymentsNameTheirSale'
  <2> SUFFICES ASSUME NEW p \in Payments, payments'[p].state = "live", payments'[p].sale # NoSale
               PROVE  /\ sales'[payments'[p].sale].status \in Qualifying
                      /\ payments'[p].customer = sales'[payments'[p].sale].customer
    BY DEF PaymentsNameTheirSale, Live
  <2>1. CASE p \in DOMAIN tender
    BY <1>3, <1>4, <1>5, <1>6, <2>1 DEF Live
  <2>2. CASE p \notin DOMAIN tender
    <3>1. payments'[p] = payments[p] /\ payments[p].sale \in Sales
      BY <1>3, <2>2 DEF PaymentsInv, TypeOK, PaymentRows
    <3>2. Live(payments[p].sale) /\ payments[p].customer = sales[payments[p].sale].customer
      BY <3>1 DEF PaymentsInv, PaymentsNameTheirSale
    <3>3. payments[p].sale # s
      BY <1>6, <3>2
    <3> QED
      BY <1>5, <3>1, <3>2, <3>3 DEF Live
  <2> QED
    BY <2>1, <2>2
<1> QED
  BY <1>10, <1>11

(* A step that keeps a live sale's paid amount, total, status and payment   *)
(* rows keeps what PaidIsRecorded says of it.                               *)
LEMMA PaidKept ==
    ASSUME PaidIsRecorded, NEW t \in Sales, Live(t),
           sales'[t].paid = sales[t].paid, TotalOf(sales'[t]) = TotalOf(sales[t]),
           sales'[t].status = sales[t].status,
           AllocatedIn(payments', t) = AllocatedIn(payments, t),
           \A p \in AllocatedIn(payments, t) : payments'[p].amount = payments[p].amount
    PROVE  /\ sales'[t].paid = Recorded(payments', t)
           /\ sales'[t].paid <= TotalOf(sales'[t])
           /\ sales'[t].status = StatusFor(sales'[t].paid, TotalOf(sales'[t]))
<1>1. Recorded(payments', t) = Recorded(payments, t)
  BY RecordedSame
<1> QED
  BY <1>1 DEF PaidIsRecorded, Recorded

(* An edit keeps the payments and the paid amount, and re-points both sides *)
(* to the new customer.                                                     *)
LEMMA UpdateSalePayments ==
    ASSUME PaymentsInv, NEW s \in Sales, NEW c \in Parties, NEW replace \in BOOLEAN,
           NEW v \in Variants, NEW q \in Quantities, NEW price \in Prices,
           NEW discount \in Discounts \cup {sales[s].discount},
           UpdateSale(s, c, replace, v, q, price, discount)
    PROVE  PaidIsRecorded' /\ PaymentsNameTheirSale'
<1> DEFINE old  == sales[s]
           line == IF replace
                   THEN [old EXCEPT !.variant = v, !.qty = q, !.price = price,
                                    !.cost = SnapshotCost(v)]
                   ELSE old
           row  == [line EXCEPT !.customer = c, !.discount = discount]
           total == TotalOf(row)
           done == [row EXCEPT !.status = StatusFor(old.paid, total)]
<1>1. /\ Live(s)
      /\ old.paid <= total
      /\ sales' = [sales EXCEPT ![s] = done]
      /\ payments' = [p \in Payments |->
                         IF p \in AllocatedIn(payments, s)
                         THEN [payments[p] EXCEPT !.customer = c] ELSE payments[p]]
  BY DEF UpdateSale, Editable, PaymentsRepointed, Posted
<1>2. old \in SaleRows
  BY DEF PaymentsInv, TypeOK
<1>3. done.customer = c /\ done.paid = old.paid /\ done.status = StatusFor(old.paid, total)
      /\ TotalOf(done) = total
  BY <1>2 DEF SaleRows, TotalOf
<1> HIDE DEF done, row, line, total
<1>4. sales'[s] = done /\ \A t \in Sales \ {s} : sales'[t] = sales[t]
  BY <1>1 DEF PaymentsInv, TypeOK
<1>5. \A p \in Payments : /\ payments'[p].state = payments[p].state
                          /\ payments'[p].sale = payments[p].sale
                          /\ payments'[p].amount = payments[p].amount
                          /\ p \in AllocatedIn(payments, s) => payments'[p].customer = c
                          /\ p \notin AllocatedIn(payments, s) => payments'[p] = payments[p]
  BY <1>1 DEF PaymentsInv, TypeOK, PaymentRows
<1>6. \A t \in Sales : AllocatedIn(payments', t) = AllocatedIn(payments, t)
  BY <1>5 DEF AllocatedIn
<1>7. \A t \in Sales : \A p \in AllocatedIn(payments, t) : payments'[p].amount = payments[p].amount
  BY <1>5 DEF AllocatedIn
<1>8. PaidIsRecorded'
  <2> SUFFICES ASSUME NEW t \in Sales, Live(t)'
               PROVE  /\ sales'[t].paid = Recorded(payments', t)
                      /\ sales'[t].paid <= TotalOf(sales'[t])
                      /\ sales'[t].status = StatusFor(sales'[t].paid, TotalOf(sales'[t]))
    BY DEF PaidIsRecorded, Recorded
  <2>1. CASE t = s
    <3>1. Recorded(payments', s) = Recorded(payments, s)
      BY <1>6, <1>7, RecordedSame
    <3> QED
      BY <1>1, <1>3, <1>4, <2>1, <3>1 DEF PaymentsInv, PaidIsRecorded, Recorded
  <2>2. CASE t # s
    <3>1. sales'[t] = sales[t] /\ Live(t)
      BY <1>4, <2>2 DEF Live
    <3> QED
      BY <1>6, <1>7, <3>1, PaidKept DEF PaymentsInv
  <2> QED
    BY <2>1, <2>2
<1>9. PaymentsNameTheirSale'
  <2> SUFFICES ASSUME NEW p \in Payments, payments'[p].state = "live", payments'[p].sale # NoSale
               PROVE  /\ sales'[payments'[p].sale].status \in Qualifying
                      /\ payments'[p].customer = sales'[payments'[p].sale].customer
    BY DEF PaymentsNameTheirSale, Live
  <2>1. CASE p \in AllocatedIn(payments, s)
    BY <1>3, <1>4, <1>5, <2>1, StatusType DEF AllocatedIn
  <2>2. CASE p \notin AllocatedIn(payments, s)
    <3>1. payments'[p] = payments[p] /\ payments[p].sale \in Sales
      BY <1>5, <2>2 DEF PaymentsInv, TypeOK, PaymentRows
    <3>2. Live(payments[p].sale) /\ payments[p].customer = sales[payments[p].sale].customer
      BY <3>1 DEF PaymentsInv, PaymentsNameTheirSale
    <3>3. payments[p].sale # s
      BY <2>2, <3>1 DEF AllocatedIn
    <3> QED
      BY <1>4, <3>1, <3>2, <3>3 DEF Live
  <2> QED
    BY <2>1, <2>2
<1> QED
  BY <1>8, <1>9

(* A void deletes exactly the payments allocated to its sale.               *)
LEMMA DeleteSalePayments ==
    ASSUME PaymentsInv, NEW s \in Sales, DeleteSale(s)
    PROVE  PaidIsRecorded' /\ PaymentsNameTheirSale'
<1>1. /\ sales' = [sales EXCEPT ![s] = BlankSale("deleted")]
      /\ payments' = [p \in Payments |->
                         IF p \in AllocatedIn(payments, s)
                         THEN BlankPayment("deleted") ELSE payments[p]]
  BY DEF DeleteSale, Editable, Unposted
<1>2. sales'[s] = BlankSale("deleted") /\ \A t \in Sales \ {s} : sales'[t] = sales[t]
  BY <1>1 DEF PaymentsInv, TypeOK
<1>3. ~Live(s)'
  BY <1>2 DEF Live, BlankSale, Qualifying
<1>4. \A p \in Payments :
         /\ p \in AllocatedIn(payments, s) => payments'[p].state = "deleted"
         /\ p \notin AllocatedIn(payments, s) => payments'[p] = payments[p]
  BY <1>1 DEF BlankPayment
<1>5. PaidIsRecorded'
  <2> SUFFICES ASSUME NEW t \in Sales, Live(t)'
               PROVE  /\ sales'[t].paid = Recorded(payments', t)
                      /\ sales'[t].paid <= TotalOf(sales'[t])
                      /\ sales'[t].status = StatusFor(sales'[t].paid, TotalOf(sales'[t]))
    BY DEF PaidIsRecorded, Recorded
  <2>1. t # s /\ sales'[t] = sales[t] /\ Live(t)
    BY <1>2, <1>3 DEF Live
  <2>2. \A p \in Payments : p \in AllocatedIn(payments, t) => p \notin AllocatedIn(payments, s)
    BY <2>1 DEF AllocatedIn
  <2>3. \A p \in Payments :
           payments'[p].state = "live" /\ payments'[p].sale = t
             <=> payments[p].state = "live" /\ payments[p].sale = t
    BY <1>4, <2>2 DEF AllocatedIn
  <2>4. AllocatedIn(payments', t) = AllocatedIn(payments, t)
    BY <2>3 DEF AllocatedIn
  <2>5. \A p \in AllocatedIn(payments, t) : payments'[p].amount = payments[p].amount
    BY <1>4, <2>2 DEF AllocatedIn
  <2> QED
    BY <2>1, <2>4, <2>5, PaidKept DEF PaymentsInv
<1>6. PaymentsNameTheirSale'
  <2> SUFFICES ASSUME NEW p \in Payments, payments'[p].state = "live", payments'[p].sale # NoSale
               PROVE  /\ sales'[payments'[p].sale].status \in Qualifying
                      /\ payments'[p].customer = sales'[payments'[p].sale].customer
    BY DEF PaymentsNameTheirSale, Live
  <2>1. p \notin AllocatedIn(payments, s) /\ payments'[p] = payments[p]
    BY <1>4
  <2>2. payments[p].sale \in Sales \ {s}
    BY <2>1 DEF PaymentsInv, TypeOK, PaymentRows, AllocatedIn
  <2>3. Live(payments[p].sale) /\ payments[p].customer = sales[payments[p].sale].customer
    BY <2>1 DEF PaymentsInv, PaymentsNameTheirSale
  <2> QED
    BY <1>2, <2>1, <2>2, <2>3 DEF Live
<1> QED
  BY <1>5, <1>6

(* The rows a settlement writes: one payment, and the paid amount of its    *)
(* sale.                                                                    *)
LEMMA RecordPaymentRows ==
    ASSUME PaymentsInv, NEW p \in Payments, NEW c \in Customers,
           NEW s \in Sales \cup {NoSale}, NEW amount \in Amounts, NEW till \in Tills,
           RecordPayment(p, c, s, amount, till)
    PROVE  /\ payments'[p].state = "live" /\ payments'[p].sale = s
           /\ payments'[p].customer = c /\ payments'[p].amount = amount /\ payments'[p].posted
           /\ \A r \in Payments \ {p} : payments'[r] = payments[r]
           /\ s # NoSale => Live(s) /\ sales[s].customer = c /\ amount <= Due(s)
           /\ amount \in 0 .. MaxAmount /\ amount \in Nat
           /\ \A t \in Sales :
                /\ p \notin AllocatedIn(payments, t)
                /\ t # s => AllocatedIn(payments', t) = AllocatedIn(payments, t)
                /\ t = s => AllocatedIn(payments', t) = AllocatedIn(payments, t) \cup {p}
                /\ \A r \in AllocatedIn(payments, t) : payments'[r].amount = payments[r].amount
                /\ Live(t)' = Live(t)
                /\ sales'[t].customer = sales[t].customer
                /\ TotalOf(sales'[t]) = TotalOf(sales[t])
                /\ t # s => sales'[t] = sales[t]
                /\ t = s => /\ sales'[t].paid = sales[t].paid + amount
                           /\ sales'[t].status = StatusFor(sales[t].paid + amount, TotalOf(sales[t]))
<1>1. /\ payments[p].state = "unused"
      /\ payments' = [payments EXCEPT ![p] =
                         [state |-> "live", sale |-> s, customer |-> c,
                          amount |-> amount, till |-> till, posted |-> TRUE]]
      /\ s # NoSale => Live(s) /\ sales[s].customer = c /\ amount <= Due(s)
  BY DEF RecordPayment, PaidChangedTo
<1>2. /\ payments'[p].state = "live" /\ payments'[p].sale = s
      /\ payments'[p].customer = c /\ payments'[p].amount = amount /\ payments'[p].posted
      /\ \A r \in Payments \ {p} : payments'[r] = payments[r]
  BY <1>1 DEF PaymentsInv, TypeOK
<1>3. \A t \in Sales : p \notin AllocatedIn(payments, t)
  BY <1>1 DEF AllocatedIn
<1>4. ASSUME NEW t \in Sales
      PROVE  /\ t # s => AllocatedIn(payments', t) = AllocatedIn(payments, t)
             /\ t = s => AllocatedIn(payments', t) = AllocatedIn(payments, t) \cup {p}
             /\ \A r \in AllocatedIn(payments, t) : payments'[r].amount = payments[r].amount
  BY <1>1, <1>2 DEF AllocatedIn
<1>5. amount \in 0 .. MaxAmount /\ amount \in Nat
  BY MaxAmountIsNat DEF Amounts
<1>6. ASSUME NEW t \in Sales
      PROVE  /\ Live(t)' = Live(t)
             /\ sales'[t].customer = sales[t].customer
             /\ TotalOf(sales'[t]) = TotalOf(sales[t])
             /\ t # s => sales'[t] = sales[t]
             /\ t = s => /\ sales'[t].paid = sales[t].paid + amount
                        /\ sales'[t].status = StatusFor(sales[t].paid + amount, TotalOf(sales[t]))
  <2>1. CASE t = s
    <3>1. t # NoSale
      BY DeskAssumption
    <3>2. sales' = [sales EXCEPT ![t].paid = @ + amount,
                                 ![t].status = StatusFor(sales[t].paid + amount, TotalOf(sales[t]))]
      BY <2>1, <3>1 DEF RecordPayment, PaidChangedTo
    <3>3. /\ sales'[t].paid = sales[t].paid + amount
          /\ sales'[t].status = StatusFor(sales[t].paid + amount, TotalOf(sales[t]))
          /\ sales'[t].customer = sales[t].customer
          /\ TotalOf(sales'[t]) = TotalOf(sales[t])
      BY <3>2 DEF PaymentsInv, TypeOK, SaleRows, TotalOf
    <3>4. Live(t) /\ Live(t)'
      BY <1>1, <2>1, <3>1, <3>3, StatusType DEF Live
    <3> QED
      BY <2>1, <3>3, <3>4
  <2>2. CASE t # s
    <3>1. sales'[t] = sales[t]
      BY <2>2 DEF RecordPayment, PaidChangedTo, PaymentsInv, TypeOK
    <3> QED
      BY <2>2, <3>1 DEF Live
  <2> QED
    BY <2>1, <2>2
<1> QED
  BY <1>1, <1>2, <1>3, <1>4, <1>5, <1>6

(* A settlement adds one payment and its amount to the same sale.           *)
LEMMA RecordPaymentPayments ==
    ASSUME PaymentsInv, NEW p \in Payments, NEW c \in Customers,
           NEW s \in Sales \cup {NoSale}, NEW amount \in Amounts, NEW till \in Tills,
           RecordPayment(p, c, s, amount, till)
    PROVE  PaidIsRecorded' /\ PaymentsNameTheirSale'
<1>1. /\ payments'[p].state = "live" /\ payments'[p].sale = s
      /\ payments'[p].customer = c /\ payments'[p].amount = amount /\ payments'[p].posted
      /\ \A r \in Payments \ {p} : payments'[r] = payments[r]
      /\ s # NoSale => Live(s) /\ sales[s].customer = c /\ amount <= Due(s)
      /\ amount \in 0 .. MaxAmount /\ amount \in Nat
      /\ \A t \in Sales :
           /\ p \notin AllocatedIn(payments, t)
           /\ t # s => AllocatedIn(payments', t) = AllocatedIn(payments, t)
           /\ t = s => AllocatedIn(payments', t) = AllocatedIn(payments, t) \cup {p}
           /\ \A r \in AllocatedIn(payments, t) : payments'[r].amount = payments[r].amount
           /\ Live(t)' = Live(t)
           /\ sales'[t].customer = sales[t].customer
           /\ TotalOf(sales'[t]) = TotalOf(sales[t])
           /\ t # s => sales'[t] = sales[t]
           /\ t = s => /\ sales'[t].paid = sales[t].paid + amount
                      /\ sales'[t].status = StatusFor(sales[t].paid + amount, TotalOf(sales[t]))
  BY RecordPaymentRows
<1>2. PaidIsRecorded'
  <2> SUFFICES ASSUME NEW t \in Sales, Live(t)'
               PROVE  /\ sales'[t].paid = Recorded(payments', t)
                      /\ sales'[t].paid <= TotalOf(sales'[t])
                      /\ sales'[t].status = StatusFor(sales'[t].paid, TotalOf(sales'[t]))
    BY DEF PaidIsRecorded, Recorded
  <2>1. CASE t = s
    <3>1. Recorded(payments', t) = Recorded(payments, t) + amount
      BY <1>1, <2>1, RecordedAdd
    <3>2. sales[t].paid = Recorded(payments, t)
      BY <1>1 DEF PaymentsInv, PaidIsRecorded, Recorded
    <3>3. sales[t] \in SaleRows /\ t # NoSale
      BY DeskAssumption DEF PaymentsInv, TypeOK
    <3>4. TotalOf(sales[t]) \in Int /\ sales[t].paid \in Int
      BY <3>3, TotalType DEF SaleRows
    <3>5. amount <= TotalOf(sales[t]) - sales[t].paid
      BY <1>1, <2>1, <3>3 DEF Due
    <3>6. sales[t].paid + amount <= TotalOf(sales[t])
      BY <1>1, <3>4, <3>5
    <3> QED
      BY <1>1, <2>1, <3>1, <3>2, <3>6
  <2>2. CASE t # s
    BY <1>1, <2>2, PaidKept DEF PaymentsInv
  <2> QED
    BY <2>1, <2>2
<1>3. PaymentsNameTheirSale'
  <2> SUFFICES ASSUME NEW r \in Payments, payments'[r].state = "live", payments'[r].sale # NoSale
               PROVE  /\ sales'[payments'[r].sale].status \in Qualifying
                      /\ payments'[r].customer = sales'[payments'[r].sale].customer
    BY DEF PaymentsNameTheirSale, Live
  <2>1. CASE r = p
    <3>1. s \in Sales
      BY <1>1, <2>1
    <3> QED
      BY <1>1, <2>1, <3>1 DEF Live
  <2>2. CASE r # p
    <3>1. payments'[r] = payments[r] /\ payments[r].sale \in Sales
      BY <1>1, <2>2 DEF PaymentsInv, TypeOK, PaymentRows
    <3>2. Live(payments[r].sale) /\ payments[r].customer = sales[payments[r].sale].customer
      BY <3>1 DEF PaymentsInv, PaymentsNameTheirSale
    <3> QED
      BY <1>1, <3>1, <3>2 DEF Live
  <2> QED
    BY <2>1, <2>2
<1> QED
  BY <1>2, <1>3

(* A void takes one payment and its amount out of the same sale; the        *)
(* truncation at zero never bites, because the payment is part of the sum.  *)
LEMMA VoidPaymentRows ==
    ASSUME PaymentsInv, NEW p \in Payments, VoidPayment(p),
           NEW s, s = payments[p].sale,
           NEW left, left = Excess(sales[s].paid, payments[p].amount)
    PROVE  /\ payments[p].state = "live" /\ payments'[p].state = "deleted"
           /\ \A r \in Payments \ {p} : payments'[r] = payments[r]
           /\ payments[p].amount \in 0 .. MaxAmount /\ payments[p].amount \in Nat
           /\ \A t \in Sales :
                /\ t # s => AllocatedIn(payments', t) = AllocatedIn(payments, t)
                /\ t = s => /\ AllocatedIn(payments, t) = AllocatedIn(payments', t) \cup {p}
                           /\ p \notin AllocatedIn(payments', t)
                           /\ Live(t)
                           /\ Recorded(payments, t) = Recorded(payments', t) + payments[p].amount
                           /\ left = Recorded(payments', t)
                           /\ left <= TotalOf(sales[t])
                           /\ sales'[t].paid = left
                           /\ sales'[t].status = StatusFor(left, TotalOf(sales[t]))
                /\ \A r \in AllocatedIn(payments', t) : payments'[r].amount = payments[r].amount
                /\ Live(t)' = Live(t)
                /\ sales'[t].customer = sales[t].customer
                /\ TotalOf(sales'[t]) = TotalOf(sales[t])
                /\ t # s => sales'[t] = sales[t]
<1>1. /\ payments[p].state = "live"
      /\ payments' = [payments EXCEPT ![p] = BlankPayment("deleted")]
  BY DEF VoidPayment, PaidChangedTo
<1>2. /\ payments'[p].state = "deleted"
      /\ \A r \in Payments \ {p} : payments'[r] = payments[r]
  BY <1>1 DEF PaymentsInv, TypeOK, BlankPayment
<1>3. payments[p].amount \in 0 .. MaxAmount /\ payments[p].amount \in Nat
  BY MaxAmountIsNat DEF PaymentsInv, TypeOK, PaymentRows
<1>4. ASSUME NEW t \in Sales
      PROVE  /\ t # s => AllocatedIn(payments', t) = AllocatedIn(payments, t)
             /\ t = s => /\ AllocatedIn(payments, t) = AllocatedIn(payments', t) \cup {p}
                        /\ p \notin AllocatedIn(payments', t)
             /\ \A r \in AllocatedIn(payments', t) : payments'[r].amount = payments[r].amount
  BY <1>1, <1>2 DEF AllocatedIn
<1>5. ASSUME NEW t \in Sales, t = s
      PROVE  /\ Live(t)
             /\ Recorded(payments, t) = Recorded(payments', t) + payments[p].amount
             /\ left = Recorded(payments', t)
             /\ left <= TotalOf(sales[t])
  <2>1. Live(t)
    BY <1>1, <1>5, DeskAssumption DEF PaymentsInv, PaymentsNameTheirSale
  <2>2. Recorded(payments, t) = Recorded(payments', t) + payments[p].amount
    BY <1>3, <1>4, <1>5, RecordedAdd
  <2>3. sales[t].paid = Recorded(payments, t) /\ sales[t].paid <= TotalOf(sales[t])
    BY <2>1 DEF PaymentsInv, PaidIsRecorded, Recorded
  <2>4. Recorded(payments', t) \in Nat
    BY RecordedType
  <2>5. sales[s].paid = Recorded(payments', t) + payments[p].amount
    BY <1>5, <2>2, <2>3
  <2>6. left = Recorded(payments', t)
    BY <1>3, <2>4, <2>5 DEF Excess
  <2>7. TotalOf(sales[t]) \in Int
    BY TotalType DEF PaymentsInv, TypeOK
  <2> QED
    BY <1>3, <1>5, <2>1, <2>2, <2>3, <2>4, <2>5, <2>6, <2>7
<1>6. ASSUME NEW t \in Sales
      PROVE  /\ Live(t)' = Live(t)
             /\ sales'[t].customer = sales[t].customer
             /\ TotalOf(sales'[t]) = TotalOf(sales[t])
             /\ t # s => sales'[t] = sales[t]
             /\ t = s => /\ sales'[t].paid = left
                        /\ sales'[t].status = StatusFor(left, TotalOf(sales[t]))
  <2>1. CASE t = s
    <3>1. s # NoSale
      BY <2>1, DeskAssumption
    <3>2. sales' = [sales EXCEPT ![s].paid = left,
                                 ![s].status = StatusFor(left, TotalOf(sales[s]))]
      BY <3>1 DEF VoidPayment, PaidChangedTo
    <3>3. /\ sales'[t].paid = left
          /\ sales'[t].status = StatusFor(left, TotalOf(sales[t]))
          /\ sales'[t].customer = sales[t].customer
          /\ TotalOf(sales'[t]) = TotalOf(sales[t])
      BY <2>1, <3>2 DEF PaymentsInv, TypeOK, SaleRows, TotalOf
    <3>4. Live(t) /\ Live(t)'
      BY <1>5, <2>1, <3>3, StatusType DEF Live
    <3> QED
      BY <2>1, <3>3, <3>4
  <2>2. CASE t # s
    <3>1. sales'[t] = sales[t]
      BY <2>2 DEF VoidPayment, PaidChangedTo, PaymentsInv, TypeOK
    <3> QED
      BY <2>2, <3>1 DEF Live
  <2> QED
    BY <2>1, <2>2
<1> QED
  BY <1>1, <1>2, <1>3, <1>4, <1>5, <1>6

(* So the paid amount stays the sum of what is left.                        *)
LEMMA VoidPaymentPayments ==
    ASSUME PaymentsInv, NEW p \in Payments, VoidPayment(p)
    PROVE  PaidIsRecorded' /\ PaymentsNameTheirSale'
<1> DEFINE s == payments[p].sale
           left == Excess(sales[s].paid, payments[p].amount)
<1>1. /\ payments[p].state = "live" /\ payments'[p].state = "deleted"
      /\ \A r \in Payments \ {p} : payments'[r] = payments[r]
      /\ payments[p].amount \in 0 .. MaxAmount /\ payments[p].amount \in Nat
      /\ \A t \in Sales :
           /\ t # s => AllocatedIn(payments', t) = AllocatedIn(payments, t)
           /\ t = s => /\ AllocatedIn(payments, t) = AllocatedIn(payments', t) \cup {p}
                      /\ p \notin AllocatedIn(payments', t)
                      /\ Live(t)
                      /\ Recorded(payments, t) = Recorded(payments', t) + payments[p].amount
                      /\ left = Recorded(payments', t)
                      /\ left <= TotalOf(sales[t])
                      /\ sales'[t].paid = left
                      /\ sales'[t].status = StatusFor(left, TotalOf(sales[t]))
           /\ \A r \in AllocatedIn(payments', t) : payments'[r].amount = payments[r].amount
           /\ Live(t)' = Live(t)
           /\ sales'[t].customer = sales[t].customer
           /\ TotalOf(sales'[t]) = TotalOf(sales[t])
           /\ t # s => sales'[t] = sales[t]
  BY VoidPaymentRows
<1> HIDE DEF left, s
<1>2. PaidIsRecorded'
  <2> SUFFICES ASSUME NEW t \in Sales, Live(t)'
               PROVE  /\ sales'[t].paid = Recorded(payments', t)
                      /\ sales'[t].paid <= TotalOf(sales'[t])
                      /\ sales'[t].status = StatusFor(sales'[t].paid, TotalOf(sales'[t]))
    BY DEF PaidIsRecorded, Recorded
  <2>1. CASE t = s
    BY <1>1, <2>1
  <2>2. CASE t # s
    BY <1>1, <2>2, PaidKept DEF PaymentsInv
  <2> QED
    BY <2>1, <2>2
<1>3. PaymentsNameTheirSale'
  <2> SUFFICES ASSUME NEW r \in Payments, payments'[r].state = "live", payments'[r].sale # NoSale
               PROVE  /\ sales'[payments'[r].sale].status \in Qualifying
                      /\ payments'[r].customer = sales'[payments'[r].sale].customer
    BY DEF PaymentsNameTheirSale, Live
  <2>1. r # p /\ payments'[r] = payments[r] /\ payments[r].sale \in Sales
    BY <1>1 DEF PaymentsInv, TypeOK, PaymentRows
  <2>2. Live(payments[r].sale) /\ payments[r].customer = sales[payments[r].sale].customer
    BY <2>1 DEF PaymentsInv, PaymentsNameTheirSale
  <2> QED
    BY <1>1, <2>1, <2>2 DEF Live
<1> QED
  BY <1>2, <1>3

(* A return touches neither the paid amount nor a payment.                  *)
LEMMA ReturnGoodsPayments ==
    ASSUME PaymentsInv, NEW s \in Sales, NEW q \in Quantities, NEW first \in Tills,
           ReturnGoods(s, q, first)
    PROVE  PaidIsRecorded' /\ PaymentsNameTheirSale'
<1>1. payments' = payments
  BY DEF ReturnGoods, ReceivableBack
<1>2. ASSUME NEW t \in Sales
      PROVE  /\ sales'[t].paid = sales[t].paid /\ sales'[t].status = sales[t].status
             /\ sales'[t].customer = sales[t].customer
             /\ TotalOf(sales'[t]) = TotalOf(sales[t])
             /\ Live(t)' = Live(t)
  BY DEF ReturnGoods, ReceivableBack, PaymentsInv, TypeOK, SaleRows, TotalOf, Live
<1>3. PaidIsRecorded'
  BY <1>1, <1>2 DEF PaymentsInv, PaidIsRecorded
<1>4. PaymentsNameTheirSale'
  BY <1>1, <1>2 DEF PaymentsInv, PaymentsNameTheirSale, TypeOK, PaymentRows
<1> QED
  BY <1>3, <1>4

(* PaymentsInv is inductive.                                                *)
LEMMA PaymentsInvInit == Init => PaymentsInv
<1>1. Init => PaidIsRecorded /\ PaymentsNameTheirSale
  BY DEF Init, PaidIsRecorded, PaymentsNameTheirSale, Live, BlankSale, BlankPayment, Qualifying
<1> QED
  BY <1>1, InitType DEF PaymentsInv

(* Every operation preserves the strengthened invariant.                    *)
LEMMA PaymentsInvStep == PaymentsInv /\ [Next]_vars => PaymentsInv'
<1> SUFFICES ASSUME PaymentsInv, [Next]_vars PROVE PaidIsRecorded' /\ PaymentsNameTheirSale'
  BY NextType DEF PaymentsInv
<1>1. CASE Ring
  BY <1>1, CreateSalePayments DEF Ring
<1>2. ASSUME NEW s \in Sales, Edit(s) PROVE PaidIsRecorded' /\ PaymentsNameTheirSale'
  BY <1>2, UpdateSalePayments DEF Edit
<1>3. ASSUME NEW s \in Sales, DeleteSale(s) PROVE PaidIsRecorded' /\ PaymentsNameTheirSale'
  BY <1>3, DeleteSalePayments
<1>4. CASE Settle
  BY <1>4, RecordPaymentPayments DEF Settle
<1>5. ASSUME NEW p \in Payments, VoidPayment(p) PROVE PaidIsRecorded' /\ PaymentsNameTheirSale'
  BY <1>5, VoidPaymentPayments
<1>6. CASE Return
  BY <1>6, ReturnGoodsPayments DEF Return
<1>7. CASE UNCHANGED <<sales, payments>>
  BY <1>7 DEF PaymentsInv, PaidIsRecorded, PaymentsNameTheirSale, Live
<1>8. Supply => UNCHANGED <<sales, payments>>
  BY DEF Supply, ReceiveStock, AdjustStock
<1> QED
  BY <1>1, <1>2, <1>3, <1>4, <1>5, <1>6, <1>7, <1>8 DEF Next, vars

(* The paid amount a sale caches is always the sum of its payment rows and  *)
(* within its total, with the status to match: through sales, edits,        *)
(* settlements, voids of payments, voids of sales and returns.              *)
THEOREM PaidAmountIsRecorded == Spec => []PaidIsRecorded
<1>1. PaymentsInv => PaidIsRecorded
  BY DEF PaymentsInv
<1> QED
  BY <1>1, PaymentsInvInit, PaymentsInvStep, PTL DEF Spec

(* No payment names a sale that is gone or another customer's sale.         *)
THEOREM PaymentsAreAttached == Spec => []PaymentsNameTheirSale
<1>1. PaymentsInv => PaymentsNameTheirSale
  BY DEF PaymentsInv
<1> QED
  BY <1>1, PaymentsInvInit, PaymentsInvStep, PTL DEF Spec

-----------------------------------------------------------------------------
(* The ledger groups of a sale follow the document.  BooksFollowSale is     *)
(* strengthened with what an edit or a void relies on (a sale without       *)
(* returned units has no refund and no SALE_RETURN group) and with          *)
(* PaymentsInv: a void may move paid_amount only on a sale that is live.    *)

(* CostFollows of a row and its books.                                      *)
CostCovers(row, book) ==
    Within(2 * (QuantityScale * (book.cogs - book.returns.cogs)
                - (row.qty - row.returned) * row.cost),
           QuantityScale * (1 + row.slips))

(* BooksFollowSale and the strengthening, of one sale.                      *)
Booked(row, live, book) ==
    /\ SaleGroupBalances(book.sale)
    /\ ReturnGroupBalances(book.returns)
    /\ live =>
         /\ book.sale.revenue - book.returns.revenue = TotalOf(row) - row.refunded
         /\ CostCovers(row, book)
    /\ ~live => book = NoBooks

Returnable(row, live, book) ==
    /\ row.returned <= row.qty
    /\ ~live => row.returned = 0
    /\ row.returned = 0 => row.refunded = 0 /\ book.returns = NoReturnGroup

Consistent(s) ==
    Booked(sales[s], Live(s), books[s]) /\ Returnable(sales[s], Live(s), books[s])

BooksInv == PaymentsInv /\ \A s \in Sales : Consistent(s)

Books == [sale : SaleGroups, cogs : Nat, returns : ReturnGroups]

-----------------------------------------------------------------------------
(* A step that leaves the figures of a sale and its books alone.            *)
LEMMA FiguresKept ==
    ASSUME NEW s \in Sales, Consistent(s), books'[s] = books[s], Live(s)' = Live(s),
           \A field \in {"qty", "price", "discount", "cost", "returned", "refunded", "slips"} :
               sales'[s][field] = sales[s][field]
    PROVE  Consistent(s)'
<1>1. /\ sales'[s].qty = sales[s].qty /\ sales'[s].price = sales[s].price
      /\ sales'[s].discount = sales[s].discount /\ sales'[s].cost = sales[s].cost
      /\ sales'[s].returned = sales[s].returned /\ sales'[s].refunded = sales[s].refunded
      /\ sales'[s].slips = sales[s].slips
  OBVIOUS
<1> QED
  BY <1>1 DEF Consistent, Booked, Returnable, TotalOf, CostCovers

(* post_sale credits the total, whatever was paid.                          *)
LEMMA RevenueIsTotal ==
    ASSUME NEW total \in Nat, NEW paid \in Nat, NEW inflow \in [Tills -> Nat]
    PROVE  SaleGroup(total, paid, inflow).revenue = total
BY DEF SaleGroup, NoSaleGroup

(* One more value of q units keeps the cost within what was rounded.        *)
LEMMA CostStillCovers ==
    ASSUME NEW posted \in Int, NEW out \in Int, NEW cost \in Nat, NEW n \in Nat, NEW q \in Nat,
           Within(2 * (QuantityScale * posted - out * cost), QuantityScale * (1 + n))
    PROVE  Within(2 * (QuantityScale * (posted - Valued(q, cost)) - (out - q) * cost),
                  QuantityScale * (1 + (n + 1)))
<1> DEFINE a == QuantityScale * posted
           b == out * cost
           x == QuantityScale * Valued(q, cost)
           y == q * cost
           m == QuantityScale * (1 + n)
<1>1. QuantityScale \in Nat \ {0} /\ Valued(q, cost) \in Nat
  BY InventoryAssumption, ValuedType
<1> DEFINE w == Valued(q, cost)
<1>2. QuantityScale * (posted - w) = a - QuantityScale * w
  <2> HIDE DEF w
  <2> QED
    BY <1>1 DEF w
<1>3. (out - q) * cost = b - y
  OBVIOUS
<1>4. QuantityScale * (1 + (n + 1)) = m + QuantityScale
  BY <1>1
<1>5. a \in Int /\ b \in Int /\ x \in Int /\ y \in Int /\ m \in Int
  BY <1>1
<1>6. 2 * x <= 2 * y + QuantityScale /\ 2 * y - QuantityScale <= 2 * x
  BY ValuedType
<1>7. Within(2 * (a - b), m)
  OBVIOUS
<1> HIDE DEF a, b, x, y, m
<1>8. Within(2 * ((a - x) - (b - y)), m + QuantityScale)
  BY <1>1, <1>5, <1>6, <1>7 DEF Within
<1> QED
  BY <1>2, <1>3, <1>4, <1>8 DEF x

(* Books posted for a row that has no returns.                              *)
LEMMA PostedBooks ==
    ASSUME NEW row \in SaleRows, row.returned = 0, row.refunded = 0, TotalOf(row) \in Nat,
           NEW inflow \in [Tills -> Nat], SalePostable(TotalOf(row), row.paid, inflow),
           NEW book, book = [sale |-> SaleGroup(TotalOf(row), row.paid, inflow),
                             cogs |-> Valued(row.qty, row.cost), returns |-> NoReturnGroup]
    PROVE  Booked(row, TRUE, book) /\ Returnable(row, TRUE, book)
<1>1. row.paid \in Nat /\ row.qty \in Nat /\ row.cost \in Nat /\ row.qty * row.cost \in Nat
  BY DEF SaleRows
<1>2. book.sale.revenue = TotalOf(row)
  BY <1>1, RevenueIsTotal
<1>3. SaleGroupBalances(book.sale) /\ ReturnGroupBalances(book.returns)
  BY DEF SalePostable, ReturnGroupBalances, NoReturnGroup, Tills
<1>4. book.returns.revenue = 0 /\ book.returns.cogs = 0
  BY DEF NoReturnGroup
<1>5. CostCovers(row, book)
  <2> DEFINE x == QuantityScale * Valued(row.qty, row.cost)
             y == row.qty * row.cost
             m == QuantityScale * row.slips
  <2>1. /\ QuantityScale \in Nat \ {0} /\ row.slips \in Nat
        /\ Valued(row.qty, row.cost) \in Nat
        /\ 2 * x <= 2 * y + QuantityScale /\ 2 * y - QuantityScale <= 2 * x
    BY <1>1, InventoryAssumption, ValuedType DEF SaleRows
  <2>2. x \in Int /\ y \in Int /\ m \in Nat
    BY <1>1, <2>1
  <2>3. /\ QuantityScale * (1 + row.slips) = QuantityScale + m
        /\ (row.qty - 0) * row.cost = y
    BY <1>1, <2>1
  <2>4. book.cogs - book.returns.cogs = Valued(row.qty, row.cost)
    BY <1>4, <2>1
  <2> HIDE DEF y, m
  <2>5. Within(2 * (x - y), QuantityScale + m)
    <3> HIDE DEF x
    <3> QED
      BY <2>1, <2>2 DEF Within
  <2> QED
    BY <2>3, <2>4, <2>5 DEF CostCovers
<1> QED
  BY <1>1, <1>2, <1>3, <1>4, <1>5 DEF Booked, Returnable

(* Empty books of a row that is unused or deleted.                          *)
LEMMA BlankBooks ==
    ASSUME NEW status
    PROVE  Booked(BlankSale(status), FALSE, NoBooks) /\ Returnable(BlankSale(status), FALSE, NoBooks)
BY DEF Booked, Returnable, BlankSale, NoBooks, CostCovers, NoSaleGroup, NoReturnGroup, SaleGroupBalances,
       ReturnGroupBalances, Tills

(* An empty shop is consistent.                                             *)
LEMMA InitBooks == Init => BooksInv
<1> SUFFICES ASSUME Init, NEW s \in Sales PROVE Consistent(s)
  BY PaymentsInvInit DEF BooksInv
<1>1. sales[s] = BlankSale("unused") /\ books[s] = NoBooks /\ ~Live(s)
  BY DEF Init, Live, BlankSale, Qualifying
<1>2. Booked(sales[s], FALSE, books[s]) /\ Returnable(sales[s], FALSE, books[s])
  BY <1>1, BlankBooks
<1> QED
  BY <1>1, <1>2 DEF Consistent, Booked, Returnable

-----------------------------------------------------------------------------
(* A new sale posts its books over none.                                    *)
LEMMA CreateSaleBooks ==
    ASSUME BooksInv, NEW s \in Sales, NEW c \in Parties, NEW v \in Variants,
           NEW q \in Quantities, NEW price \in Prices, NEW discount \in Discounts,
           NEW tender \in Tenders,
           CreateSale(s, c, v, q, price, discount, tender)
    PROVE  \A t \in Sales : Consistent(t)'
<1> DEFINE paid  == TallyOf([p \in DOMAIN tender |-> tender[p].amount], DOMAIN tender)
           row   == [BlankSale("partial") EXCEPT
                        !.customer = c, !.variant = v, !.qty = q, !.price = price,
                        !.discount = discount, !.cost = SnapshotCost(v), !.paid = paid]
           total == TotalOf(row)
           inflow == InflowIn(payments', s)
           new   == [row EXCEPT !.status = StatusFor(paid, total)]
<1>0. TypeOK /\ TypeOK'
  BY CreateSaleType DEF BooksInv, PaymentsInv
<1>1. /\ sales[s].status = "unused"
      /\ total \in 0 .. MaxAmount
      /\ sales' = [sales EXCEPT ![s] = new]
      /\ SalePostable(total, paid, inflow)
      /\ books' = Posted(s, row, inflow)
  BY DEF CreateSale
<1>2. /\ row.returned = 0 /\ row.refunded = 0 /\ row.paid = paid
      /\ row.qty = q /\ row.price = price /\ row.discount = discount
      /\ row.cost = SnapshotCost(v)
  BY DEF BlankSale
<1>3. /\ new.returned = 0 /\ new.refunded = 0 /\ new.paid = paid /\ new.qty = row.qty
      /\ new.cost = row.cost /\ TotalOf(new) = total /\ new.status = StatusFor(paid, total)
  BY <1>2 DEF TotalOf, BlankSale
<1> HIDE DEF row, new, total, inflow, paid
<1>4. inflow \in [Tills -> Nat]
  BY InflowType DEF inflow
<1>5. sales'[s] = new /\ Live(s)' /\ new \in SaleRows
  BY <1>0, <1>1, <1>3, StatusType DEF TypeOK, Live
<1>6. books[s].returns = NoReturnGroup
  <2>1. ~Live(s)
    BY <1>1 DEF Live, Qualifying
  <2> QED
    BY <2>1 DEF BooksInv, Consistent, Booked, NoBooks
<1>7. books'[s] = [sale |-> SaleGroup(TotalOf(new), new.paid, inflow),
                   cogs |-> Valued(new.qty, new.cost), returns |-> NoReturnGroup]
  BY <1>0, <1>1, <1>2, <1>3, <1>6 DEF Posted, TypeOK, total
<1>8. Consistent(s)'
  <2>1. TotalOf(new) \in Nat
    BY <1>1, <1>3, MaxAmountIsNat
  <2> QED
    BY <1>1, <1>3, <1>4, <1>5, <1>7, <2>1, PostedBooks DEF Consistent
<1>9. ASSUME NEW t \in Sales \ {s} PROVE Consistent(t)'
  <2>1. sales'[t] = sales[t] /\ books'[t] = books[t]
    BY <1>0, <1>1 DEF TypeOK, Posted
  <2> QED
    BY <2>1, FiguresKept DEF BooksInv, Live
<1> QED
  BY <1>8, <1>9

(* An edit reposts the books of a sale that has no returns.                 *)
LEMMA UpdateSaleBooks ==
    ASSUME BooksInv, NEW s \in Sales, NEW c \in Parties, NEW replace \in BOOLEAN,
           NEW v \in Variants, NEW q \in Quantities, NEW price \in Prices,
           NEW discount \in Discounts \cup {sales[s].discount},
           UpdateSale(s, c, replace, v, q, price, discount)
    PROVE  \A t \in Sales : Consistent(t)'
<1> DEFINE old  == sales[s]
           line == IF replace
                   THEN [old EXCEPT !.variant = v, !.qty = q, !.price = price,
                                    !.cost = SnapshotCost(v)]
                   ELSE old
           row  == [line EXCEPT !.customer = c, !.discount = discount]
           total == TotalOf(row)
           inflow == InflowIn(payments, s)
           new  == [row EXCEPT !.status = StatusFor(old.paid, total)]
<1>0. TypeOK /\ TypeOK' /\ old \in SaleRows
  BY UpdateSaleType DEF BooksInv, PaymentsInv, TypeOK
<1>1. /\ Editable(s)
      /\ total \in 0 .. MaxAmount
      /\ sales' = [sales EXCEPT ![s] = new]
      /\ SalePostable(total, old.paid, inflow)
      /\ books' = Posted(s, row, inflow)
  BY DEF UpdateSale
<1>2. old.returned = 0 /\ old.refunded = 0 /\ books[s].returns = NoReturnGroup
  BY <1>0, <1>1 DEF Editable, HasReturns, BooksInv, Consistent, Returnable, SaleRows
<1>3. /\ row.returned = old.returned /\ row.refunded = old.refunded /\ row.paid = old.paid
      /\ new.returned = old.returned /\ new.refunded = old.refunded /\ new.paid = old.paid
      /\ new.qty = row.qty /\ new.cost = row.cost /\ TotalOf(new) = total
      /\ new.status = StatusFor(old.paid, total)
  BY <1>0 DEF TotalOf, SaleRows
<1> HIDE DEF row, new, total, inflow
<1>4. inflow \in [Tills -> Nat]
  BY InflowType DEF inflow
<1>5. sales'[s] = new /\ Live(s)' /\ new \in SaleRows
  BY <1>0, <1>1, <1>3, StatusType DEF TypeOK, Live
<1>6. books'[s] = [sale |-> SaleGroup(TotalOf(new), new.paid, inflow),
                   cogs |-> Valued(new.qty, new.cost), returns |-> NoReturnGroup]
  BY <1>0, <1>1, <1>2, <1>3 DEF Posted, TypeOK, total
<1>7. Consistent(s)'
  <2>1. TotalOf(new) \in Nat
    BY <1>1, <1>3, MaxAmountIsNat
  <2> QED
    BY <1>1, <1>2, <1>3, <1>4, <1>5, <1>6, <2>1, PostedBooks DEF Consistent
<1>8. ASSUME NEW t \in Sales \ {s} PROVE Consistent(t)'
  <2>1. sales'[t] = sales[t] /\ books'[t] = books[t]
    BY <1>0, <1>1 DEF TypeOK, Posted
  <2> QED
    BY <2>1, FiguresKept DEF BooksInv, Live
<1> QED
  BY <1>7, <1>8

(* A void leaves no posting: the sale has no SALE_RETURN group.             *)
LEMMA DeleteSaleBooks ==
    ASSUME BooksInv, NEW s \in Sales, DeleteSale(s)
    PROVE  \A t \in Sales : Consistent(t)'
<1>0. TypeOK /\ sales[s] \in SaleRows
  BY DEF BooksInv, PaymentsInv, TypeOK
<1>1. /\ Editable(s)
      /\ sales' = [sales EXCEPT ![s] = BlankSale("deleted")]
      /\ books' = [books EXCEPT ![s].sale = NoSaleGroup, ![s].cogs = 0]
  BY DEF DeleteSale, Unposted
<1>2. books[s].returns = NoReturnGroup
  BY <1>0, <1>1 DEF Editable, HasReturns, BooksInv, Consistent, Returnable, SaleRows
<1>3. books'[s] = NoBooks /\ sales'[s] = BlankSale("deleted")
  BY <1>0, <1>1, <1>2 DEF TypeOK, NoBooks
<1>4. ~Live(s)'
  BY <1>3 DEF Live, BlankSale, Qualifying
<1>5. Consistent(s)'
  <2>1. Booked(sales'[s], FALSE, books'[s]) /\ Returnable(sales'[s], FALSE, books'[s])
    BY <1>3, BlankBooks
  <2> QED
    BY <1>4, <2>1 DEF Consistent, Booked, Returnable
<1>6. ASSUME NEW t \in Sales \ {s} PROVE Consistent(t)'
  <2>1. sales'[t] = sales[t] /\ books'[t] = books[t]
    BY <1>0, <1>1 DEF TypeOK
  <2> QED
    BY <2>1, FiguresKept DEF BooksInv, Live
<1> QED
  BY <1>5, <1>6

(* A settlement or the void of a payment moves paid_amount of a live sale   *)
(* and nothing the books were built from.                                   *)
LEMMA PaidChangedBooks ==
    ASSUME BooksInv, NEW s \in Sales, Live(s), NEW paid \in Nat,
           sales' = PaidChangedTo(s, paid), books' = books
    PROVE  \A t \in Sales : Consistent(t)'
<1> SUFFICES ASSUME NEW t \in Sales PROVE Consistent(t)'
  OBVIOUS
<1>0. sales \in [Sales -> SaleRows]
  BY DEF BooksInv, PaymentsInv, TypeOK
<1>1. \A field \in {"qty", "price", "discount", "cost", "returned", "refunded", "slips"} :
          sales'[t][field] = sales[t][field]
  BY <1>0 DEF PaidChangedTo, SaleRows
<1>2. sales'[t].status = IF t = s THEN StatusFor(paid, TotalOf(sales[s])) ELSE sales[t].status
  BY <1>0 DEF PaidChangedTo, SaleRows
<1>3. Live(t)' = Live(t)
  BY <1>2, StatusType DEF Live
<1> QED
  BY <1>1, <1>3, FiguresKept DEF BooksInv

(* record_customer_payment.                                                 *)
LEMMA RecordPaymentBooks ==
    ASSUME BooksInv, NEW p \in Payments, NEW c \in Customers, NEW s \in Sales \cup {NoSale},
           NEW amount \in Amounts, NEW till \in Tills,
           RecordPayment(p, c, s, amount, till)
    PROVE  \A t \in Sales : Consistent(t)'
<1>1. CASE s = NoSale
  BY <1>1, FiguresKept DEF RecordPayment, BooksInv, Live
<1>2. CASE s # NoSale
  <2>1. sales[s] \in SaleRows /\ amount \in Nat
    BY <1>2, MaxAmountIsNat DEF BooksInv, PaymentsInv, TypeOK, Amounts
  <2>2. sales[s].paid + amount \in Nat
    BY <2>1 DEF SaleRows
  <2> QED
    BY <1>2, <2>2, PaidChangedBooks DEF RecordPayment
<1> QED
  BY <1>1, <1>2

(* void_payment: the sale a payment names is live.                          *)
LEMMA VoidPaymentBooks ==
    ASSUME BooksInv, NEW p \in Payments, VoidPayment(p)
    PROVE  \A t \in Sales : Consistent(t)'
<1> DEFINE s == payments[p].sale
<1>1. CASE s = NoSale
  BY <1>1, FiguresKept DEF VoidPayment, BooksInv, Live
<1>2. CASE s # NoSale
  <2>1. payments[p] \in PaymentRows
    BY DEF BooksInv, PaymentsInv, TypeOK
  <2>2. s \in Sales /\ Live(s) /\ payments[p].amount \in Nat
    BY <1>2, <2>1, MaxAmountIsNat
    DEF VoidPayment, BooksInv, PaymentsInv, PaymentsNameTheirSale, PaymentRows
  <2>3. sales[s].paid \in Nat
    BY <2>2 DEF BooksInv, PaymentsInv, TypeOK, SaleRows
  <2>4. Excess(sales[s].paid, payments[p].amount) \in Nat
    BY <2>2, <2>3, NaturalLeastExcess
  <2> QED
    BY <1>2, <2>2, <2>4, PaidChangedBooks DEF VoidPayment
<1> QED
  BY <1>1, <1>2

(* A return adds a balanced group with its refund and its share of the cost.*)
LEMMA ReturnGoodsBooks ==
    ASSUME BooksInv, NEW s \in Sales, NEW q \in Quantities, NEW first \in Tills,
           ReturnGoods(s, q, first)
    PROVE  \A t \in Sales : Consistent(t)'
<1> DEFINE row    == sales[s]
           refund == RefundFor(row, q)
           ar     == ReceivableBack(row, refund)
           group  == ReturnGroup(refund, ar, Valued(q, row.cost), first, InflowIn(payments, s))
<1>0. TypeOK
  BY DEF BooksInv, PaymentsInv
<1>1. /\ row \in SaleRows /\ q \in Nat \ {0} /\ refund \in Nat /\ ar \in Nat
      /\ Valued(q, row.cost) \in Nat
      /\ group \in ReturnGroups /\ ReturnGroupBalances(group)
  BY <1>0, ReturnParts
<1>2. /\ Live(s) /\ row.returned + q <= row.qty
      /\ sales' = [sales EXCEPT ![s].returned = @ + q, ![s].refunded = @ + refund,
                                ![s].arBack = @ + ar, ![s].slips = @ + 1]
      /\ books' = [books EXCEPT ![s].returns = AddReturnGroup(@, group)]
  BY DEF ReturnGoods
<1>3. group.revenue = refund /\ group.cogs = Valued(q, row.cost)
  BY DEF ReturnGroup
<1> HIDE DEF group, refund, ar
<1>4. /\ sales'[s].returned = row.returned + q /\ sales'[s].refunded = row.refunded + refund
      /\ sales'[s].status = row.status /\ sales'[s].qty = row.qty /\ sales'[s].price = row.price
      /\ sales'[s].discount = row.discount /\ sales'[s].cost = row.cost
      /\ sales'[s].slips = row.slips + 1
  BY <1>0, <1>1, <1>2 DEF TypeOK, SaleRows
<1>5. /\ books[s] \in Books
      /\ books'[s] = [books[s] EXCEPT !.returns = AddReturnGroup(@, group)]
  BY <1>0, <1>2 DEF TypeOK, Books
<1>6. /\ books'[s].sale = books[s].sale /\ books'[s].cogs = books[s].cogs
      /\ books'[s].returns = AddReturnGroup(books[s].returns, group)
      /\ books[s].returns \in ReturnGroups /\ books[s].sale \in SaleGroups /\ books[s].cogs \in Nat
  BY <1>5 DEF Books
<1>7. /\ books'[s].returns.revenue = books[s].returns.revenue + refund
      /\ books'[s].returns.cogs = books[s].returns.cogs + Valued(q, row.cost)
      /\ ReturnGroupBalances(books[s].returns) => ReturnGroupBalances(books'[s].returns)
  BY <1>1, <1>3, <1>6, AddReturnGroupType DEF AddReturnGroup
<1>8. Live(s)' /\ TotalOf(sales'[s]) = TotalOf(row)
  BY <1>2, <1>4 DEF Live, TotalOf
<1>9. Consistent(s)'
  <2>1. Booked(row, TRUE, books[s])
    BY <1>2 DEF BooksInv, Consistent
  <2>2. /\ row.qty \in Nat /\ row.returned \in Nat /\ row.cost \in Nat /\ row.refunded \in Nat
        /\ TotalOf(row) \in Int
        /\ books[s].sale.revenue \in Nat /\ books[s].returns.revenue \in Nat
        /\ books[s].returns.cogs \in Nat /\ books[s].cogs \in Nat
    BY <1>1, <1>6, TotalType DEF SaleRows, SaleGroups, ReturnGroups
  <2>3. books'[s].sale.revenue - books'[s].returns.revenue
          = TotalOf(sales'[s]) - sales'[s].refunded
    <3>1. books[s].sale.revenue - books[s].returns.revenue = TotalOf(row) - row.refunded
      BY <2>1 DEF Booked
    <3>2. /\ books'[s].sale.revenue = books[s].sale.revenue
          /\ books'[s].returns.revenue = books[s].returns.revenue + refund
          /\ TotalOf(sales'[s]) = TotalOf(row)
          /\ sales'[s].refunded = row.refunded + refund
      BY <1>4, <1>6, <1>7, <1>8
    <3>3. \A a, b, c, d, r \in Int : a - b = c - d => a - (b + r) = c - (d + r)
      OBVIOUS
    <3>4. /\ books[s].sale.revenue \in Int /\ books[s].returns.revenue \in Int
          /\ TotalOf(row) \in Int /\ row.refunded \in Int /\ refund \in Int
      BY <1>1, <2>2
    <3>5. books[s].sale.revenue - (books[s].returns.revenue + refund)
            = TotalOf(row) - (row.refunded + refund)
      BY <3>1, <3>3, <3>4
    <3> QED
      BY <3>2, <3>5
  <2>4. CostCovers(row, books[s]) /\ row.slips \in Nat
    BY <1>1, <2>1 DEF Booked, SaleRows
  <2>5. CostCovers(sales'[s], books'[s])
    <3> DEFINE posted == books[s].cogs - books[s].returns.cogs
               out == row.qty - row.returned
    <3>1. posted \in Int /\ out \in Int
      BY <2>2
    <3>2. Within(2 * (QuantityScale * posted - out * row.cost), QuantityScale * (1 + row.slips))
      BY <2>4 DEF CostCovers
    <3>3. /\ books'[s].cogs - books'[s].returns.cogs = posted - Valued(q, row.cost)
          /\ sales'[s].qty - sales'[s].returned = out - q
      BY <1>1, <1>4, <1>6, <1>7, <2>2
    <3> HIDE DEF posted, out
    <3>4. Within(2 * (QuantityScale * (posted - Valued(q, row.cost)) - (out - q) * row.cost),
                 QuantityScale * (1 + (row.slips + 1)))
      BY <1>1, <2>2, <2>4, <3>1, <3>2, CostStillCovers
    <3> QED
      BY <1>4, <3>3, <3>4 DEF CostCovers
  <2>6. SaleGroupBalances(books'[s].sale) /\ ReturnGroupBalances(books'[s].returns)
    BY <1>6, <1>7, <2>1 DEF Booked
  <2>7. sales'[s].returned <= sales'[s].qty /\ sales'[s].returned # 0
    BY <1>1, <1>2, <1>4, <2>2
  <2> QED
    BY <1>8, <2>3, <2>5, <2>6, <2>7 DEF Consistent, Booked, Returnable
<1>10. ASSUME NEW t \in Sales \ {s} PROVE Consistent(t)'
  <2>1. sales'[t] = sales[t] /\ books'[t] = books[t]
    BY <1>0, <1>2 DEF TypeOK
  <2> QED
    BY <2>1, FiguresKept DEF BooksInv, Live
<1> QED
  BY <1>9, <1>10

(* Every operation preserves the strengthened invariant.                    *)
LEMMA NextBooks == BooksInv /\ [Next]_vars => BooksInv'
<1> SUFFICES ASSUME BooksInv, [Next]_vars PROVE \A t \in Sales : Consistent(t)'
  BY PaymentsInvStep DEF BooksInv
<1>1. CASE Ring
  BY <1>1, CreateSaleBooks DEF Ring
<1>2. ASSUME NEW s \in Sales, Edit(s) PROVE \A t \in Sales : Consistent(t)'
  BY <1>2, UpdateSaleBooks DEF Edit
<1>3. ASSUME NEW s \in Sales, DeleteSale(s) PROVE \A t \in Sales : Consistent(t)'
  BY <1>3, DeleteSaleBooks
<1>4. CASE Settle
  BY <1>4, RecordPaymentBooks DEF Settle
<1>5. ASSUME NEW p \in Payments, VoidPayment(p) PROVE \A t \in Sales : Consistent(t)'
  BY <1>5, VoidPaymentBooks
<1>6. CASE Return
  BY <1>6, ReturnGoodsBooks DEF Return
<1>7. CASE UNCHANGED <<sales, books>>
  BY <1>7, FiguresKept DEF BooksInv, Live
<1>8. Supply => UNCHANGED <<sales, books>>
  BY DEF Supply, ReceiveStock, AdjustStock
<1> QED
  BY <1>1, <1>2, <1>3, <1>4, <1>5, <1>6, <1>7, <1>8 DEF Next, vars

(* The invariant holds in every reachable state.                            *)
LEMMA BooksHold == Spec => []BooksInv
BY InitBooks, NextBooks, PTL DEF Spec

(* The ledger of a sale follows the document: every group balances, revenue *)
(* is the total less the refunds, cost of goods the recorded cost of the    *)
(* units still out but for half a unit of money per rounding, and a sale    *)
(* that is gone leaves no posting.                                          *)
THEOREM BooksFollowEverySale == Spec => []BooksFollowSale
<1>1. BooksInv => BooksFollowSale
  BY DEF BooksInv, Consistent, Booked, BooksFollowSale, CostCovers, CostFollows
<1> QED
  BY <1>1, BooksHold, PTL

-----------------------------------------------------------------------------
(* What a step keeps of a sale that has returns.                            *)
Frozen(s) ==
    /\ Live(s)'
    /\ LineOf(sales[s])' = LineOf(sales[s])
    /\ TotalOf(sales[s])' = TotalOf(sales[s])
    /\ sales'[s].customer = sales[s].customer
    /\ sales'[s].returned \in sales[s].returned .. sales[s].qty

(* A sale with returns is live and has returned no more than its line.      *)
LEMMA ReturnedIsLive ==
    ASSUME BooksInv, NEW t \in Sales, HasReturns(t)
    PROVE  /\ Live(t) /\ sales[t] \in SaleRows
           /\ sales[t].returned \in Nat /\ sales[t].qty \in Nat
           /\ sales[t].returned <= sales[t].qty
BY DEF BooksInv, PaymentsInv, TypeOK, Consistent, Returnable, HasReturns, SaleRows

(* A row that keeps its line and its status class stays frozen.             *)
LEMMA FrozenKept ==
    ASSUME BooksInv, NEW t \in Sales, HasReturns(t), sales'[t].status \in Qualifying,
           \A field \in {"variant", "qty", "price", "discount", "customer"} :
               sales'[t][field] = sales[t][field],
           sales'[t].returned \in Nat, sales[t].returned <= sales'[t].returned,
           sales'[t].returned <= sales[t].qty
    PROVE  Frozen(t)
<1>1. /\ sales'[t].qty = sales[t].qty /\ sales'[t].price = sales[t].price
      /\ sales'[t].discount = sales[t].discount /\ sales'[t].variant = sales[t].variant
      /\ sales'[t].customer = sales[t].customer
  OBVIOUS
<1>2. sales'[t].returned \in sales[t].returned .. sales[t].qty
  BY ReturnedIsLive
<1> QED
  BY <1>1, <1>2 DEF Frozen, Live, LineOf, TotalOf

(* A step that leaves the row alone.                                        *)
LEMMA FrozenUntouched ==
    ASSUME BooksInv, NEW t \in Sales, HasReturns(t), sales'[t] = sales[t]
    PROVE  Frozen(t)
BY ReturnedIsLive, FrozenKept DEF Live

(* A settlement or a void of a payment.                                     *)
LEMMA FrozenPaid ==
    ASSUME BooksInv, NEW t \in Sales, HasReturns(t), NEW s \in Sales, NEW paid,
           sales' = PaidChangedTo(s, paid)
    PROVE  Frozen(t)
<1>0. sales \in [Sales -> SaleRows]
  BY DEF BooksInv, PaymentsInv, TypeOK
<1>1. /\ \A field \in {"variant", "qty", "price", "discount", "customer"} :
             sales'[t][field] = sales[t][field]
      /\ sales'[t].returned = sales[t].returned
      /\ sales'[t].status = IF t = s THEN StatusFor(paid, TotalOf(sales[s])) ELSE sales[t].status
  BY <1>0 DEF PaidChangedTo, SaleRows
<1>2. sales'[t].status \in Qualifying
  BY <1>1, ReturnedIsLive, StatusType DEF Live
<1> QED
  BY <1>1, <1>2, ReturnedIsLive, FrozenKept

(* A return of the same sale grows returned within the line.                *)
LEMMA FrozenReturn ==
    ASSUME BooksInv, NEW t \in Sales, HasReturns(t), NEW s \in Sales,
           NEW q \in Quantities, NEW first \in Tills, ReturnGoods(s, q, first)
    PROVE  Frozen(t)
<1>0. sales \in [Sales -> SaleRows] /\ q \in Nat \ {0}
  BY DeskAssumption, MaxAmountIsNat DEF BooksInv, PaymentsInv, TypeOK, Amounts
<1>1. /\ Live(s) /\ sales[s].returned + q <= sales[s].qty
      /\ \E refund, ar : sales' = [sales EXCEPT ![s].returned = @ + q, ![s].refunded = @ + refund,
                                                ![s].arBack = @ + ar, ![s].slips = @ + 1]
  BY DEF ReturnGoods
<1>2. /\ \A field \in {"variant", "qty", "price", "discount", "customer", "status"} :
             sales'[t][field] = sales[t][field]
      /\ sales'[t].returned = IF t = s THEN sales[t].returned + q ELSE sales[t].returned
  BY <1>0, <1>1 DEF SaleRows
<1>3. sales'[t].status \in Qualifying
  BY <1>2, ReturnedIsLive DEF Live
<1>4. sales[t].returned \in Nat /\ sales[t].qty \in Nat /\ sales[t].returned <= sales[t].qty
  BY ReturnedIsLive
<1>5. /\ sales'[t].returned \in Nat /\ sales[t].returned <= sales'[t].returned
      /\ sales'[t].returned <= sales[t].qty
  <2>1. CASE t = s
    BY <2>1, <1>0, <1>1, <1>2, <1>4
  <2>2. CASE t # s
    BY <2>2, <1>2, <1>4
  <2> QED
    BY <2>1, <2>2
<1>6. \A field \in {"variant", "qty", "price", "discount", "customer"} :
         sales'[t][field] = sales[t][field]
  BY <1>2
<1> QED
  BY <1>3, <1>5, <1>6, FrozenKept

(* Every operation freezes the sales that have returns.                     *)
LEMMA NextFrozen == BooksInv /\ [Next]_vars => [FrozenByReturns]_vars
<1> SUFFICES ASSUME BooksInv, Next, NEW t \in Sales, HasReturns(t) PROVE Frozen(t)
  BY DEF FrozenByReturns, Frozen
<1>0. TypeOK /\ Live(t) /\ sales[t].returned \in Nat
  BY ReturnedIsLive DEF BooksInv, PaymentsInv
<1>1. CASE Ring
  <2>1. PICK s \in Sales, c \in Parties, v \in Variants, q \in Quantities, price \in Prices,
             discount \in Discounts, tender \in Tenders :
                 CreateSale(s, c, v, q, price, discount, tender)
    BY <1>1 DEF Ring
  <2>2. t # s
    BY <1>0, <2>1 DEF CreateSale, Live, Qualifying
  <2>3. sales'[t] = sales[t]
    BY <1>0, <2>1, <2>2 DEF CreateSale, TypeOK
  <2> QED
    BY <2>3, FrozenUntouched
<1>2. ASSUME NEW s \in Sales, Edit(s) \/ DeleteSale(s) PROVE Frozen(t)
  <2>1. Editable(s) /\ \A u \in Sales \ {s} : sales'[u] = sales[u]
    <3>1. CASE Edit(s)
      <4>1. PICK c \in Parties, replace \in BOOLEAN, v \in Variants, q \in Quantities,
                 price \in Prices, discount \in Discounts \cup {sales[s].discount} :
                     UpdateSale(s, c, replace, v, q, price, discount)
        BY <3>1 DEF Edit
      <4> QED
        BY <1>0, <4>1 DEF UpdateSale, TypeOK
    <3>2. CASE DeleteSale(s)
      BY <1>0, <3>2 DEF DeleteSale, TypeOK
    <3> QED
      BY <1>2, <3>1, <3>2
  <2>2. t # s
    BY <2>1 DEF Editable
  <2> QED
    BY <2>1, <2>2, FrozenUntouched
<1>3. CASE Settle
  <2>1. sales' = sales \/ \E s \in Sales, paid \in Int : sales' = PaidChangedTo(s, paid)
    <3>1. PICK p \in Payments, c \in Customers, s \in Sales \cup {NoSale}, amount \in Amounts,
               till \in Tills : RecordPayment(p, c, s, amount, till)
      BY <1>3 DEF Settle
    <3>2. s \in Sales => sales[s].paid + amount \in Int
      BY <1>0, MaxAmountIsNat DEF TypeOK, SaleRows, Amounts
    <3> QED
      BY <3>1, <3>2 DEF RecordPayment
  <2> QED
    BY <2>1, FrozenPaid, FrozenUntouched
<1>4. ASSUME NEW p \in Payments, VoidPayment(p) PROVE Frozen(t)
  <2>1. payments[p].sale \in Sales \cup {NoSale}
    BY <1>0 DEF TypeOK, PaymentRows
  <2>2. \/ sales' = sales
        \/ \E paid : payments[p].sale \in Sales /\ sales' = PaidChangedTo(payments[p].sale, paid)
    BY <1>4, <2>1 DEF VoidPayment
  <2> QED
    BY <2>2, FrozenPaid, FrozenUntouched
<1>5. CASE Return
  BY <1>5, FrozenReturn DEF Return
<1>6. CASE Supply
  BY <1>6, FrozenUntouched DEF Supply, ReceiveStock, AdjustStock
<1> QED
  BY <1>1, <1>2, <1>3, <1>4, <1>5, <1>6 DEF Next

(* Once a sale has a return, no operation edits it, voids it or re-points   *)
(* its customer, and no more comes back than was sold.                      *)
THEOREM ReturnsFreezeSales == Spec => ReturnedSalesAreFrozen
<1> QED
  BY BooksHold, NextFrozen, PTL DEF Spec, ReturnedSalesAreFrozen

-----------------------------------------------------------------------------
(* The shelf.  StockIsAccountedFor needs that a sale that is not live has   *)
(* no line, and that a line fits the column the sum is taken over.          *)
LineBounded(s) == sales[s].qty \in 0 .. MaxAmount /\ (~Live(s) => sales[s].qty = 0)

ShelfInv == BooksInv /\ StockIsAccountedFor /\ \A s \in Sales : LineBounded(s)

OutOf(row, v) == IF row.variant = v THEN row.qty - row.returned ELSE 0

AllOut(v) == TallyOf([t \in Sales |-> UnitsOut(t, v)], Sales)

(* The units of a sale that are still out are between none and its line.    *)
LEMMA OutBounded ==
    ASSUME TypeOK, NEW s \in Sales, Consistent(s), LineBounded(s), NEW v \in Variants
    PROVE  UnitsOut(s, v) \in 0 .. MaxAmount /\ UnitsOut(s, v) = OutOf(sales[s], v)
<1>1. sales[s].qty \in Nat /\ sales[s].returned \in Nat /\ sales[s].returned <= sales[s].qty
  BY DEF TypeOK, SaleRows, Consistent, Returnable
<1> QED
  BY <1>1, MaxAmountIsNat DEF UnitsOut, OutOf, LineBounded

(* The sum over all sales, one of them taken apart.                         *)
LEMMA SplitOut ==
    ASSUME NEW f, NEW s \in Sales, f[s] \in 0 .. MaxAmount
    PROVE  /\ TallyOf(f, Sales) = TallyOf(f, Sales \ {s}) + f[s]
           /\ TallyOf(f, Sales \ {s}) \in Nat
<1>1. IsFiniteSet(Sales \ {s})
  BY DeskAssumption, FS_Difference
<1>2. s \notin Sales \ {s} /\ (Sales \ {s}) \cup {s} = Sales
  OBVIOUS
<1>3. TallyOf(f, (Sales \ {s}) \cup {s}) = TallyOf(f, Sales \ {s}) + f[s]
  BY <1>1, <1>2, TallyAdd
<1> QED
  BY <1>1, <1>2, <1>3, TallyType

(* A step that takes out of the shelf, in its stock and in the movements of *)
(* one sale, what it adds to that sale keeps the shelf accounted for.       *)
LEMMA ShelfMoves ==
    ASSUME ShelfInv, TypeOK', NEW s \in Sales, Consistent(s)', LineBounded(s)',
           \A t \in Sales \ {s} : sales'[t] = sales[t] /\ moved'[t] = moved[t],
           supplied' = supplied,
           NEW d, d \in [Variants -> Int],
           \A v \in Variants : /\ stock'[v].quantity = stock[v].quantity - d[v]
                               /\ moved'[s][v] = moved[s][v] - d[v]
                               /\ OutOf(sales'[s], v) = OutOf(sales[s], v) + d[v]
    PROVE  StockIsAccountedFor' /\ \A t \in Sales : LineBounded(t)'
<1>0. TypeOK /\ Consistent(s) /\ LineBounded(s)
  BY DEF ShelfInv, BooksInv, PaymentsInv
<1>1. ASSUME NEW t \in Sales \ {s} PROVE LineBounded(t)'
  BY DEF ShelfInv, LineBounded, Live
<1>2. ASSUME NEW v \in Variants
      PROVE  /\ \A t \in Sales : moved'[t][v] = - UnitsOut(t, v)'
             /\ stock'[v].quantity = supplied'[v] - AllOut(v)'
  <2> DEFINE f == [t \in Sales |-> UnitsOut(t, v)]
             g == [t \in Sales |-> UnitsOut(t, v)']
  <2>1. f[s] \in 0 .. MaxAmount /\ f[s] = OutOf(sales[s], v)
    BY <1>0, OutBounded
  <2>2. g[s] \in 0 .. MaxAmount /\ g[s] = OutOf(sales'[s], v)
    <3>1. sales'[s].qty \in Nat /\ sales'[s].returned \in Nat
          /\ sales'[s].returned <= sales'[s].qty
      BY DEF TypeOK, SaleRows, Consistent, Returnable
    <3> QED
      BY <3>1, MaxAmountIsNat DEF UnitsOut, OutOf, LineBounded
  <2>3. \A t \in Sales \ {s} : g[t] = f[t]
    BY DEF UnitsOut
  <2>4. /\ TallyOf(f, Sales) = TallyOf(f, Sales \ {s}) + f[s]
        /\ TallyOf(f, Sales \ {s}) \in Nat
    <3> HIDE DEF f, g
    <3> QED
      BY <2>1, SplitOut
  <2>5. TallyOf(g, Sales) = TallyOf(g, Sales \ {s}) + g[s]
    <3> HIDE DEF f, g
    <3> QED
      BY <2>2, SplitOut
  <2>6. TallyOf(g, Sales \ {s}) = TallyOf(f, Sales \ {s})
    <3> HIDE DEF f, g
    <3> QED
      BY <2>3, TallySame
  <2>7. AllOut(v) = TallyOf(f, Sales) /\ AllOut(v)' = TallyOf(g, Sales)
    BY DEF AllOut
  <2>8. /\ stock[v].quantity = supplied[v] - TallyOf(f, Sales)
        /\ \A t \in Sales : moved[t][v] = - f[t]
    BY DEF ShelfInv, StockIsAccountedFor
  <2>9. /\ stock[v].quantity \in Nat /\ supplied[v] \in Int /\ d[v] \in Int
    BY <1>0 DEF TypeOK
  <2>10. \A t \in Sales : moved'[t][v] = - g[t]
    <3>1. moved'[s][v] = - g[s]
      <4>1. moved'[s][v] = - f[s] - d[v] /\ g[s] = f[s] + d[v]
        BY <2>1, <2>2, <2>8
      <4>2. f[s] \in Int /\ d[v] \in Int
        BY <2>1, <2>9, MaxAmountIsNat
      <4> HIDE DEF f, g
      <4> QED
        BY <4>1, <4>2
    <3> QED
      BY <2>3, <2>8, <3>1
  <2>11. stock'[v].quantity = supplied[v] - TallyOf(g, Sales)
    <3>1. /\ stock'[v].quantity = stock[v].quantity - d[v]
          /\ g[s] = f[s] + d[v]
      BY <2>1, <2>2
    <3>2. f[s] \in Int
      BY <2>1, MaxAmountIsNat
    <3> HIDE DEF f, g
    <3>3. TallyOf(g, Sales) = TallyOf(f, Sales) + d[v] /\ TallyOf(f, Sales) \in Int
      BY <2>4, <2>5, <2>6, <2>9, <3>1, <3>2
    <3> QED
      BY <2>8, <2>9, <3>1, <3>3
  <2> QED
    BY <2>7, <2>10, <2>11
<1> QED
  BY <1>1, <1>2 DEF StockIsAccountedFor, AllOut

(* A step that moves nothing and keeps the lines.                           *)
LEMMA ShelfKept ==
    ASSUME ShelfInv, moved' = moved,
           \A v \in Variants : stock'[v].quantity - supplied'[v] = stock[v].quantity - supplied[v],
           TypeOK',
           \A t \in Sales : Live(t)' = Live(t) /\
              \A field \in {"variant", "qty", "returned"} : sales'[t][field] = sales[t][field]
    PROVE  StockIsAccountedFor' /\ \A t \in Sales : LineBounded(t)'
<1>1. \A t \in Sales : /\ sales'[t].variant = sales[t].variant /\ sales'[t].qty = sales[t].qty
                       /\ sales'[t].returned = sales[t].returned
  OBVIOUS
<1>2. \A t \in Sales : LineBounded(t)'
  BY <1>1 DEF ShelfInv, LineBounded
<1>3. ASSUME NEW v \in Variants
      PROVE  /\ \A t \in Sales : moved'[t][v] = - UnitsOut(t, v)'
             /\ stock'[v].quantity = supplied'[v] - AllOut(v)'
  <2>1. \A t \in Sales : UnitsOut(t, v)' = UnitsOut(t, v)
    BY <1>1 DEF UnitsOut
  <2>2. AllOut(v)' = AllOut(v)
    BY <2>1 DEF AllOut
  <2>3. /\ stock[v].quantity = supplied[v] - AllOut(v)
        /\ \A t \in Sales : moved[t][v] = - UnitsOut(t, v)
    BY DEF ShelfInv, StockIsAccountedFor, AllOut
  <2>4. /\ stock[v].quantity \in Nat /\ stock'[v].quantity \in Nat
        /\ supplied[v] \in Int /\ supplied'[v] \in Int
    BY DEF ShelfInv, BooksInv, PaymentsInv, TypeOK
  <2>5. AllOut(v) \in Int
    BY DeskAssumption, TallyType DEF AllOut
  <2>6. stock'[v].quantity - supplied'[v] = stock[v].quantity - supplied[v]
    OBVIOUS
  <2>7. stock'[v].quantity = supplied'[v] - AllOut(v)
    BY <2>3, <2>4, <2>5, <2>6
  <2> QED
    BY <2>1, <2>2, <2>3, <2>7
<1> QED
  BY <1>2, <1>3 DEF StockIsAccountedFor, AllOut

(* Uncosted movements, written out.                                         *)
LEMMA ShiftMoves ==
    ASSUME TypeOK, NEW s \in Sales, NEW need, need \in [Variants -> Int]
    PROVE  /\ \A w \in Variants : /\ Shift(need)[w].quantity = stock[w].quantity - need[w]
                                  /\ MoveFor(s, need)[s][w] = moved[s][w] - need[w]
           /\ \A t \in Sales \ {s} : MoveFor(s, need)[t] = moved[t]
<1>1. /\ \A w \in Variants : stock[w] \in [quantity : Nat, average : Nat]
      /\ moved \in [Sales -> [Variants -> Int]]
  BY DEF TypeOK
<1> QED
  BY <1>1 DEF Shift, MoveFor

(* A new sale takes its line off the shelf.                                 *)
LEMMA CreateSaleShelf ==
    ASSUME ShelfInv, NEW s \in Sales, NEW c \in Parties, NEW v \in Variants,
           NEW q \in Quantities, NEW price \in Prices, NEW discount \in Discounts,
           NEW tender \in Tenders,
           CreateSale(s, c, v, q, price, discount, tender)
    PROVE  StockIsAccountedFor' /\ \A t \in Sales : LineBounded(t)'
<1> DEFINE paid  == TallyOf([p \in DOMAIN tender |-> tender[p].amount], DOMAIN tender)
           row   == [BlankSale("partial") EXCEPT
                        !.customer = c, !.variant = v, !.qty = q, !.price = price,
                        !.discount = discount, !.cost = SnapshotCost(v), !.paid = paid]
           new   == [row EXCEPT !.status = StatusFor(paid, TotalOf(row))]
           need  == LineOf(row)
<1>0. TypeOK /\ TypeOK' /\ Consistent(s)' /\ q \in 0 .. MaxAmount
  BY CreateSaleType, CreateSaleBooks, DeskAssumption, MaxAmountIsNat
  DEF ShelfInv, BooksInv, PaymentsInv, Amounts
<1>1. /\ sales[s].status = "unused"
      /\ sales' = [sales EXCEPT ![s] = new]
      /\ stock' = Shift(need) /\ moved' = MoveFor(s, need) /\ supplied' = supplied
  BY DEF CreateSale
<1>2. row.variant = v /\ row.qty = q
  BY DEF BlankSale
<1>3. new.variant = v /\ new.qty = q /\ new.returned = 0 /\ new.status \in Qualifying
  BY StatusType DEF BlankSale
<1>4. need = [w \in Variants |-> IF w = v THEN q ELSE 0]
  BY <1>2 DEF LineOf
<1> HIDE DEF need, new, row
<1>5. need \in [Variants -> Int]
  BY <1>0, <1>4
<1>6. /\ sales'[s] = new /\ \A t \in Sales \ {s} : sales'[t] = sales[t]
  BY <1>0, <1>1 DEF TypeOK
<1>7. sales[s].qty = 0 /\ sales[s].returned = 0
  <2>1. ~Live(s)
    BY <1>1 DEF Live, Qualifying
  <2> QED
    BY <2>1 DEF ShelfInv, LineBounded, BooksInv, Consistent, Returnable
<1>8. LineBounded(s)'
  BY <1>0, <1>3, <1>6 DEF LineBounded, Live
<1>9. \A w \in Variants : OutOf(sales'[s], w) = OutOf(sales[s], w) + need[w]
  BY <1>0, <1>3, <1>4, <1>6, <1>7 DEF OutOf
<1> QED
  BY <1>0, <1>1, <1>5, <1>6, <1>8, <1>9, ShiftMoves, ShelfMoves

(* An edit moves the difference of the two lines.                           *)
LEMMA UpdateSaleShelf ==
    ASSUME ShelfInv, NEW s \in Sales, NEW c \in Parties, NEW replace \in BOOLEAN,
           NEW v \in Variants, NEW q \in Quantities, NEW price \in Prices,
           NEW discount \in Discounts \cup {sales[s].discount},
           UpdateSale(s, c, replace, v, q, price, discount)
    PROVE  StockIsAccountedFor' /\ \A t \in Sales : LineBounded(t)'
<1> DEFINE old  == sales[s]
           line == IF replace
                   THEN [old EXCEPT !.variant = v, !.qty = q, !.price = price,
                                    !.cost = SnapshotCost(v)]
                   ELSE old
           row  == [line EXCEPT !.customer = c, !.discount = discount]
           new  == [row EXCEPT !.status = StatusFor(old.paid, TotalOf(row))]
           need == [w \in Variants |-> LineOf(row)[w] - LineOf(old)[w]]
<1>0. /\ TypeOK /\ TypeOK' /\ Consistent(s)' /\ Consistent(s) /\ LineBounded(s)
      /\ q \in 0 .. MaxAmount /\ old \in SaleRows
  BY UpdateSaleType, UpdateSaleBooks, DeskAssumption, MaxAmountIsNat
  DEF ShelfInv, BooksInv, PaymentsInv, Amounts, TypeOK
<1>1. /\ Editable(s)
      /\ sales' = [sales EXCEPT ![s] = new]
      /\ stock' = Shift(need) /\ moved' = MoveFor(s, need) /\ supplied' = supplied
  BY DEF UpdateSale
<1>2. old.returned = 0
  BY <1>0, <1>1 DEF Editable, HasReturns, SaleRows
<1>3. /\ row.variant \in Variants /\ row.qty \in 0 .. MaxAmount
      /\ new.variant = row.variant /\ new.qty = row.qty /\ new.returned = 0
      /\ new.status \in Qualifying
  <2>1. StatusFor(old.paid, TotalOf(row)) \in Qualifying
    BY StatusType
  <2>2. CASE replace
    BY <1>0, <1>2, <2>1, <2>2 DEF SaleRows
  <2>3. CASE ~replace
    BY <1>0, <1>2, <2>1, <2>3 DEF SaleRows, LineBounded
  <2> QED
    BY <2>2, <2>3
<1>4. /\ need = [w \in Variants |-> (IF w = row.variant THEN row.qty ELSE 0)
                                    - (IF w = old.variant THEN old.qty ELSE 0)]
      /\ old.qty \in Nat
  BY <1>0 DEF LineOf, SaleRows
<1> HIDE DEF need, new, row, line
<1>5. need \in [Variants -> Int]
  BY <1>3, <1>4, MaxAmountIsNat
<1>6. sales'[s] = new /\ \A t \in Sales \ {s} : sales'[t] = sales[t]
  BY <1>0, <1>1 DEF TypeOK
<1>7. LineBounded(s)'
  BY <1>3, <1>6 DEF LineBounded, Live
<1>8. \A w \in Variants : OutOf(sales'[s], w) = OutOf(sales[s], w) + need[w]
  BY <1>2, <1>3, <1>4, <1>6, MaxAmountIsNat DEF OutOf
<1> QED
  BY <1>0, <1>1, <1>5, <1>6, <1>7, <1>8, ShiftMoves, ShelfMoves

(* A void puts its line back.                                               *)
LEMMA DeleteSaleShelf ==
    ASSUME ShelfInv, NEW s \in Sales, DeleteSale(s)
    PROVE  StockIsAccountedFor' /\ \A t \in Sales : LineBounded(t)'
<1> DEFINE old  == sales[s]
           need == [w \in Variants |-> - LineOf(old)[w]]
<1>0. /\ TypeOK /\ TypeOK' /\ Consistent(s)' /\ old \in SaleRows
  BY DeleteSaleType, DeleteSaleBooks DEF ShelfInv, BooksInv, PaymentsInv, TypeOK
<1>1. /\ Editable(s)
      /\ sales' = [sales EXCEPT ![s] = BlankSale("deleted")]
      /\ stock' = Shift(need) /\ moved' = MoveFor(s, need) /\ supplied' = supplied
  BY DEF DeleteSale
<1>2. old.returned = 0 /\ old.qty \in Nat
  BY <1>0, <1>1 DEF Editable, HasReturns, SaleRows
<1>3. need = [w \in Variants |-> - (IF w = old.variant THEN old.qty ELSE 0)]
  BY DEF LineOf
<1> HIDE DEF need
<1>4. need \in [Variants -> Int]
  BY <1>2, <1>3
<1>5. /\ sales'[s].qty = 0 /\ sales'[s].returned = 0
      /\ \A t \in Sales \ {s} : sales'[t] = sales[t]
  BY <1>0, <1>1 DEF TypeOK, BlankSale
<1>6. LineBounded(s)'
  BY <1>5, MaxAmountIsNat DEF LineBounded
<1>7. \A w \in Variants : OutOf(sales'[s], w) = OutOf(sales[s], w) + need[w]
  BY <1>2, <1>3, <1>5 DEF OutOf
<1> QED
  BY <1>0, <1>1, <1>4, <1>5, <1>6, <1>7, ShiftMoves, ShelfMoves

(* A return puts its units back, costed.                                    *)
LEMMA ReturnGoodsShelf ==
    ASSUME ShelfInv, NEW s \in Sales, NEW q \in Quantities, NEW first \in Tills,
           ReturnGoods(s, q, first)
    PROVE  StockIsAccountedFor' /\ \A t \in Sales : LineBounded(t)'
<1> DEFINE row  == sales[s]
           need == [w \in Variants |-> IF w = row.variant THEN - q ELSE 0]
<1>0. /\ TypeOK /\ TypeOK' /\ Consistent(s)' /\ LineBounded(s) /\ row \in SaleRows
      /\ q \in Nat
  BY ReturnGoodsType, ReturnGoodsBooks, DeskAssumption, MaxAmountIsNat
  DEF ShelfInv, BooksInv, PaymentsInv, TypeOK, Amounts
<1>1. /\ Live(s)
      /\ \E refund, ar : sales' = [sales EXCEPT ![s].returned = @ + q,
                                        ![s].refunded = @ + refund, ![s].arBack = @ + ar,
                                        ![s].slips = @ + 1]
      /\ stock' = CostedReceipt(row.variant, q, row.cost)
      /\ moved' = [moved EXCEPT ![s][row.variant] = @ + q] /\ supplied' = supplied
  BY DEF ReturnGoods
<1>2. need \in [Variants -> Int] /\ row.variant \in Variants /\ row.returned \in Nat
      /\ row.qty \in Nat
  BY <1>0 DEF SaleRows
<1>3. /\ sales'[s].qty = row.qty /\ sales'[s].returned = row.returned + q
      /\ sales'[s].variant = row.variant /\ sales'[s].status = row.status
      /\ \A t \in Sales \ {s} : sales'[t] = sales[t]
  <2>1. PICK refund, ar : sales' = [sales EXCEPT ![s].returned = @ + q,
                                        ![s].refunded = @ + refund, ![s].arBack = @ + ar,
                                        ![s].slips = @ + 1]
    BY <1>1
  <2>2. sales \in [Sales -> SaleRows]
    BY <1>0 DEF TypeOK
  <2>3. sales'[s] = [row EXCEPT !.returned = @ + q, !.refunded = @ + refund,
                                !.arBack = @ + ar, !.slips = @ + 1]
    BY <2>1, <2>2
  <2> QED
    BY <1>0, <2>1, <2>2, <2>3 DEF SaleRows
<1>4. LineBounded(s)'
  BY <1>0, <1>3 DEF LineBounded, Live
<1>5. \A w \in Variants : /\ stock'[w].quantity = stock[w].quantity - need[w]
                          /\ moved'[s][w] = moved[s][w] - need[w]
                          /\ OutOf(sales'[s], w) = OutOf(sales[s], w) + need[w]
  <2>1. ASSUME NEW w \in Variants PROVE stock'[w].quantity = stock[w].quantity - need[w]
    BY <1>0, <1>1, <1>2 DEF CostedReceipt, TypeOK
  <2>2. ASSUME NEW w \in Variants PROVE moved'[s][w] = moved[s][w] - need[w]
    BY <1>0, <1>1, <1>2 DEF TypeOK
  <2>3. ASSUME NEW w \in Variants PROVE OutOf(sales'[s], w) = OutOf(sales[s], w) + need[w]
    BY <1>0, <1>2, <1>3 DEF OutOf
  <2> QED
    BY <2>1, <2>2, <2>3
<1>6. \A t \in Sales \ {s} : sales'[t] = sales[t] /\ moved'[t] = moved[t]
  BY <1>0, <1>1, <1>3 DEF TypeOK
<1>7. supplied' = supplied
  BY <1>1
<1>8. ShelfInv /\ TypeOK' /\ Consistent(s)' /\ need \in [Variants -> Int]
  BY <1>0, <1>2
<1> HIDE DEF need, row
<1> QED
  BY <1>4, <1>5, <1>6, <1>7, <1>8, ShelfMoves

(* Settlements and voids of payments move nothing.                          *)
LEMMA PaidChangedShelf ==
    ASSUME ShelfInv, TypeOK', UNCHANGED <<stock, moved, supplied>>,
           \/ sales' = sales
           \/ \E s \in Sales : \E paid : Live(s) /\ sales' = PaidChangedTo(s, paid)
    PROVE  StockIsAccountedFor' /\ \A t \in Sales : LineBounded(t)'
<1>0. sales \in [Sales -> SaleRows]
  BY DEF ShelfInv, BooksInv, PaymentsInv, TypeOK
<1>1. ASSUME NEW t \in Sales
      PROVE  Live(t)' = Live(t) /\ \A field \in {"variant", "qty", "returned"} :
                                       sales'[t][field] = sales[t][field]
  <2>1. CASE sales' = sales
    BY <2>1 DEF Live
  <2>2. ASSUME NEW s \in Sales, NEW paid, Live(s), sales' = PaidChangedTo(s, paid)
        PROVE  Live(t)' = Live(t) /\ \A field \in {"variant", "qty", "returned"} :
                                         sales'[t][field] = sales[t][field]
    <3>1. /\ \A field \in {"variant", "qty", "returned"} : sales'[t][field] = sales[t][field]
          /\ sales'[t].status = IF t = s THEN StatusFor(paid, TotalOf(sales[s]))
                                ELSE sales[t].status
      BY <1>0, <2>2 DEF PaidChangedTo, SaleRows
    <3> QED
      BY <2>2, <3>1, StatusType DEF Live
  <2> QED
    BY <2>1, <2>2
<1> QED
  BY <1>1, ShelfKept

(* A settlement names a live sale, and so does the payment a void removes.  *)
LEMMA PaymentShelf ==
    ASSUME ShelfInv, TypeOK', Settle \/ \E p \in Payments : VoidPayment(p)
    PROVE  StockIsAccountedFor' /\ \A t \in Sales : LineBounded(t)'
<1>1. UNCHANGED <<stock, moved, supplied>>
  BY DEF Settle, RecordPayment, VoidPayment
<1>2. CASE Settle
  <2>1. PICK p \in Payments, c \in Customers, s \in Sales \cup {NoSale}, amount \in Amounts,
             till \in Tills : RecordPayment(p, c, s, amount, till)
    BY <1>2 DEF Settle
  <2>2. sales' = sales \/ (s \in Sales /\ Live(s) /\ sales' = PaidChangedTo(s, sales[s].paid + amount))
    BY <2>1 DEF RecordPayment
  <2> QED
    BY <1>1, <2>2, PaidChangedShelf
<1>3. ASSUME NEW p \in Payments, VoidPayment(p)
      PROVE  StockIsAccountedFor' /\ \A t \in Sales : LineBounded(t)'
  <2> DEFINE s == payments[p].sale
             left == Excess(sales[s].paid, payments[p].amount)
  <2>1. payments[p] \in PaymentRows
    BY DEF ShelfInv, BooksInv, PaymentsInv, TypeOK
  <2>2. sales' = sales \/ (s \in Sales /\ Live(s) /\ sales' = PaidChangedTo(s, left))
    BY <1>3, <2>1
    DEF VoidPayment, ShelfInv, BooksInv, PaymentsInv, PaymentsNameTheirSale, PaymentRows
  <2> QED
    BY <1>1, <2>2, PaidChangedShelf
<1> QED
  BY <1>2, <1>3

(* Units that come onto the shelf are counted as supplied.                  *)
LEMMA Supplied ==
    ASSUME TypeOK, NEW v \in Variants, NEW d \in Int,
           supplied' = [supplied EXCEPT ![v] = @ + d],
           \A u \in Variants :
               stock'[u].quantity = stock[u].quantity + IF u = v THEN d ELSE 0,
           NEW w \in Variants
    PROVE  stock'[w].quantity - supplied'[w] = stock[w].quantity - supplied[w]
<1>1. stock[w].quantity \in Nat /\ supplied[w] \in Int /\ supplied \in [Variants -> Int]
  BY DEF TypeOK
<1>2. supplied'[w] = supplied[w] + IF w = v THEN d ELSE 0
  BY <1>1
<1> QED
  BY <1>1, <1>2

(* A receipt or an adjustment is a supply.                                  *)
LEMMA SupplyShelf ==
    ASSUME ShelfInv, TypeOK', Supply
    PROVE  StockIsAccountedFor' /\ \A t \in Sales : LineBounded(t)'
<1>0. /\ TypeOK
      /\ stock \in [Variants -> [quantity : Nat, average : Nat]]
  BY DEF ShelfInv, BooksInv, PaymentsInv, TypeOK
<1>1. moved' = moved /\ sales' = sales
  BY DEF Supply, ReceiveStock, AdjustStock
<1>2. ASSUME NEW w \in Variants
      PROVE  stock'[w].quantity - supplied'[w] = stock[w].quantity - supplied[w]
  <2>1. PICK v \in Variants :
            \/ \E q \in Quantities, cost \in Costs : ReceiveStock(v, q, cost)
            \/ \E q \in Quantities : AdjustStock(v, q) \/ AdjustStock(v, -q)
    BY DEF Supply
  <2>2. \A q \in Quantities : q \in Int /\ -q \in Int
    BY DeskAssumption, MaxAmountIsNat DEF Amounts
  <2>3. ASSUME NEW q \in Quantities, NEW cost \in Costs, ReceiveStock(v, q, cost)
        PROVE  stock'[w].quantity - supplied'[w] = stock[w].quantity - supplied[w]
    <3>1. \A u \in Variants : stock'[u].quantity
                                = stock[u].quantity + IF u = v THEN q ELSE 0
      BY <1>0, <2>2, <2>3 DEF ReceiveStock, CostedReceipt
    <3> QED
      BY <1>0, <2>2, <2>3, <3>1, Supplied DEF ReceiveStock
  <2>4. ASSUME NEW d \in Int, AdjustStock(v, d)
        PROVE  stock'[w].quantity - supplied'[w] = stock[w].quantity - supplied[w]
    <3>1. \A u \in Variants : stock'[u].quantity
                                = stock[u].quantity + IF u = v THEN d ELSE 0
      BY <1>0, <2>4 DEF AdjustStock
    <3> QED
      BY <1>0, <2>4, <3>1, Supplied DEF AdjustStock
  <2> QED
    BY <2>1, <2>2, <2>3, <2>4
<1> QED
  BY <1>1, <1>2, ShelfKept DEF Live

(* Every operation keeps the shelf accounted for.                           *)
LEMMA NextShelf == ShelfInv /\ [Next]_vars => ShelfInv'
<1> SUFFICES ASSUME ShelfInv, [Next]_vars
             PROVE  StockIsAccountedFor' /\ \A t \in Sales : LineBounded(t)'
  BY NextBooks DEF ShelfInv
<1> DEFINE Goal == StockIsAccountedFor' /\ \A t \in Sales : LineBounded(t)'
<1>0. TypeOK'
  BY NextType DEF ShelfInv, BooksInv, PaymentsInv
<1>1. CASE Ring
  BY <1>1, CreateSaleShelf DEF Ring
<1>2. ASSUME NEW s \in Sales, Edit(s) PROVE Goal
  BY <1>2, UpdateSaleShelf DEF Edit
<1>3. ASSUME NEW s \in Sales, DeleteSale(s) PROVE Goal
  BY <1>3, DeleteSaleShelf
<1>4. CASE Settle \/ \E p \in Payments : VoidPayment(p)
  BY <1>0, <1>4, PaymentShelf
<1>5. CASE Return
  BY <1>5, ReturnGoodsShelf DEF Return
<1>6. CASE Supply
  BY <1>0, <1>6, SupplyShelf
<1>7. CASE UNCHANGED vars
  BY <1>0, <1>7, ShelfKept DEF vars, Live
<1> QED
  BY <1>1, <1>2, <1>3, <1>4, <1>5, <1>6, <1>7 DEF Next

(* An empty shelf is accounted for.                                         *)
LEMMA InitShelf == Init => ShelfInv
<1> SUFFICES ASSUME Init PROVE StockIsAccountedFor /\ \A t \in Sales : LineBounded(t)
  BY InitBooks DEF ShelfInv
<1>1. \A t \in Sales : LineBounded(t)
  BY MaxAmountIsNat DEF Init, LineBounded, BlankSale
<1>2. \A t \in Sales, v \in Variants : UnitsOut(t, v) = 0 /\ moved[t][v] = 0
  BY DEF Init, UnitsOut, BlankSale
<1>3. ASSUME NEW v \in Variants PROVE AllOut(v) = 0
  <2> DEFINE f == [t \in Sales |-> UnitsOut(t, v)]
  <2>1. Units(f, Sales) = {}
    BY <1>2, MaxAmountIsNat DEF Units, Amounts
  <2>2. TallyOf(f, Sales) = 0
    BY <2>1, FS_EmptySet DEF TallyOf
  <2> QED
    BY <2>2 DEF AllOut
<1>4. ASSUME NEW v \in Variants
      PROVE  stock[v].quantity = supplied[v] - AllOut(v)
  BY <1>3 DEF Init
<1> QED
  BY <1>1, <1>2, <1>4 DEF StockIsAccountedFor, AllOut

(* The stock of a variant is what was received and corrected, less what the *)
(* live sales still hold; what each sale moved nets to exactly that.        *)
THEOREM ShelfIsAccountedFor == Spec => []StockIsAccountedFor
<1>1. ShelfInv => StockIsAccountedFor
  BY DEF ShelfInv
<1> QED
  BY <1>1, InitShelf, NextShelf, PTL DEF Spec

-----------------------------------------------------------------------------
(* What the returns of a sale took off its receivable and gave back in      *)
(* money is what their groups say, and what they refunded is the share of   *)
(* the units returned in price and discount, but for what each of them      *)
(* rounded.                                                                 *)
Slope(row) == row.qty * row.price - QuantityScale * row.discount

RefundCovers(row) ==
    2 * ((QuantityScale * row.qty) * row.refunded)
        <= 2 * (row.returned * Slope(row))
             + (QuantityScale * row.qty) * (row.slips * Roundings(row))

Refunds(row, group) ==
    /\ row.arBack = group.ar
    /\ row.refunded = group.revenue
    /\ RefundCovers(row)

RefundInv == BooksInv /\ \A s \in Sales : Refunds(sales[s], books[s].returns)

(* The part of a sale's settlements the ledger has a group for.             *)
PostedOn(rows, s) == {p \in AllocatedIn(rows, s) : rows[p].posted}

PostedSum(rows, s) == TallyOf(AmountsIn(rows), PostedOn(rows, s))

(* What a step may do to the ledger's receivable of a sale, and to the      *)
(* money handed back for it.                                                *)
ReceivableStep(s) == SaleAgrees(s) /\ ~SaleAgrees(s)' => EditSettled(s) \/ VoidTill(s)

RefundStep(s) ==
    ~OverRefunded(s) /\ OverRefunded(s)' => VoidOn(s)

Reckoned(s) ==
    Refunds(sales[s], books[s].returns)' /\ ReceivableStep(s) /\ RefundStep(s)

(* What a sale may be off by is a natural number.                           *)
LEMMA RoundedType ==
    ASSUME NEW row \in SaleRows
    PROVE  /\ Roundings(row) \in {1, 2} /\ row.slips \in Nat
           /\ row.slips * Roundings(row) \in Nat
           /\ Rounded(row) = 1 + row.slips * Roundings(row)
BY DEF SaleRows, Roundings, Rounded

(* One return refunds the share of its units, but for what it rounds.       *)
LEMMA RefundSlope ==
    ASSUME NEW row \in SaleRows, NEW q \in Nat \ {0}, q <= row.qty, RefundFor(row, q) > 0
    PROVE  2 * ((QuantityScale * row.qty) * RefundFor(row, q))
               <= 2 * (q * Slope(row)) + (QuantityScale * row.qty) * Roundings(row)
<1> DEFINE gross == Valued(q, row.price)
           share == RoundDiv(row.discount * q, row.qty)
           m == row.qty
           k == QuantityScale
<1>1. /\ row.price \in Nat /\ row.discount \in Nat /\ row.qty \in Nat \ {0}
      /\ m \in Nat \ {0} /\ k \in Nat \ {0} /\ row.discount * q \in Nat
  BY InventoryAssumption DEF SaleRows
<1>2. /\ gross \in Nat /\ share \in Nat
      /\ 2 * (k * gross) <= 2 * (q * row.price) + k
      /\ 2 * (row.discount * q) - m <= 2 * (m * share)
  BY <1>1, ValuedType, RoundDivType, RoundDivNear
<1>3. RefundFor(row, q) = gross - share
  <2>1. RefundFor(row, q) = gross - Least(gross, share)
    BY DEF RefundFor
  <2> HIDE DEF gross, share
  <2> QED
    BY <1>2, <2>1 DEF Least
<1>4. \A a, b, c \in Int : a <= b /\ c >= 0 => c * a <= c * b
  OBVIOUS
<1>5. 2 * ((k * m) * gross) <= 2 * (q * (m * row.price)) + k * m
  <2> HIDE DEF gross, m, k
  <2>1. m * (2 * (k * gross)) <= m * (2 * (q * row.price) + k)
    <3> DEFINE a == 2 * (k * gross)
               b == 2 * (q * row.price) + k
    <3>1. a \in Int /\ b \in Int /\ m \in Int /\ m >= 0 /\ a <= b
      BY <1>1, <1>2
    <3> HIDE DEF a, b
    <3>2. m * a <= m * b
      BY <1>4, <3>1
    <3> QED
      BY <3>2 DEF a, b
  <2>2. m * (2 * (k * gross)) = 2 * ((k * m) * gross)
    BY <1>1, <1>2
  <2>3. m * (2 * (q * row.price) + k) = 2 * (q * (m * row.price)) + k * m
    <3> DEFINE c == row.price
    <3>1. c \in Nat
      BY <1>1
    <3> HIDE DEF c
    <3>2. m * (2 * (q * c) + k) = 2 * (q * (m * c)) + k * m
      BY <1>1, <3>1
    <3> QED
      BY <3>2 DEF c
  <2> QED
    BY <2>1, <2>2, <2>3
<1>6. 2 * (q * (k * row.discount)) - k * m <= 2 * ((k * m) * share)
  <2> DEFINE c == row.discount
  <2>0. c \in Nat /\ 2 * (c * q) - m <= 2 * (m * share)
    BY <1>1, <1>2
  <2> HIDE DEF share, m, k, c
  <2>1. k * (2 * (c * q) - m) <= k * (2 * (m * share))
    <3> DEFINE a == 2 * (c * q) - m
               b == 2 * (m * share)
    <3>1. a \in Int /\ b \in Int /\ k \in Int /\ k >= 0 /\ a <= b
      BY <1>1, <1>2, <2>0
    <3> HIDE DEF a, b
    <3>2. k * a <= k * b
      BY <1>4, <3>1
    <3> QED
      BY <3>2 DEF a, b
  <2>2. k * (2 * (m * share)) = 2 * ((k * m) * share)
    BY <1>1, <1>2
  <2>3. k * (2 * (c * q) - m) = 2 * (q * (k * c)) - k * m
    BY <1>1, <2>0
  <2>4. 2 * (q * (k * c)) - k * m <= 2 * ((k * m) * share)
    BY <2>1, <2>2, <2>3
  <2> QED
    BY <2>4 DEF c
<1> DEFINE g == (k * m) * gross
           h == (k * m) * share
           x == q * (m * row.price)
           y == q * (k * row.discount)
           z == k * m
<1>7. g \in Int /\ h \in Nat /\ x \in Int /\ y \in Int /\ z \in Nat
  <2> HIDE DEF gross, share, m, k
  <2>1. k * m \in Nat
    BY <1>1
  <2>2. m * row.price \in Nat /\ k * row.discount \in Nat
    BY <1>1
  <2> QED
    BY <1>1, <1>2, <2>1, <2>2
<1>8. (k * m) * (gross - share) = g - h
  <2> HIDE DEF gross, share, m, k
  <2> QED
    BY <1>1, <1>2
<1>9. q * Slope(row) = x - y
  <2>1. m * row.price \in Int /\ k * row.discount \in Int
    BY <1>1
  <2>2. \A a, b, c \in Int : c * (a - b) = c * a - c * b
    OBVIOUS
  <2> DEFINE a == m * row.price
             b == k * row.discount
  <2>3. q * (a - b) = q * a - q * b
    <3> HIDE DEF a, b
    <3>1. a \in Int /\ b \in Int
      BY <2>1 DEF a, b
    <3> QED
      BY <2>2, <3>1
  <2> QED
    BY <2>3 DEF Slope
<1>10. CASE row.discount = 0
  <2>1. Roundings(row) = 1
    BY <1>10 DEF Roundings
  <2>2. y = 0
    BY <1>1, <1>10
  <2>3. 2 * g <= 2 * x + z
    BY <1>5
  <2> HIDE DEF g, h, x, y
  <2>4. 2 * (g - h) <= 2 * (x - y) + z
    <3> HIDE DEF z
    <3> QED
      BY <1>7, <2>2, <2>3
  <2>5. z * Roundings(row) = z
    BY <1>7, <2>1
  <2> QED
    BY <1>3, <1>8, <1>9, <2>4, <2>5
<1>11. CASE row.discount # 0
  <2>1. Roundings(row) = 2
    BY <1>1, <1>11 DEF Roundings
  <2>2. 2 * g <= 2 * x + z /\ 2 * y - z <= 2 * h
    BY <1>5, <1>6
  <2> HIDE DEF g, h, x, y
  <2>3. 2 * (g - h) <= 2 * (x - y) + 2 * z
    <3> HIDE DEF z
    <3> QED
      BY <1>7, <2>2
  <2>4. z * Roundings(row) = 2 * z
    BY <1>7, <2>1
  <2> QED
    BY <1>3, <1>8, <1>9, <2>3, <2>4
<1> QED
  BY <1>10, <1>11

(* The refunds of a sale add up to no more than its share of the units.     *)
LEMMA RefundsAdd ==
    ASSUME NEW row \in SaleRows, RefundCovers(row), NEW q \in Nat \ {0}, q <= row.qty,
           NEW refund \in Nat, refund = RefundFor(row, q), refund > 0,
           NEW new, new.qty = row.qty, new.price = row.price, new.discount = row.discount,
           new.returned = row.returned + q, new.refunded = row.refunded + refund,
           new.slips = row.slips + 1
    PROVE  RefundCovers(new)
<1> DEFINE m == QuantityScale * row.qty
           c == Slope(row)
           k == Roundings(row)
           n == row.slips
<1>1. /\ m \in Nat /\ c \in Int /\ k \in Nat /\ n \in Nat
      /\ row.returned \in Nat /\ row.refunded \in Nat
  <2>1. /\ row.qty \in Nat /\ row.price \in Nat /\ row.discount \in Nat
        /\ QuantityScale \in Nat /\ row.returned \in Nat /\ row.refunded \in Nat
    BY InventoryAssumption DEF SaleRows
  <2>2. m \in Nat /\ row.qty * row.price \in Nat /\ QuantityScale * row.discount \in Nat
    BY <2>1
  <2> QED
    BY <2>1, <2>2, RoundedType DEF Slope
<1>2. Slope(new) = c /\ Roundings(new) = k
  BY DEF Slope, Roundings
<1>3. 2 * (m * row.refunded) <= 2 * (row.returned * c) + m * (n * k)
  BY DEF RefundCovers
<1>4. 2 * (m * refund) <= 2 * (q * c) + m * k
  BY RefundSlope
<1> DEFINE a == row.refunded
           b == row.returned
<1>5. a \in Nat /\ b \in Nat /\ 2 * (m * a) <= 2 * (b * c) + m * (n * k)
  BY <1>1, <1>3
<1> HIDE DEF m, c, k, n, a, b
<1>6. /\ m * (a + refund) = m * a + m * refund
      /\ (b + q) * c = b * c + q * c
      /\ m * ((n + 1) * k) = m * (n * k) + m * k
  <2>1. m * (a + refund) = m * a + m * refund
    BY <1>1, <1>5
  <2>2. (b + q) * c = b * c + q * c
    BY <1>1, <1>5
  <2>3. m * ((n + 1) * k) = m * (n * k) + m * k
    BY <1>1
  <2> QED
    BY <2>1, <2>2, <2>3
<1>7. 2 * (m * (a + refund)) <= 2 * ((b + q) * c) + m * ((n + 1) * k)
  <2> DEFINE u == m * a
             v == m * refund
             w == b * c
             x == q * c
             y == m * (n * k)
             z == m * k
  <2>1. u \in Int /\ v \in Int /\ w \in Int /\ x \in Int /\ z \in Int
    BY <1>1, <1>5
  <2>2. y \in Int
    BY <1>1
  <2>3. 2 * u <= 2 * w + y /\ 2 * v <= 2 * x + z
    BY <1>4, <1>5
  <2> HIDE DEF u, v, w, x, y, z
  <2>4. 2 * (u + v) <= 2 * (w + x) + (y + z)
    BY <2>1, <2>2, <2>3
  <2> QED
    BY <1>6, <2>4 DEF u, v, w, x, y, z
<1> QED
  BY <1>2, <1>7 DEF RefundCovers, m, c, k, n, a, b

(* So what was refunded of a sale exceeds its total by no more than what    *)
(* was rounded.                                                             *)
LEMMA RefundedWithinTotal ==
    ASSUME NEW row \in SaleRows, RefundCovers(row), row.returned <= row.qty,
           row.qty > 0, TotalOf(row) >= 0
    PROVE  2 * (row.refunded - TotalOf(row)) <= Rounded(row)
<1> DEFINE m == QuantityScale * row.qty
           c == Slope(row)
           r == row.slips * Roundings(row)
           w == Valued(row.qty, row.price)
           q == row.qty
           a == row.refunded
           b == row.returned
           d == row.discount
           p == row.price
           k == QuantityScale
<1>1. /\ q \in Nat \ {0} /\ p \in Nat /\ d \in Nat /\ k \in Nat \ {0}
      /\ a \in Nat /\ b \in Nat /\ b <= q /\ r \in Nat
  BY InventoryAssumption, RoundedType DEF SaleRows
<1>2. /\ w \in Nat /\ TotalOf(row) = w - d
      /\ 2 * (q * p) - k <= 2 * (k * w)
  BY <1>1, ValuedType DEF TotalOf
<1>3. m = k * q /\ c = q * p - k * d
  BY DEF Slope
<1>4. 2 * (m * a) <= 2 * (b * c) + m * r
  BY DEF RefundCovers
<1>5. Rounded(row) = 1 + r
  BY RoundedType
<1>6. w - d >= 0
  BY <1>2
<1> HIDE DEF m, c, r, w, q, a, b, d, p, k
<1>7. m \in Nat \ {0} /\ c \in Int
  <2>1. k * q \in Nat /\ k * q > 0
    BY <1>1
  <2>2. q * p \in Int /\ k * d \in Int
    BY <1>1
  <2> QED
    BY <1>3, <2>1, <2>2
<1>8. \A x, y, z \in Int : x <= y /\ z >= 0 => z * x <= z * y
  OBVIOUS
<1>9. \A x, y \in Int, z \in Nat \ {0} : z * x <= z * y => x <= y
  <2> SUFFICES ASSUME NEW x \in Int, NEW y \in Int, NEW z \in Nat \ {0}, ~(x <= y)
               PROVE  ~(z * x <= z * y)
    OBVIOUS
  <2>1. y + 1 <= x /\ y + 1 \in Int /\ z \in Int /\ z >= 0
    OBVIOUS
  <2>2. z * (y + 1) <= z * x
    BY <1>8, <2>1
  <2>3. z * (y + 1) = z * y + z
    OBVIOUS
  <2>4. z * y \in Int /\ z * x \in Int
    OBVIOUS
  <2> QED
    BY <2>2, <2>3, <2>4
<1>10. CASE c >= 0
  <2>1. b * c <= q * c
    <3>1. c * b <= c * q
      BY <1>1, <1>7, <1>8, <1>10
    <3>2. c * b = b * c /\ c * q = q * c
      BY <1>1, <1>7
    <3> QED
      BY <3>1, <3>2
  <2>2. 2 * (q * c) <= 2 * (m * (w - d)) + m
    <3>1. q * (2 * (q * p) - k) <= q * (2 * (k * w))
      <4> DEFINE x == 2 * (q * p) - k
                 y == 2 * (k * w)
      <4>1. x \in Int /\ y \in Int /\ x <= y /\ q \in Int /\ q >= 0
        BY <1>1, <1>2
      <4> HIDE DEF x, y
      <4>2. q * x <= q * y
        BY <1>8, <4>1
      <4> QED
        BY <4>2 DEF x, y
    <3>2. q * (2 * (q * p) - k) = 2 * (q * (q * p)) - k * q
      BY <1>1
    <3>3. q * (2 * (k * w)) = 2 * ((k * q) * w)
      BY <1>1, <1>2
    <3>4. q * c = q * (q * p) - (k * q) * d
      <4>1. q * (q * p - k * d) = q * (q * p) - q * (k * d)
        <5> DEFINE x == q * p
                   y == k * d
        <5>1. x \in Int /\ y \in Int
          BY <1>1
        <5> HIDE DEF x, y
        <5>2. q * (x - y) = q * x - q * y
          BY <1>1, <5>1
        <5> QED
          BY <5>2 DEF x, y
      <4>2. q * (k * d) = (k * q) * d
        BY <1>1
      <4> QED
        BY <1>3, <4>1, <4>2
    <3>5. m * (w - d) = (k * q) * w - (k * q) * d
      <4>1. m * (w - d) = m * w - m * d
        BY <1>1, <1>2, <1>7
      <4> QED
        BY <1>3, <4>1
    <3> DEFINE x == q * (q * p)
               y == (k * q) * w
               z == (k * q) * d
               n == k * q
    <3>6. x \in Int /\ y \in Int /\ z \in Int /\ n \in Int
      <4>1. q * p \in Int /\ k * q \in Int
        BY <1>1
      <4> QED
        BY <1>1, <1>2, <4>1
    <3>7. 2 * x - n <= 2 * y
      BY <3>1, <3>2, <3>3
    <3>8. q * c = x - z /\ m * (w - d) = y - z /\ m = n
      BY <1>3, <3>4, <3>5
    <3> HIDE DEF x, y, z, n
    <3> QED
      BY <3>6, <3>7, <3>8
  <2> DEFINE u == m * a
             v == m * (w - d)
             x == m * r
             y == b * c
             z == q * c
             e == w - d
  <2>3. /\ u \in Int /\ v \in Int /\ x \in Int /\ y \in Int /\ z \in Int /\ e \in Int
    BY <1>1, <1>2, <1>7
  <2>4. 2 * u <= 2 * y + x /\ y <= z /\ 2 * z <= 2 * v + m
    BY <1>4, <2>1, <2>2
  <2>5. 2 * u <= 2 * v + m + x
    <3> HIDE DEF u, v, x, y, z
    <3> QED
      BY <1>7, <2>3, <2>4
  <2>6. m * (2 * a) = 2 * u
    BY <1>1, <1>7
  <2>7. m * (2 * e + 1 + r) = 2 * v + m + x
    <3> HIDE DEF e
    <3>1. m * (2 * e + 1 + r) = 2 * (m * e) + m + m * r
      BY <1>1, <1>7, <2>3
    <3> QED
      BY <3>1 DEF e
  <2>8. 2 * a <= 2 * e + 1 + r
    <3> HIDE DEF u, v, x, e
    <3>1. m * (2 * a) <= m * (2 * e + 1 + r)
      BY <2>5, <2>6, <2>7
    <3> QED
      BY <1>1, <1>7, <1>9, <2>3, <3>1
  <2>9. 2 * (a - (w - d)) <= 1 + r
    <3> HIDE DEF e
    <3>1. 2 * (a - e) <= 1 + r
      BY <1>1, <2>3, <2>8
    <3> QED
      BY <3>1 DEF e
  <2> QED
    BY <1>2, <1>5, <2>9 DEF a
<1>11. CASE c < 0
  <2>1. b * c <= 0
    <3>1. b * c <= b * 0
      BY <1>1, <1>7, <1>8, <1>11
    <3> QED
      BY <1>1, <3>1
  <2> DEFINE u == m * a
             x == m * r
             y == b * c
  <2>2. u \in Int /\ x \in Int /\ y \in Int
    BY <1>1, <1>7
  <2>3. 2 * u <= x
    <3>1. 2 * u <= 2 * y + x /\ y <= 0
      BY <1>4, <2>1
    <3> HIDE DEF u, x, y
    <3> QED
      BY <2>2, <3>1
  <2>4. m * (2 * a) = 2 * u
    BY <1>1, <1>7
  <2>5. 2 * a <= r
    <3> HIDE DEF u
    <3>1. m * (2 * a) <= m * r
      BY <2>3, <2>4
    <3> QED
      BY <1>1, <1>7, <1>9, <3>1
  <2>6. 2 * (a - (w - d)) <= 1 + r
    BY <1>1, <1>2, <1>6, <2>5
  <2> QED
    BY <1>2, <1>5, <2>6 DEF a
<1> QED
  BY <1>7, <1>10, <1>11

(* A row without returns refunded nothing.                                  *)
LEMMA NothingRefunded ==
    ASSUME NEW row, row.returned = 0, row.refunded = 0, row.qty \in Nat, row.price \in Nat,
           row.discount \in Nat, row.slips \in Nat
    PROVE  RefundCovers(row)
<1> DEFINE m == QuantityScale * row.qty
           n == row.slips * Roundings(row)
<1>1. m \in Nat /\ n \in Nat
  BY InventoryAssumption DEF Roundings
<1>2. Slope(row) \in Int
  <2>1. row.qty * row.price \in Int /\ QuantityScale * row.discount \in Int
    BY InventoryAssumption
  <2> QED
    BY <2>1 DEF Slope
<1> HIDE DEF m, n
<1>3. m * n \in Nat /\ m * 0 = 0 /\ 0 * Slope(row) = 0
  BY <1>1, <1>2
<1>4. 2 * (m * 0) <= 2 * (0 * Slope(row)) + m * n
  BY <1>3
<1> QED
  BY <1>4 DEF RefundCovers, m, n

(* Nor did a row that is unused or deleted.                                 *)
LEMMA BlankCovers ==
    ASSUME NEW status
    PROVE  RefundCovers(BlankSale(status))
<1> DEFINE row == BlankSale(status)
<1>1. /\ row.returned = 0 /\ row.refunded = 0 /\ row.qty = 0 /\ row.price = 0
      /\ row.discount = 0 /\ row.slips = 0
  BY DEF BlankSale
<1> HIDE DEF row
<1>2. RefundCovers(row)
  BY <1>1, NothingRefunded
<1> QED
  BY <1>2 DEF row

(* SaleAgrees in terms of PostedSum, before and after a step.               *)
LEMMA AgreesMeans ==
    ASSUME NEW s \in Sales
    PROVE  /\ SaleAgrees(s) <=>
                books[s].sale.ar - books[s].returns.ar - PostedSum(payments, s)
                  = IF Live(s) THEN TotalOf(sales[s]) - sales[s].paid - sales[s].arBack ELSE 0
           /\ SaleAgrees(s)' <=>
                books'[s].sale.ar - books'[s].returns.ar - PostedSum(payments', s)
                  = IF Live(s)' THEN TotalOf(sales'[s]) - sales'[s].paid - sales'[s].arBack
                    ELSE 0
BY DEF SaleAgrees, PostedSum, PostedOn, PostedAmount, Due

(* A sum over the same posted payments is the same.                         *)
LEMMA PostedSame ==
    ASSUME NEW rows, NEW new, NEW s, PostedOn(new, s) = PostedOn(rows, s),
           \A p \in PostedOn(rows, s) : new[p].amount = rows[p].amount
    PROVE  PostedSum(new, s) = PostedSum(rows, s)
<1>1. \A p \in PostedOn(rows, s) : AmountsIn(new)[p] = AmountsIn(rows)[p]
  BY DEF AmountsIn, PostedOn, AllocatedIn
<1>2. TallyOf(AmountsIn(new), PostedOn(rows, s)) = TallyOf(AmountsIn(rows), PostedOn(rows, s))
  BY <1>1, TallySame
<1> QED
  BY <1>2 DEF PostedSum

(* One more posted payment adds its amount.                                 *)
LEMMA PostedAdd ==
    ASSUME NEW rows, NEW new, NEW s, NEW p \in Payments, p \notin PostedOn(rows, s),
           PostedOn(new, s) = PostedOn(rows, s) \cup {p},
           \A r \in PostedOn(rows, s) : new[r].amount = rows[r].amount,
           new[p].amount \in 0 .. MaxAmount
    PROVE  PostedSum(new, s) = PostedSum(rows, s) + new[p].amount
<1>1. \A r \in PostedOn(rows, s) : AmountsIn(new)[r] = AmountsIn(rows)[r]
  BY DEF AmountsIn, PostedOn, AllocatedIn
<1>2. TallyOf(AmountsIn(new), PostedOn(rows, s)) = PostedSum(rows, s)
  BY <1>1, TallySame DEF PostedSum
<1>3. AmountsIn(new)[p] = new[p].amount
  BY DEF AmountsIn
<1>4. IsFiniteSet(PostedOn(rows, s))
  BY AllocatedFinite, FS_Subset DEF PostedOn
<1>5. TallyOf(AmountsIn(new), PostedOn(rows, s) \cup {p})
        = TallyOf(AmountsIn(new), PostedOn(rows, s)) + AmountsIn(new)[p]
  BY <1>3, <1>4, TallyAdd
<1> QED
  BY <1>2, <1>3, <1>5 DEF PostedSum

(* The sum is a natural number, and nothing posted sums to nothing.         *)
LEMMA PostedType ==
    ASSUME NEW rows, NEW s
    PROVE  /\ PostedSum(rows, s) \in Nat
           /\ PostedOn(rows, s) = {} => PostedSum(rows, s) = 0
<1>1. IsFiniteSet(PostedOn(rows, s))
  BY AllocatedFinite, FS_Subset DEF PostedOn
<1> QED
  BY <1>1, TallyType, TallyEmpty DEF PostedSum

(* A step that does not reach a sale keeps all three.                       *)
LEMMA UntouchedReckoned ==
    ASSUME RefundInv, NEW t \in Sales, sales'[t] = sales[t], books'[t] = books[t],
           AllocatedIn(payments', t) = AllocatedIn(payments, t),
           \A p \in AllocatedIn(payments, t) : /\ payments'[p].amount = payments[p].amount
                                               /\ payments'[p].posted = payments[p].posted
    PROVE  Reckoned(t)
<1>1. Live(t)' = Live(t)
  BY DEF Live
<1>2. PostedOn(payments', t) = PostedOn(payments, t)
  BY DEF PostedOn
<1>3. \A p \in PostedOn(payments, t) : payments'[p].amount = payments[p].amount
  BY DEF PostedOn
<1>4. PostedSum(payments', t) = PostedSum(payments, t)
  BY <1>2, <1>3, PostedSame
<1>5. SaleAgrees(t)' <=> SaleAgrees(t)
  BY <1>1, <1>4, AgreesMeans
<1>6. OverRefunded(t)' <=> OverRefunded(t)
  BY <1>1 DEF OverRefunded
<1> QED
  BY <1>5, <1>6 DEF Reckoned, ReceivableStep, RefundStep, RefundInv

(* A sale without returns has nothing back.                                 *)
LEMMA NothingBack ==
    ASSUME RefundInv, NEW s \in Sales, sales[s].returned = 0
    PROVE  /\ books[s].returns = NoReturnGroup
           /\ sales[s].refunded = 0 /\ sales[s].arBack = 0
BY DEF RefundInv, BooksInv, Consistent, Returnable, Refunds, NoReturnGroup

(* No money is handed back through an empty group.                          *)
LEMMA NoMoneyBack ==
    /\ Collected(NoReturnGroup.money) = 0
    /\ NoReturnGroup.ar = 0 /\ NoReturnGroup.revenue = 0
BY DEF Collected, NoReturnGroup, Tills

(* A sale that is posted without returns is reckoned when the payments of   *)
(* its own are all from the till.                                           *)
LEMMA PostedReckoned ==
    ASSUME NEW s \in Sales, sales'[s] \in SaleRows, Live(s)',
           sales'[s].returned = 0, sales'[s].refunded = 0, sales'[s].arBack = 0,
           sales'[s].paid <= TotalOf(sales'[s]),
           NEW inflow \in [Tills -> Nat],
           books'[s].returns = NoReturnGroup,
           books'[s].sale = SaleGroup(TotalOf(sales'[s]), sales'[s].paid, inflow)
    PROVE  /\ Refunds(sales[s], books[s].returns)' /\ ~OverRefunded(s)'
           /\ PostedOn(payments', s) = {} => SaleAgrees(s)'
<1>1. /\ sales'[s].paid \in Nat /\ TotalOf(sales'[s]) \in Int
      /\ Rounded(sales'[s]) \in Nat /\ RefundCovers(sales'[s])
  BY TotalType, RoundedType, NothingRefunded DEF SaleRows
<1>2. Refunds(sales[s], books[s].returns)' /\ ~OverRefunded(s)'
  BY <1>1, NoMoneyBack DEF Refunds, OverRefunded
<1>3. books'[s].sale.ar = TotalOf(sales'[s]) - sales'[s].paid
  BY <1>1 DEF SaleGroup, NoSaleGroup, Excess
<1>4. ASSUME PostedOn(payments', s) = {} PROVE SaleAgrees(s)'
  <2>1. PostedSum(payments', s) = 0
    BY <1>4, PostedType
  <2> QED
    BY <1>1, <1>3, <2>1, NoMoneyBack, AgreesMeans
<1> QED
  BY <1>2, <1>4

(* A sale is rung up: what is collected at the till was posted with it.     *)
LEMMA CreateSaleReckoned ==
    ASSUME RefundInv, NEW s \in Sales, NEW c \in Parties, NEW v \in Variants,
           NEW q \in Quantities, NEW price \in Prices, NEW discount \in Discounts,
           NEW tender \in Tenders,
           CreateSale(s, c, v, q, price, discount, tender)
    PROVE  \A t \in Sales : Reckoned(t)
<1> DEFINE paid  == TallyOf([p \in DOMAIN tender |-> tender[p].amount], DOMAIN tender)
           row   == [BlankSale("partial") EXCEPT
                        !.customer = c, !.variant = v, !.qty = q, !.price = price,
                        !.discount = discount, !.cost = SnapshotCost(v), !.paid = paid]
           total == TotalOf(row)
           inflow == InflowIn(payments', s)
           new   == [row EXCEPT !.status = StatusFor(paid, total)]
<1>0. TypeOK /\ TypeOK' /\ PaymentsInv
  BY CreateSaleType DEF RefundInv, BooksInv, PaymentsInv
<1>1. /\ sales[s].status = "unused" /\ paid <= total
      /\ \A p \in DOMAIN tender : payments[p].state = "unused"
      /\ sales' = [sales EXCEPT ![s] = new]
      /\ payments' = [p \in Payments |->
                         IF p \in DOMAIN tender
                         THEN [BlankPayment("live") EXCEPT !.sale = s, !.customer = c,
                                 !.amount = tender[p].amount, !.till = tender[p].till]
                         ELSE payments[p]]
      /\ books' = Posted(s, row, inflow)
  BY DEF CreateSale
<1>2. /\ new.returned = 0 /\ new.refunded = 0 /\ new.arBack = 0 /\ new.paid = paid
      /\ TotalOf(new) = total /\ new.status = StatusFor(paid, total) /\ row.paid = paid
  BY DEF TotalOf, BlankSale
<1>3. /\ \A p \in DOMAIN tender : /\ payments'[p].state = "live" /\ payments'[p].sale = s
                                 /\ ~payments'[p].posted
      /\ \A p \in Payments \ DOMAIN tender : payments'[p] = payments[p]
      /\ DOMAIN tender \subseteq Payments
  BY <1>1, TenderType DEF BlankPayment
<1> HIDE DEF row, new, total, inflow, paid
<1>4. /\ sales'[s] = new /\ ~Live(s) /\ Live(s)'
      /\ \A t \in Sales \ {s} : sales'[t] = sales[t]
  BY <1>0, <1>1, <1>2, StatusType DEF TypeOK, Live, Qualifying
<1>5. books'[s].sale = SaleGroup(total, paid, inflow) /\ books'[s].returns = NoReturnGroup
  <2>1. books[s].returns = NoReturnGroup
    BY <1>4 DEF RefundInv, BooksInv, Consistent, Booked, NoBooks
  <2> QED
    BY <1>0, <1>1, <1>2, <2>1 DEF Posted, TypeOK, total
<1>6. Reckoned(s)
  <2>1. AllocatedIn(payments, s) = {}
    BY <1>0, <1>4, DeskAssumption DEF PaymentsInv, PaymentsNameTheirSale, AllocatedIn
  <2>2. PostedOn(payments', s) = {}
    BY <1>3, <2>1 DEF PostedOn, AllocatedIn
  <2>3. inflow \in [Tills -> Nat]
    BY InflowType DEF inflow
  <2>4. sales'[s] \in SaleRows
    BY <1>0 DEF TypeOK
  <2>5. /\ Refunds(sales[s], books[s].returns)' /\ ~OverRefunded(s)'
        /\ PostedOn(payments', s) = {} => SaleAgrees(s)'
    BY <1>1, <1>2, <1>4, <1>5, <2>3, <2>4, PostedReckoned
  <2> QED
    BY <2>2, <2>5 DEF Reckoned, ReceivableStep, RefundStep
<1>7. ASSUME NEW t \in Sales \ {s} PROVE Reckoned(t)
  <2>1. books'[t] = books[t]
    BY <1>0, <1>1 DEF TypeOK, Posted
  <2>2. ASSUME NEW p \in Payments
        PROVE  /\ payments'[p].state = "live" /\ payments'[p].sale = t
                    <=> payments[p].state = "live" /\ payments[p].sale = t
               /\ payments[p].state = "live" => payments'[p] = payments[p]
    <3>1. CASE p \in DOMAIN tender
      <4>1. payments[p].state = "unused" /\ payments'[p].sale = s
        BY <1>1, <3>1 DEF BlankPayment
      <4> QED
        BY <4>1
    <3>2. CASE p \notin DOMAIN tender
      <4>1. payments'[p] = payments[p]
        BY <1>1, <3>2
      <4> QED
        BY <4>1
    <3> QED
      BY <3>1, <3>2
  <2>3. AllocatedIn(payments', t) = AllocatedIn(payments, t)
    BY <2>2 DEF AllocatedIn
  <2>4. \A p \in AllocatedIn(payments, t) : payments'[p] = payments[p]
    BY <2>2 DEF AllocatedIn
  <2> QED
    BY <1>4, <2>1, <2>3, <2>4, UntouchedReckoned
<1> QED
  BY <1>6, <1>7

(* An edit reposts the whole due, as if no settlement had lowered it: with  *)
(* one the two part, without one they agree.                                *)
LEMMA UpdateSaleReckoned ==
    ASSUME RefundInv, NEW s \in Sales, NEW c \in Parties, NEW replace \in BOOLEAN,
           NEW v \in Variants, NEW q \in Quantities, NEW price \in Prices,
           NEW discount \in Discounts \cup {sales[s].discount},
           UpdateSale(s, c, replace, v, q, price, discount)
    PROVE  \A t \in Sales : Reckoned(t)
<1> DEFINE old  == sales[s]
           line == IF replace
                   THEN [old EXCEPT !.variant = v, !.qty = q, !.price = price,
                                    !.cost = SnapshotCost(v)]
                   ELSE old
           row  == [line EXCEPT !.customer = c, !.discount = discount]
           total == TotalOf(row)
           inflow == InflowIn(payments, s)
           new  == [row EXCEPT !.status = StatusFor(old.paid, total)]
<1>0. TypeOK /\ TypeOK' /\ old \in SaleRows
  BY UpdateSaleType DEF RefundInv, BooksInv, PaymentsInv, TypeOK
<1>1. /\ Editable(s) /\ old.paid <= total
      /\ sales' = [sales EXCEPT ![s] = new]
      /\ payments' = [p \in Payments |->
                         IF p \in AllocatedIn(payments, s)
                         THEN [payments[p] EXCEPT !.customer = c] ELSE payments[p]]
      /\ books' = Posted(s, row, inflow)
  BY DEF UpdateSale, PaymentsRepointed
<1>2. old.returned = 0 /\ old.refunded = 0 /\ old.arBack = 0 /\ books[s].returns = NoReturnGroup
  BY <1>0, <1>1, NothingBack DEF Editable, HasReturns, SaleRows
<1>3. /\ new.returned = old.returned /\ new.refunded = old.refunded /\ new.arBack = old.arBack
      /\ new.paid = old.paid /\ row.paid = old.paid
      /\ TotalOf(new) = total /\ new.status = StatusFor(old.paid, total)
  BY <1>0 DEF TotalOf, SaleRows
<1>4. Edit(s)
  BY DEF Edit
<1> HIDE DEF row, new, line, total, inflow
<1>5. /\ sales'[s] = new /\ Live(s)'
      /\ \A t \in Sales \ {s} : sales'[t] = sales[t]
  BY <1>0, <1>1, <1>3, StatusType DEF TypeOK, Live
<1>6. \A p \in Payments : /\ payments'[p].state = payments[p].state
                          /\ payments'[p].sale = payments[p].sale
                          /\ payments'[p].amount = payments[p].amount
                          /\ payments'[p].posted = payments[p].posted
  BY <1>0, <1>1 DEF TypeOK, PaymentRows
<1>7. \A t \in Sales : AllocatedIn(payments', t) = AllocatedIn(payments, t)
  BY <1>6 DEF AllocatedIn
<1>8. books'[s].sale = SaleGroup(total, old.paid, inflow) /\ books'[s].returns = NoReturnGroup
  BY <1>0, <1>1, <1>2, <1>3 DEF Posted, TypeOK, total
<1>9. Reckoned(s)
  <2>1. inflow \in [Tills -> Nat] /\ sales'[s] \in SaleRows
    BY <1>0, InflowType DEF inflow, TypeOK
  <2>2. /\ Refunds(sales[s], books[s].returns)' /\ ~OverRefunded(s)'
        /\ PostedOn(payments', s) = {} => SaleAgrees(s)'
    BY <1>1, <1>2, <1>3, <1>5, <1>8, <2>1, PostedReckoned
  <2>3. HasSettlement(s) \/ PostedOn(payments', s) = {}
    BY <1>6, <1>7 DEF HasSettlement, PostedOn, AllocatedIn
  <2> QED
    BY <1>4, <2>2, <2>3 DEF Reckoned, ReceivableStep, RefundStep, EditSettled
<1>10. ASSUME NEW t \in Sales \ {s} PROVE Reckoned(t)
  <2>1. books'[t] = books[t]
    BY <1>0, <1>1 DEF TypeOK, Posted
  <2>2. \A p \in AllocatedIn(payments, t) : /\ payments'[p].amount = payments[p].amount
                                            /\ payments'[p].posted = payments[p].posted
    BY <1>6 DEF AllocatedIn
  <2> QED
    BY <1>5, <1>7, <2>1, <2>2, UntouchedReckoned
<1> QED
  BY <1>9, <1>10

(* A void takes the groups and the payments of its sale with it.            *)
LEMMA DeleteSaleReckoned ==
    ASSUME RefundInv, NEW s \in Sales, DeleteSale(s)
    PROVE  \A t \in Sales : Reckoned(t)
<1>0. TypeOK /\ PaymentsInv /\ sales[s] \in SaleRows
  BY DEF RefundInv, BooksInv, PaymentsInv, TypeOK
<1>1. /\ Editable(s)
      /\ sales' = [sales EXCEPT ![s] = BlankSale("deleted")]
      /\ payments' = [p \in Payments |->
                         IF p \in AllocatedIn(payments, s)
                         THEN BlankPayment("deleted") ELSE payments[p]]
      /\ books' = [books EXCEPT ![s].sale = NoSaleGroup, ![s].cogs = 0]
  BY DEF DeleteSale, Unposted
<1>2. books[s].returns = NoReturnGroup
  BY <1>0, <1>1, NothingBack DEF Editable, HasReturns, SaleRows
<1>3. books'[s] = NoBooks /\ sales'[s] = BlankSale("deleted") /\ ~Live(s)'
  BY <1>0, <1>1, <1>2 DEF TypeOK, NoBooks, Live, BlankSale, Qualifying
<1>4. /\ AllocatedIn(payments', s) = {}
      /\ \A t \in Sales \ {s} :
            /\ AllocatedIn(payments', t) = AllocatedIn(payments, t)
            /\ \A p \in AllocatedIn(payments, t) : payments'[p] = payments[p]
  <2>1. \A p \in Payments :
           /\ p \in AllocatedIn(payments, s) => payments'[p].state = "deleted"
           /\ p \notin AllocatedIn(payments, s) => payments'[p] = payments[p]
    BY <1>1 DEF BlankPayment
  <2> QED
    BY <2>1 DEF AllocatedIn
<1>5. Reckoned(s)
  <2>1. PostedSum(payments', s) = 0
    BY <1>4, PostedType DEF PostedOn
  <2>2. books'[s].sale.ar = 0 /\ books'[s].returns = NoReturnGroup
    BY <1>3 DEF NoBooks, NoSaleGroup
  <2>3. SaleAgrees(s)'
    BY <1>3, <2>1, <2>2, NoMoneyBack, AgreesMeans
  <2>4. Refunds(sales[s], books[s].returns)'
    BY <1>3, <2>2, NoMoneyBack, BlankCovers DEF Refunds, BlankSale
  <2>5. ~OverRefunded(s)'
    BY <1>3 DEF OverRefunded
  <2> QED
    BY <2>3, <2>4, <2>5 DEF Reckoned, ReceivableStep, RefundStep
<1>6. ASSUME NEW t \in Sales \ {s} PROVE Reckoned(t)
  <2>1. sales'[t] = sales[t] /\ books'[t] = books[t]
    BY <1>0, <1>1 DEF TypeOK
  <2> QED
    BY <1>4, <2>1, UntouchedReckoned
<1> QED
  BY <1>5, <1>6

(* paid_amount and the status are all that a settlement or a void of a      *)
(* payment moves in the row of its sale.                                    *)
LEMMA PaidChangedRow ==
    ASSUME sales \in [Sales -> SaleRows], NEW s \in Sales, NEW paid \in Nat,
           sales' = PaidChangedTo(s, paid)
    PROVE  /\ sales'[s].paid = paid
           /\ TotalOf(sales'[s]) = TotalOf(sales[s])
           /\ sales'[s].arBack = sales[s].arBack /\ sales'[s].refunded = sales[s].refunded
           /\ Rounded(sales'[s]) = Rounded(sales[s])
           /\ RefundCovers(sales'[s]) = RefundCovers(sales[s])
<1>1. /\ sales'[s].paid = paid
      /\ \A field \in {"qty", "price", "discount", "returned", "refunded", "arBack", "slips"} :
             sales'[s][field] = sales[s][field]
  BY DEF PaidChangedTo, SaleRows
<1>2. /\ sales'[s].qty = sales[s].qty /\ sales'[s].price = sales[s].price
      /\ sales'[s].discount = sales[s].discount /\ sales'[s].returned = sales[s].returned
      /\ sales'[s].refunded = sales[s].refunded /\ sales'[s].arBack = sales[s].arBack
      /\ sales'[s].slips = sales[s].slips
  BY <1>1
<1> QED
  BY <1>1, <1>2 DEF TotalOf, Rounded, Roundings, RefundCovers, Slope

(* A settlement lowers the due of its sale by what it credits.              *)
LEMMA RecordPaymentReckoned ==
    ASSUME RefundInv, NEW p \in Payments, NEW c \in Customers,
           NEW s \in Sales \cup {NoSale}, NEW amount \in Amounts, NEW till \in Tills,
           RecordPayment(p, c, s, amount, till)
    PROVE  \A t \in Sales : Reckoned(t)
<1>0. PaymentsInv /\ TypeOK
  BY DEF RefundInv, BooksInv, PaymentsInv
<1>1. /\ payments'[p].amount = amount /\ payments'[p].posted
      /\ amount \in 0 .. MaxAmount /\ amount \in Nat
      /\ \A r \in Payments \ {p} : payments'[r] = payments[r]
      /\ \A t \in Sales :
           /\ p \notin AllocatedIn(payments, t)
           /\ t # s => AllocatedIn(payments', t) = AllocatedIn(payments, t)
           /\ t = s => AllocatedIn(payments', t) = AllocatedIn(payments, t) \cup {p}
           /\ Live(t)' = Live(t)
           /\ t # s => sales'[t] = sales[t]
      /\ s # NoSale => Live(s)
  BY <1>0, RecordPaymentRows
<1>2. books' = books
  BY DEF RecordPayment
<1>3. \A t \in Sales : \A r \in AllocatedIn(payments, t) : payments'[r] = payments[r]
  BY <1>1 DEF AllocatedIn
<1>4. ASSUME NEW t \in Sales, t # s PROVE Reckoned(t)
  BY <1>1, <1>2, <1>3, <1>4, UntouchedReckoned
<1>5. ASSUME NEW t \in Sales, t = s PROVE Reckoned(t)
  <2>0. t # NoSale /\ sales[t] \in SaleRows
    BY <1>0, DeskAssumption DEF TypeOK
  <2>1. /\ sales[t].paid \in Nat /\ sales[t].arBack \in Nat /\ TotalOf(sales[t]) \in Int
        /\ books[t].sale.ar \in Nat /\ books[t].returns.ar \in Nat
        /\ PostedSum(payments, t) \in Nat
        /\ Collected(books[t].returns.money) \in Nat
        /\ Rounded(sales[t]) \in Nat
    BY <1>0, <2>0, TotalType, PostedType, RoundedType
    DEF SaleRows, TypeOK, SaleGroups, ReturnGroups, Collected, Tills
  <2>2. /\ sales'[t].paid = sales[t].paid + amount
        /\ TotalOf(sales'[t]) = TotalOf(sales[t])
        /\ sales'[t].arBack = sales[t].arBack /\ sales'[t].refunded = sales[t].refunded
        /\ Rounded(sales'[t]) = Rounded(sales[t])
        /\ RefundCovers(sales'[t]) = RefundCovers(sales[t])
    <3>1. sales' = PaidChangedTo(t, sales[t].paid + amount) /\ sales[t].paid + amount \in Nat
      BY <1>1, <1>5, <2>0, <2>1 DEF RecordPayment
    <3>2. sales \in [Sales -> SaleRows]
      BY <1>0 DEF TypeOK
    <3> QED
      BY <3>1, <3>2, PaidChangedRow
  <2>3. PostedSum(payments', t) = PostedSum(payments, t) + amount
    <3>1. PostedOn(payments', t) = PostedOn(payments, t) \cup {p} /\ p \notin PostedOn(payments, t)
      BY <1>1, <1>3, <1>5 DEF PostedOn
    <3>2. \A r \in PostedOn(payments, t) : payments'[r].amount = payments[r].amount
      BY <1>3 DEF PostedOn
    <3> QED
      BY <1>1, <3>1, <3>2, PostedAdd
  <2>4. Live(t) /\ Live(t)'
    BY <1>1, <1>5, <2>0
  <2>5. SaleAgrees(t) => SaleAgrees(t)'
    <3>1. SaleAgrees(t) => books[t].sale.ar - books[t].returns.ar - PostedSum(payments, t)
                             = TotalOf(sales[t]) - sales[t].paid - sales[t].arBack
      BY <2>4, AgreesMeans
    <3>2. SaleAgrees(t) => books[t].sale.ar - books[t].returns.ar - PostedSum(payments', t)
                             = TotalOf(sales[t]) - (sales[t].paid + amount) - sales[t].arBack
      <4> DEFINE a == books[t].sale.ar
                 b == books[t].returns.ar
                 x == PostedSum(payments, t)
                 y == PostedSum(payments', t)
                 d == TotalOf(sales[t])
                 m == sales[t].paid
                 k == sales[t].arBack
      <4>1. /\ a \in Int /\ b \in Int /\ x \in Int /\ d \in Int /\ m \in Int /\ k \in Int
            /\ y = x + amount /\ amount \in Int
        BY <1>1, <2>1, <2>3
      <4>2. SaleAgrees(t) => a - b - x = d - m - k
        BY <3>1
      <4> HIDE DEF a, b, x, y, d, m, k
      <4>3. SaleAgrees(t) => a - b - y = d - (m + amount) - k
        BY <4>1, <4>2
      <4> QED
        BY <4>3 DEF a, b, x, y, d, m, k
    <3>3. /\ TotalOf(sales'[t]) = TotalOf(sales[t]) /\ sales'[t].paid = sales[t].paid + amount
          /\ sales'[t].arBack = sales[t].arBack /\ books'[t] = books[t]
      BY <1>2, <2>2
    <3> QED
      BY <2>4, <3>2, <3>3, AgreesMeans
  <2>6. ~OverRefunded(t) => ~OverRefunded(t)'
    BY <1>1, <1>2, <2>1, <2>2, <2>4 DEF OverRefunded
  <2>7. Refunds(sales[t], books[t].returns)'
    BY <1>2, <2>2 DEF RefundInv, Refunds
  <2> QED
    BY <2>5, <2>6, <2>7 DEF Reckoned, ReceivableStep, RefundStep
<1> QED
  BY <1>4, <1>5

(* The void of a settlement raises the due again by what it had credited;   *)
(* the void of a till payment raises it and the ledger does not know.       *)
LEMMA VoidPaymentReckoned ==
    ASSUME RefundInv, NEW p \in Payments, VoidPayment(p)
    PROVE  \A t \in Sales : Reckoned(t)
<1> DEFINE s == payments[p].sale
           left == Excess(sales[s].paid, payments[p].amount)
<1>0. PaymentsInv /\ TypeOK
  BY DEF RefundInv, BooksInv, PaymentsInv
<1>1. /\ payments[p].state = "live" /\ payments'[p].state = "deleted"
      /\ \A r \in Payments \ {p} : payments'[r] = payments[r]
      /\ payments[p].amount \in 0 .. MaxAmount /\ payments[p].amount \in Nat
      /\ \A t \in Sales :
           /\ t # s => AllocatedIn(payments', t) = AllocatedIn(payments, t)
           /\ t = s => /\ AllocatedIn(payments, t) = AllocatedIn(payments', t) \cup {p}
                      /\ p \notin AllocatedIn(payments', t)
                      /\ Live(t)
                      /\ Recorded(payments, t) = Recorded(payments', t) + payments[p].amount
                      /\ left = Recorded(payments', t)
           /\ Live(t)' = Live(t)
           /\ t # s => sales'[t] = sales[t]
  BY <1>0, VoidPaymentRows
<1>2. books' = books
  BY DEF VoidPayment
<1>3. \A t \in Sales : \A r \in AllocatedIn(payments', t) : payments'[r] = payments[r]
  BY <1>1 DEF AllocatedIn
<1>4. ASSUME NEW t \in Sales, t # s PROVE Reckoned(t)
  <2>1. /\ sales'[t] = sales[t] /\ books'[t] = books[t]
        /\ AllocatedIn(payments', t) = AllocatedIn(payments, t)
    BY <1>1, <1>2, <1>4
  <2>2. \A r \in AllocatedIn(payments, t) : payments'[r] = payments[r]
    BY <1>3, <2>1
  <2> QED
    BY <2>1, <2>2, UntouchedReckoned
<1>5. ASSUME NEW t \in Sales, t = s PROVE Reckoned(t)
  <2>0. t # NoSale /\ sales[t] \in SaleRows
    BY <1>0, DeskAssumption DEF TypeOK
  <2>1. /\ sales[t].paid \in Nat /\ sales[t].arBack \in Nat /\ TotalOf(sales[t]) \in Int
        /\ books[t].sale.ar \in Nat /\ books[t].returns.ar \in Nat
        /\ PostedSum(payments, t) \in Nat /\ PostedSum(payments', t) \in Nat
    BY <1>0, <2>0, TotalType, PostedType
    DEF SaleRows, TypeOK, SaleGroups, ReturnGroups
  <2>2. left = sales[t].paid - payments[p].amount /\ left \in Nat
    <3>1. sales[t].paid = Recorded(payments, t)
      BY <1>1, <1>5 DEF RefundInv, BooksInv, PaymentsInv, PaidIsRecorded, Recorded
    <3>2. Recorded(payments', t) \in Nat
      BY RecordedType
    <3> HIDE DEF left
    <3> QED
      BY <1>1, <1>5, <3>1, <3>2
  <2>3. /\ sales'[t].paid = left
        /\ TotalOf(sales'[t]) = TotalOf(sales[t])
        /\ sales'[t].arBack = sales[t].arBack /\ sales'[t].refunded = sales[t].refunded
        /\ Rounded(sales'[t]) = Rounded(sales[t])
        /\ RefundCovers(sales'[t]) = RefundCovers(sales[t])
    <3>1. sales' = PaidChangedTo(t, left)
      BY <1>5, <2>0 DEF VoidPayment
    <3>2. sales \in [Sales -> SaleRows]
      BY <1>0 DEF TypeOK
    <3> HIDE DEF left
    <3> QED
      BY <2>2, <3>1, <3>2, PaidChangedRow
  <2> HIDE DEF left
  <2>4. VoidOn(t) /\ (~payments[p].posted => VoidTill(t))
    BY <1>1, <1>5 DEF VoidOn, VoidTill
  <2>5. ASSUME payments[p].posted, SaleAgrees(t) PROVE SaleAgrees(t)'
    <3>1. PostedOn(payments, t) = PostedOn(payments', t) \cup {p} /\ p \notin PostedOn(payments', t)
      BY <1>1, <1>3, <1>5, <2>5 DEF PostedOn
    <3>2. \A r \in PostedOn(payments', t) : payments'[r].amount = payments[r].amount
      BY <1>3 DEF PostedOn
    <3>3. PostedSum(payments, t) = PostedSum(payments', t) + payments[p].amount
      BY <1>1, <3>1, <3>2, PostedAdd
    <3>4. Live(t) /\ Live(t)' /\ books'[t] = books[t] /\ payments[p].amount \in Nat
      BY <1>1, <1>2, <1>5
    <3>5. books[t].sale.ar - books[t].returns.ar - PostedSum(payments, t)
            = TotalOf(sales[t]) - sales[t].paid - sales[t].arBack
      BY <2>5, <3>4, AgreesMeans
    <3>6. books[t].sale.ar - books[t].returns.ar - PostedSum(payments', t)
            = TotalOf(sales[t]) - left - sales[t].arBack
      BY <2>1, <2>2, <3>3, <3>4, <3>5
    <3> QED
      BY <2>3, <3>4, <3>6, AgreesMeans
  <2>6. Refunds(sales[t], books[t].returns)'
    BY <1>2, <2>3 DEF RefundInv, Refunds
  <2> QED
    BY <2>4, <2>5, <2>6 DEF Reckoned, ReceivableStep, RefundStep
<1> QED
  BY <1>4, <1>5

(* A return credits the receivable first, by what the sale keeps as         *)
(* returned, and the rest of the refund in money: what goes back grows only *)
(* while it is within what the customer paid of the goods that stay.        *)
LEMMA ReturnGoodsReckoned ==
    ASSUME RefundInv, NEW s \in Sales, NEW q \in Quantities, NEW first \in Tills,
           ReturnGoods(s, q, first)
    PROVE  \A t \in Sales : Reckoned(t)
<1> DEFINE row    == sales[s]
           refund == RefundFor(row, q)
           ar     == ReceivableBack(row, refund)
           group  == ReturnGroup(refund, ar, Valued(q, row.cost), first, InflowIn(payments, s))
<1>0. TypeOK
  BY DEF RefundInv, BooksInv, PaymentsInv
<1>1. /\ row \in SaleRows /\ q \in Nat \ {0} /\ refund \in Nat /\ ar \in Nat
      /\ group \in ReturnGroups /\ ReturnGroupBalances(group)
  BY <1>0, ReturnParts
<1>2. /\ Live(s) /\ row.returned + q <= row.qty
      /\ sales' = [sales EXCEPT ![s].returned = @ + q, ![s].refunded = @ + refund,
                                ![s].arBack = @ + ar, ![s].slips = @ + 1]
      /\ books' = [books EXCEPT ![s].returns = AddReturnGroup(@, group)]
      /\ payments' = payments
  BY DEF ReturnGoods
<1>3. group.revenue = refund /\ group.ar = ar
  BY DEF ReturnGroup
<1>4. ar = Least(refund, Excess(TotalOf(row) - row.paid, row.arBack))
  BY DEF ReceivableBack
<1>5. refund > 0 /\ q <= row.qty
  BY <1>0, ReturnParts DEF ReturnGoods
<1>12. refund = RefundFor(row, q)
  OBVIOUS
<1> HIDE DEF group, ar, refund
<1>6. /\ sales'[s].returned = row.returned + q /\ sales'[s].refunded = row.refunded + refund
      /\ sales'[s].arBack = row.arBack + ar /\ sales'[s].paid = row.paid
      /\ sales'[s].price = row.price /\ sales'[s].discount = row.discount
      /\ sales'[s].qty = row.qty /\ sales'[s].slips = row.slips + 1
      /\ sales'[s].status = row.status /\ sales'[s] \in SaleRows
  BY <1>0, <1>1, <1>2, ReturnGoodsType DEF TypeOK, SaleRows
<1>13. TotalOf(sales'[s]) = TotalOf(row)
  BY <1>6 DEF TotalOf
<1>7. /\ books'[s].sale = books[s].sale
      /\ books'[s].returns = AddReturnGroup(books[s].returns, group)
      /\ books[s].returns \in ReturnGroups /\ books[s].sale \in SaleGroups
  BY <1>0, <1>2 DEF TypeOK
<1>8. /\ books'[s].returns.ar = books[s].returns.ar + ar
      /\ books'[s].returns.revenue = books[s].returns.revenue + refund
      /\ ReturnGroupBalances(books'[s].returns) /\ books'[s].returns \in ReturnGroups
  <2>1. ReturnGroupBalances(books[s].returns)
    BY <1>2 DEF RefundInv, BooksInv, Consistent, Booked
  <2> QED
    BY <1>1, <1>3, <1>7, <2>1, AddReturnGroupType DEF AddReturnGroup
<1>9. ASSUME NEW g \in ReturnGroups, ReturnGroupBalances(g)
      PROVE  Collected(g.money) = g.revenue - g.ar /\ Collected(g.money) \in Nat
  BY <1>9 DEF ReturnGroups, ReturnGroupBalances, Collected, Tills
<1>10. Reckoned(s)
  <2>0. Live(s)'
    BY <1>2, <1>6 DEF Live
  <2>1. Refunds(row, books[s].returns) /\ ReturnGroupBalances(books[s].returns)
    BY <1>2 DEF RefundInv, BooksInv, Consistent, Booked
  <2>2. /\ row.paid \in Nat /\ row.arBack \in Nat /\ row.refunded \in Nat
        /\ row.returned \in Nat /\ row.price \in Nat /\ row.qty \in Nat /\ row.discount \in Nat
        /\ TotalOf(row) \in Int
        /\ books[s].sale.ar \in Nat /\ books[s].returns.ar \in Nat
        /\ PostedSum(payments, s) \in Nat
    BY <1>1, <1>7, TotalType, PostedType DEF SaleRows, SaleGroups, ReturnGroups
  <2>3. Refunds(sales[s], books[s].returns)'
    <3>1. RefundCovers(sales'[s])
      BY <1>1, <1>5, <1>6, <1>12, <2>1, RefundsAdd DEF Refunds
    <3> QED
      BY <1>6, <1>8, <2>1, <3>1 DEF Refunds
  <2>4. SaleAgrees(s) => SaleAgrees(s)'
    <3>1. SaleAgrees(s) => books[s].sale.ar - books[s].returns.ar - PostedSum(payments, s)
                             = TotalOf(row) - row.paid - row.arBack
      BY <1>2, AgreesMeans
    <3>2. SaleAgrees(s) => books[s].sale.ar - (books[s].returns.ar + ar) - PostedSum(payments, s)
                             = TotalOf(row) - row.paid - (row.arBack + ar)
      <4> DEFINE a == books[s].sale.ar
                 b == books[s].returns.ar
                 p == PostedSum(payments, s)
                 d == TotalOf(row)
                 m == row.paid
                 k == row.arBack
      <4>1. a \in Int /\ b \in Int /\ p \in Int /\ d \in Int /\ m \in Int /\ k \in Int
        BY <2>2
      <4>2. SaleAgrees(s) => a - b - p = d - m - k
        BY <3>1
      <4> HIDE DEF a, b, p, d, m, k
      <4>3. SaleAgrees(s) => a - (b + ar) - p = d - m - (k + ar)
        BY <1>1, <4>1, <4>2
      <4> QED
        BY <4>3 DEF a, b, p, d, m, k
    <3> QED
      BY <1>2, <1>6, <1>7, <1>8, <1>13, <2>0, <3>2, AgreesMeans
  <2>5. ASSUME ~OverRefunded(s) PROVE ~OverRefunded(s)'
    <3>1. /\ Rounded(row) \in Nat /\ Rounded(sales'[s]) \in Nat
          /\ Rounded(row) <= Rounded(sales'[s])
      <4>1. Roundings(sales'[s]) = Roundings(row)
        BY <1>6 DEF Roundings
      <4> DEFINE k == Roundings(row)
                 n == row.slips
      <4>2. k \in Nat /\ n \in Nat /\ n * k \in Nat /\ (n + 1) * k \in Nat
        BY <1>1, RoundedType
      <4>3. Rounded(row) = 1 + n * k /\ Rounded(sales'[s]) = 1 + (n + 1) * k
        BY <1>1, <1>6, <4>1, RoundedType
      <4> HIDE DEF k, n
      <4>4. (n + 1) * k = n * k + k
        BY <4>2
      <4> QED
        BY <4>2, <4>3, <4>4
    <3>2. 2 * ((row.refunded - row.arBack) - row.paid) <= Rounded(row)
      <4>1. Collected(books[s].returns.money) = row.refunded - row.arBack
        BY <1>7, <1>9, <2>1 DEF Refunds
      <4> QED
        BY <1>2, <2>2, <2>5, <3>1, <4>1 DEF OverRefunded
    <3>3. 2 * ((row.refunded + refund) - TotalOf(row)) <= Rounded(sales'[s])
      <4>1. row.paid <= TotalOf(row)
        BY <1>2 DEF RefundInv, BooksInv, PaymentsInv, PaidIsRecorded
      <4>2. TotalOf(sales'[s]) >= 0 /\ sales'[s].qty > 0
            /\ sales'[s].returned <= sales'[s].qty
        BY <1>1, <1>2, <1>5, <1>6, <1>13, <2>2, <4>1
      <4>3. RefundCovers(sales'[s])
        BY <2>3 DEF Refunds
      <4>4. 2 * (sales'[s].refunded - TotalOf(sales'[s])) <= Rounded(sales'[s])
        BY <1>6, <4>2, <4>3, RefundedWithinTotal
      <4> QED
        BY <1>6, <1>13, <4>4
    <3>4. 2 * (((row.refunded + refund) - (row.arBack + ar)) - row.paid) <= Rounded(sales'[s])
      <4> DEFINE total == TotalOf(row)
                 more == Rounded(sales'[s])
                 paid == row.paid
                 refunded == row.refunded
                 arBack == row.arBack
      <4>1. /\ total \in Int /\ paid \in Nat /\ refunded \in Nat /\ arBack \in Nat
            /\ refund \in Nat /\ ar = Least(refund, Excess(total - paid, arBack))
            /\ more \in Nat
        BY <1>1, <1>4, <2>2, <3>1
      <4>2. /\ 2 * ((refunded - arBack) - paid) <= more
            /\ 2 * ((refunded + refund) - total) <= more
        BY <2>2, <3>1, <3>2, <3>3
      <4> HIDE DEF total, more, paid, refunded, arBack
      <4>3. 2 * (((refunded + refund) - (arBack + ar)) - paid) <= more
        <5>1. CASE total - paid > arBack
          <6>1. Excess(total - paid, arBack) = total - paid - arBack
            BY <5>1 DEF Excess
          <6>2. CASE refund <= total - paid - arBack
            BY <1>1, <4>1, <4>2, <6>1, <6>2 DEF Least
          <6>3. CASE refund > total - paid - arBack
            <7>1. ar = total - paid - arBack
              BY <1>1, <4>1, <6>1, <6>3 DEF Least
            <7> QED
              BY <1>1, <4>1, <4>2, <7>1
          <6> QED
            BY <1>1, <4>1, <6>2, <6>3
        <5>2. CASE ~(total - paid > arBack)
          <6>1. ar = 0
            BY <1>1, <4>1, <5>2 DEF Excess, Least
          <6> QED
            BY <1>1, <4>1, <4>2, <5>2, <6>1
        <5> QED
          BY <5>1, <5>2
      <4> QED
        BY <4>3 DEF total, more, paid, refunded, arBack
    <3>5. Collected(books'[s].returns.money)
            = (row.refunded + refund) - (row.arBack + ar)
      BY <1>8, <1>9, <2>1 DEF Refunds
    <3> QED
      BY <1>1, <1>6, <2>2, <3>1, <3>4, <3>5 DEF OverRefunded
  <2> QED
    BY <2>3, <2>4, <2>5 DEF Reckoned, ReceivableStep, RefundStep
<1>11. ASSUME NEW t \in Sales \ {s} PROVE Reckoned(t)
  <2>1. sales'[t] = sales[t] /\ books'[t] = books[t]
    BY <1>0, <1>2 DEF TypeOK
  <2> QED
    BY <1>2, <2>1, UntouchedReckoned
<1> QED
  BY <1>10, <1>11

(* Every step of the desk is reckoned on every sale.                        *)
LEMMA NextReckoned ==
    ASSUME RefundInv, [Next]_vars
    PROVE  \A t \in Sales : Reckoned(t)
<1>1. CASE Ring
  BY <1>1, CreateSaleReckoned DEF Ring
<1>2. ASSUME NEW s \in Sales, Edit(s) PROVE \A t \in Sales : Reckoned(t)
  BY <1>2, UpdateSaleReckoned DEF Edit
<1>3. ASSUME NEW s \in Sales, DeleteSale(s) PROVE \A t \in Sales : Reckoned(t)
  BY <1>3, DeleteSaleReckoned
<1>4. CASE Settle
  BY <1>4, RecordPaymentReckoned DEF Settle
<1>5. ASSUME NEW p \in Payments, VoidPayment(p) PROVE \A t \in Sales : Reckoned(t)
  BY <1>5, VoidPaymentReckoned
<1>6. CASE Return
  BY <1>6, ReturnGoodsReckoned DEF Return
<1>7. CASE UNCHANGED <<sales, payments, books>>
  BY <1>7, UntouchedReckoned
<1>8. Supply => UNCHANGED <<sales, payments, books>>
  BY DEF Supply, ReceiveStock, AdjustStock
<1> QED
  BY <1>1, <1>2, <1>3, <1>4, <1>5, <1>6, <1>7, <1>8 DEF Next, vars

(* The returns of a sale are what their groups say, from the start on.      *)
LEMMA RefundsHold == Spec => []RefundInv
<1>1. Init => RefundInv
  <2> SUFFICES ASSUME Init, NEW s \in Sales PROVE Refunds(sales[s], books[s].returns)
    BY InitBooks DEF RefundInv
  <2>1. sales[s] = BlankSale("unused") /\ books[s].returns = NoReturnGroup
    BY DEF Init, NoBooks
  <2> QED
    BY <2>1, NoMoneyBack, BlankCovers DEF Refunds, BlankSale
<1>2. RefundInv /\ [Next]_vars => RefundInv'
  <2> SUFFICES ASSUME RefundInv, [Next]_vars PROVE RefundInv'
    OBVIOUS
  <2>1. BooksInv'
    BY NextBooks DEF RefundInv
  <2>2. \A t \in Sales : Refunds(sales[t], books[t].returns)'
    BY NextReckoned DEF Reckoned
  <2> QED
    BY <2>1, <2>2 DEF RefundInv
<1> QED
  BY <1>1, <1>2, PTL DEF Spec

(* The receivable of a sale in the ledger is parted from what the sale owes *)
(* by an edit after a settlement and by the void of a till payment, and by  *)
(* nothing else: no order of sales, settlements, voids and returns does it. *)
THEOREM OnlyReworkParts == Spec => OnlyReworkPartsTheBooks
<1>1. RefundInv /\ [Next]_vars
        => [\A s \in Sales : SaleAgrees(s) /\ ~SaleAgrees(s)' => EditSettled(s) \/ VoidTill(s)]_vars
  BY NextReckoned DEF Reckoned, ReceivableStep
<1> QED
  BY <1>1, RefundsHold, PTL DEF Spec, OnlyReworkPartsTheBooks

(* The money handed back for a sale stays within what was collected on it,  *)
(* but for what the total and its returns rounded, until a payment of it is *)
(* voided.                                                                  *)
THEOREM RefundsStayWithinPayments == Spec => RefundsWithinPayments
<1>1. RefundInv /\ [Next]_vars
        => [\A s \in Sales :
              ~OverRefunded(s) /\ OverRefunded(s)' => VoidOn(s)]_vars
  BY NextReckoned DEF Reckoned, RefundStep
<1> QED
  BY <1>1, RefundsHold, PTL DEF Spec, RefundsWithinPayments
=============================================================================
