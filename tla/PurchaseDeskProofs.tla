------------------------- MODULE PurchaseDeskProofs -------------------------
(***************************************************************************)
(* Theorems about PurchaseDesk, for every value of its constants.  One     *)
(* inductive invariant carries them: PurchaseInv, which says of each row   *)
(* what the others may rely on (RowInv), of each payment whose Khata it is *)
(* in, of each ledger group what it posts (BooksInv) and of the shelf what *)
(* is on it.                                                               *)
(***************************************************************************)
EXTENDS PurchaseDesk, FiniteSetTheorems, FunctionTheorems, TLAPS

-----------------------------------------------------------------------------
(* Sums over rows, when rows are added, removed or rewritten.               *)

(* The sum of finitely many amounts is a natural number.                    *)
LEMMA TallyType ==
    ASSUME NEW f, NEW S, IsFiniteSet(S)
    PROVE  /\ IsFiniteSet(Units(f, S))
           /\ TallyOf(f, S) \in Nat
<1>1. IsFiniteSet(Amounts)
  BY FS_Interval, MaxAmountIsNat DEF Amounts
<1>2. IsFiniteSet(S \X Amounts)
  BY <1>1, FS_Product
<1>3. Units(f, S) \in SUBSET (S \X Amounts)
  BY DEF Units
<1>4. IsFiniteSet(Units(f, S))
  BY <1>2, <1>3, FS_Subset
<1> QED
  BY <1>4, FS_CardinalityType DEF TallyOf

(* Nothing sums to nothing.                                                 *)
LEMMA TallyEmpty ==
    ASSUME NEW f
    PROVE  TallyOf(f, {}) = 0
<1>1. Units(f, {}) = {}
  BY DEF Units
<1> QED
  BY <1>1, FS_EmptySet DEF TallyOf

(* A sum only depends on the column of the rows summed.                     *)
LEMMA TallySame ==
    ASSUME NEW f, NEW g, NEW S, \A x \in S : f[x] = g[x]
    PROVE  TallyOf(f, S) = TallyOf(g, S)
<1>1. Units(f, S) = Units(g, S)
  BY DEF Units
<1> QED
  BY <1>1 DEF TallyOf

(* Adding a row adds its amount; removing one takes it away.                *)
LEMMA TallyAdd ==
    ASSUME NEW f, NEW S, NEW x, IsFiniteSet(S), x \notin S, f[x] \in 0 .. MaxAmount
    PROVE  TallyOf(f, S \cup {x}) = TallyOf(f, S) + f[x]
<1> DEFINE row == {x} \X (1 .. f[x])
<1>1. Units(f, S \cup {x}) = Units(f, S) \cup row /\ Units(f, S) \cap row = {}
  BY MaxAmountIsNat DEF Units, Amounts
<1>2. f[x] \in Nat
  BY MaxAmountIsNat
<1>3. IsFiniteSet(1 .. f[x]) /\ Cardinality(1 .. f[x]) = IF 1 > f[x] THEN 0 ELSE f[x] - 1 + 1
  BY <1>2, FS_Interval
<1>4. IsFiniteSet({x}) /\ Cardinality({x}) = 1
  BY FS_Singleton
<1>5. IsFiniteSet(row) /\ Cardinality(row) = Cardinality({x}) * Cardinality(1 .. f[x])
  BY <1>3, <1>4, FS_Product
<1>6. Cardinality(row) = f[x]
  <2>1. Cardinality(1 .. f[x]) = f[x]
    BY <1>2, <1>3
  <2> HIDE DEF row
  <2> QED
    BY <1>2, <1>4, <1>5, <2>1
<1> HIDE DEF row
<1>7. IsFiniteSet(Units(f, S)) /\ Cardinality(Units(f, S)) \in Nat
  BY TallyType DEF TallyOf
<1>8. Cardinality({}) = 0
  BY FS_EmptySet
<1>9. Cardinality(Units(f, S) \cup row) = Cardinality(Units(f, S)) + Cardinality(row) - 0
  BY <1>1, <1>5, <1>7, <1>8, FS_Union
<1>10. Cardinality(Units(f, S \cup {x})) = Cardinality(Units(f, S)) + f[x]
  BY <1>1, <1>2, <1>6, <1>7, <1>9
<1> QED
  BY <1>10 DEF TallyOf

-----------------------------------------------------------------------------
StockRows == [Variants -> [quantity : Nat, average : Nat]]

-----------------------------------------------------------------------------
(* Type correctness.                                                        *)

(* Round-half-up division of naturals is a natural.                         *)
LEMMA RoundDivType ==
    ASSUME NEW n \in Nat, NEW d \in Nat \ {0}
    PROVE  RoundDiv(n, d) \in Nat
<1>1. 2 * n + d \in Nat /\ 2 * d \in Nat /\ 2 * d > 0
  OBVIOUS
<1> QED
  BY <1>1 DEF RoundDiv

(* A costed receipt keeps the inventory row a pair of naturals and adds     *)
(* what was received.                                                       *)
LEMMA ReceiptType ==
    ASSUME stock \in StockRows, NEW v \in Variants, NEW q \in Nat \ {0}, NEW cost \in Nat
    PROVE  /\ CostedReceipt(v, q, cost)[v] \in [quantity : Nat, average : Nat]
           /\ CostedReceipt(v, q, cost)[v].quantity = stock[v].quantity + q
<1>1. stock[v] \in [quantity : Nat, average : Nat]
  BY DEF StockRows
<1>2. stock[v].quantity + q \in Nat \ {0}
  BY <1>1
<1>3. AverageScale \in Nat
  BY InventoryAssumption
<1>4. stock[v].quantity * stock[v].average \in Nat /\ q * cost * AverageScale \in Nat
  BY <1>1, <1>3
<1>5. stock[v].quantity * stock[v].average + q * cost * AverageScale \in Nat
  BY <1>4
<1>6. AverageAfter(stock[v], q, cost) \in Nat
  BY <1>2, <1>5, RoundDivType DEF AverageAfter
<1>7. CostedReceipt(v, q, cost)[v]
        = [quantity |-> stock[v].quantity + q, average |-> AverageAfter(stock[v], q, cost)]
  BY DEF CostedReceipt, StockRows
<1> QED
  BY <1>2, <1>6, <1>7

Lines == [Variants -> Line]

(* The lines of a purchase that replace others: the shelf moves by the      *)
(* change of each, and stays natural.                                       *)
LEMMA ReceivedType ==
    ASSUME stock \in StockRows, NEW old \in Lines, NEW new \in Lines, Receivable(old, new)
    PROVE  /\ Received(old, new) \in StockRows
           /\ \A v \in Variants :
                 Received(old, new)[v].quantity = stock[v].quantity + (new[v].qty - old[v].qty)
<1> SUFFICES ASSUME NEW v \in Variants
             PROVE  /\ Received(old, new)[v] \in [quantity : Nat, average : Nat]
                    /\ Received(old, new)[v].quantity
                          = stock[v].quantity + (new[v].qty - old[v].qty)
  BY DEF Received, StockRows
<1> DEFINE d == new[v].qty - old[v].qty
<1>1. /\ d \in Int /\ new[v].cost \in Nat /\ Change(old, new, v) = d
      /\ stock[v] \in [quantity : Nat, average : Nat]
  BY DEF Lines, Line, Change, StockRows
<1>2. stock[v].quantity + d \in Nat
  BY <1>1, InventoryAssumption DEF Receivable
<1> HIDE DEF d
<1>3. Received(old, new)[v] = IF d > 0 THEN CostedReceipt(v, d, new[v].cost)[v]
                              ELSE [stock[v] EXCEPT !.quantity = @ + d]
  BY <1>1 DEF Received
<1>4. CASE d > 0
  BY <1>1, <1>3, <1>4, ReceiptType DEF d
<1>5. CASE ~(d > 0)
  BY <1>1, <1>2, <1>3, <1>5 DEF d
<1> QED
  BY <1>4, <1>5

(* Uncosted movements that are available keep the stock natural.            *)
LEMMA ShiftType ==
    ASSUME stock \in StockRows, NEW need \in [Variants -> Int], Available(need)
    PROVE  /\ Shift(need) \in StockRows
           /\ \A v \in Variants : Shift(need)[v].quantity = stock[v].quantity - need[v]
<1> SUFFICES ASSUME NEW v \in Variants
             PROVE  /\ Shift(need)[v] \in [quantity : Nat, average : Nat]
                    /\ Shift(need)[v].quantity = stock[v].quantity - need[v]
  BY DEF Shift, StockRows
<1>1. stock[v] \in [quantity : Nat, average : Nat] /\ need[v] \in Int
  BY DEF StockRows
<1>2. need[v] > 0 => need[v] <= stock[v].quantity
  BY DEF Available
<1> QED
  BY <1>1, <1>2 DEF Shift

(* What a request lists is a typed line, in units that fit a column.        *)
LEMMA ListsType ==
    ASSUME NEW lines \in Lists
    PROVE  lines \in Lines /\ \A v \in Variants : lines[v].qty \in 0 .. MaxAmount
<1>1. lines \in [Variants -> [qty : Quantities, cost : Costs] \cup {NoLine}]
  BY DEF Lists
<1> SUFFICES ASSUME NEW v \in Variants
             PROVE  lines[v] \in Line /\ lines[v].qty \in 0 .. MaxAmount
  BY <1>1 DEF Lines
<1>2. CASE lines[v] \in [qty : Quantities, cost : Costs]
  <2>1. lines[v].qty \in Quantities /\ lines[v].cost \in Costs
    BY <1>2
  <2>2. /\ \A q \in Quantities : q \in 0 .. MaxAmount /\ q \in Nat
        /\ \A cost \in Costs : cost \in Nat
    BY PurchaseAssumption, MaxAmountIsNat DEF Amounts
  <2>3. lines[v] = [qty |-> lines[v].qty, cost |-> lines[v].cost]
    BY <1>2
  <2> QED
    BY <2>1, <2>2, <2>3 DEF Line
<1>3. CASE lines[v] = NoLine
  BY <1>3, MaxAmountIsNat DEF Line, NoLine
<1> QED
  BY <1>1, <1>2, <1>3

(* Rows that are unused or deleted are well typed.                          *)
LEMMA BlankTypes ==
    /\ \A status \in {"unused", "live", "deleted"} :
           /\ BlankPurchase(status) \in PurchaseRows
           /\ BlankPayment(status) \in PaymentRows
    /\ [v \in Variants |-> NoLine] \in Lines
    /\ NoReturn \in [Variants -> Nat]
<1>1. [v \in Variants |-> NoLine] \in Lines /\ NoReturn \in [Variants -> Nat]
  BY DEF NoLine, Lines, Line, NoReturn
<1>2. 0 \in 0 .. MaxAmount
  BY MaxAmountIsNat
<1> QED
  BY <1>1, <1>2 DEF BlankPurchase, BlankPayment, PurchaseRows, PaymentRows, Lines

(* The total of a typed row is an integer; the actions keep it natural.     *)
LEMMA TotalType ==
    ASSUME NEW row \in PurchaseRows
    PROVE  TotalOf(row) \in Int
<1>1. Subtotal(row.lines) \in Nat
  BY TallyType, PurchaseAssumption DEF Subtotal
<1>2. row.discount \in Nat
  BY DEF PurchaseRows
<1> QED
  BY <1>1, <1>2 DEF TotalOf

(* An empty shop is well typed.                                             *)
LEMMA InitType == Init => TypeOK
<1>1. NotSold \in [variant : Variants, out : Nat, cost : Nat]
  BY InventoryAssumption DEF NotSold
<1> QED
  BY <1>1, BlankTypes DEF Init, TypeOK

(* create_purchase keeps the types.                                         *)
LEMMA CreatePurchaseType ==
    ASSUME TypeOK, NEW b \in Purchases, NEW s \in Suppliers, NEW lines \in Lists,
           NEW discount \in Discounts, NEW advance \in Advances,
           CreatePurchase(b, s, lines, discount, advance)
    PROVE  TypeOK'
<1> DEFINE row == [BlankPurchase("live") EXCEPT
                      !.supplier = s, !.lines = lines, !.discount = discount, !.paid = advance]
<1>1. lines \in Lines /\ discount \in Nat /\ advance \in Nat
  BY ListsType, PurchaseAssumption
<1>2. row \in PurchaseRows
  BY <1>1, BlankTypes DEF PurchaseRows, Lines
<1>3. /\ TotalOf(row) \in Nat
      /\ Receivable(BlankPurchase("unused").lines, lines)
      /\ purchases' = [purchases EXCEPT ![b] = row]
      /\ stock' = Received(BlankPurchase("unused").lines, lines)
      /\ books' = [books EXCEPT !.purchase[b] = Posted(@, TotalOf(row))]
      /\ payments' = payments /\ UNCHANGED <<sold, opened, elsewhere>>
  BY MaxAmountIsNat DEF CreatePurchase
<1>4. stock' \in StockRows
  BY <1>1, <1>3, ReceivedType, BlankTypes DEF TypeOK, StockRows, BlankPurchase
<1> HIDE DEF row
<1>5. books' \in [purchase : [Purchases -> Nat], payment : [Payments -> Nat],
                  returned : [Purchases -> Nat]]
  BY <1>3 DEF Posted, TypeOK
<1> QED
  BY <1>2, <1>3, <1>4, <1>5 DEF TypeOK, StockRows

(* A payment that moves to another supplier stays typed.                    *)
LEMMA SupplierType ==
    ASSUME NEW row \in PaymentRows, NEW s \in Suppliers
    PROVE  [row EXCEPT !.supplier = s] \in PaymentRows
BY DEF PaymentRows

(* update_purchase keeps the types.                                         *)
LEMMA UpdatePurchaseType ==
    ASSUME TypeOK, NEW b \in Purchases, NEW s \in Suppliers,
           NEW lines \in Lists \cup {purchases[b].lines},
           NEW discount \in Discounts \cup {purchases[b].discount},
           UpdatePurchase(b, s, lines, discount)
    PROVE  TypeOK'
<1> DEFINE row == [purchases[b] EXCEPT !.supplier = s, !.lines = lines, !.discount = discount]
<1>1. purchases[b] \in PurchaseRows /\ purchases[b].lines \in Lines
  BY DEF TypeOK, PurchaseRows, Lines
<1>2. lines \in Lines /\ discount \in Nat
  BY <1>1, ListsType, PurchaseAssumption DEF PurchaseRows
<1>3. row \in PurchaseRows
  BY <1>1, <1>2 DEF PurchaseRows, Lines
<1>4. /\ TotalOf(row) \in Nat
      /\ Receivable(purchases[b].lines, lines)
      /\ purchases' = [purchases EXCEPT ![b] = row]
      /\ stock' = Received(purchases[b].lines, lines)
      /\ payments' = Repointed(b, s)
      /\ books' = [Unposted(b) EXCEPT !.purchase[b] = Posted(@, TotalOf(row))]
      /\ UNCHANGED <<sold, opened, elsewhere>>
  BY MaxAmountIsNat DEF UpdatePurchase
<1>5. stock' \in StockRows
  BY <1>1, <1>2, <1>4, ReceivedType DEF TypeOK, StockRows
<1> HIDE DEF row
<1>6. books' \in [purchase : [Purchases -> Nat], payment : [Payments -> Nat],
                  returned : [Purchases -> Nat]]
  BY <1>4 DEF Posted, Unposted, TypeOK
<1>7. payments' \in [Payments -> PaymentRows]
  <2>1. ASSUME NEW p \in Payments
        PROVE  /\ payments[p] \in PaymentRows
               /\ [payments[p] EXCEPT !.supplier = s] \in PaymentRows
    <3>1. payments[p] \in PaymentRows
      BY DEF TypeOK
    <3> QED
      BY <3>1, SupplierType
  <2>2. payments' = [p \in Payments |-> IF p \in AllocatedTo(b)
                                         THEN [payments[p] EXCEPT !.supplier = s] ELSE payments[p]]
    BY <1>4 DEF Repointed
  <2> QED
    BY <2>1, <2>2, Zenon
<1> QED
  BY <1>3, <1>4, <1>5, <1>6, <1>7 DEF TypeOK, StockRows

(* delete_purchase keeps the types.                                         *)
LEMMA DeletePurchaseType ==
    ASSUME TypeOK, NEW b \in Purchases, DeletePurchase(b)
    PROVE  TypeOK'
<1> DEFINE none == BlankPurchase("deleted")
<1>1. none \in PurchaseRows /\ none.lines \in Lines /\ purchases[b].lines \in Lines
  BY BlankTypes DEF TypeOK, PurchaseRows, Lines
<1>2. /\ Receivable(purchases[b].lines, none.lines)
      /\ purchases' = [purchases EXCEPT ![b] = none]
      /\ stock' = Received(purchases[b].lines, none.lines)
      /\ payments' = [p \in Payments |-> IF p \in AllocatedTo(b)
                                         THEN BlankPayment("deleted") ELSE payments[p]]
      /\ books' = [Unposted(b) EXCEPT
                      !.payment = [p \in Payments |-> IF p \in AllocatedTo(b) THEN 0 ELSE @[p]]]
      /\ UNCHANGED <<sold, opened, elsewhere>>
  BY DEF DeletePurchase
<1>3. stock' \in StockRows
  BY <1>1, <1>2, ReceivedType DEF TypeOK, StockRows
<1>4. payments' \in [Payments -> PaymentRows]
  <2>1. \A p \in Payments : payments[p] \in PaymentRows
    BY DEF TypeOK
  <2>2. BlankPayment("deleted") \in PaymentRows
    BY BlankTypes
  <2>3. payments' = [p \in Payments |-> IF p \in AllocatedTo(b)
                                         THEN BlankPayment("deleted") ELSE payments[p]]
    BY <1>2
  <2> HIDE DEF none
  <2> QED
    BY <2>1, <2>2, <2>3, Zenon
<1>5. books' \in [purchase : [Purchases -> Nat], payment : [Payments -> Nat],
                  returned : [Purchases -> Nat]]
  BY <1>2 DEF Unposted, TypeOK
<1> QED
  BY <1>1, <1>2, <1>3, <1>4, <1>5 DEF TypeOK, StockRows

(* One row replaced by another.                                             *)
LEMMA RowsType ==
    ASSUME NEW rows \in [Purchases -> PurchaseRows], NEW b \in Purchases,
           NEW row \in PurchaseRows
    PROVE  [rows EXCEPT ![b] = row] \in [Purchases -> PurchaseRows]
OBVIOUS

(* A row whose paid_amount is set to a natural stays typed.                 *)
LEMMA PaidType ==
    ASSUME NEW row \in PurchaseRows, NEW paid \in Nat
    PROVE  [row EXCEPT !.paid = paid] \in PurchaseRows
BY DEF PurchaseRows

(* record_supplier_payment keeps the types.                                 *)
LEMMA RecordPaymentType ==
    ASSUME TypeOK, NEW p \in Payments, NEW s \in Suppliers,
           NEW b \in Purchases \cup {NoPurchase}, NEW amount \in Amounts,
           RecordPayment(p, s, b, amount)
    PROVE  TypeOK'
<1>1. amount \in Nat /\ amount \in 0 .. MaxAmount
  BY MaxAmountIsNat DEF Amounts
<1>2. purchases' \in [Purchases -> PurchaseRows]
  <2>1. \A t \in Purchases : purchases[t] \in PurchaseRows /\ purchases[t].paid + amount \in Nat
    BY <1>1 DEF TypeOK, PurchaseRows
  <2>2. \/ purchases' = purchases
        \/ /\ b \in Purchases
           /\ purchases' = [purchases EXCEPT ![b] = [@ EXCEPT !.paid = purchases[b].paid + amount]]
    BY DEF RecordPayment, TypeOK
  <2>3. purchases \in [Purchases -> PurchaseRows]
    BY DEF TypeOK
  <2>4. CASE b \in Purchases
    <3>1. [purchases[b] EXCEPT !.paid = purchases[b].paid + amount] \in PurchaseRows
      BY <2>1, <2>4, PaidType
    <3> QED
      BY <2>2, <2>3, <2>4, <3>1, RowsType
  <2> QED
    BY <2>2, <2>3, <2>4
<1>3. payments' \in [Payments -> PaymentRows]
  BY <1>1 DEF RecordPayment, TypeOK, PaymentRows
<1>4. books' \in [purchase : [Purchases -> Nat], payment : [Payments -> Nat],
                  returned : [Purchases -> Nat]]
  BY <1>1 DEF RecordPayment, Posted, TypeOK
<1> QED
  BY <1>2, <1>3, <1>4 DEF RecordPayment, shelf, TypeOK

(* void_payment keeps the types.                                            *)
LEMMA VoidPaymentType ==
    ASSUME TypeOK, NEW p \in Payments, VoidPayment(p)
    PROVE  TypeOK'
<1>1. payments[p] \in PaymentRows /\ payments[p].amount \in Nat
  BY MaxAmountIsNat DEF TypeOK, PaymentRows
<1>2. \A b \in Purchases : PaidAfterVoid(purchases[b], payments[p].amount) \in Nat
  BY <1>1 DEF PaidAfterVoid, Excess, TypeOK, PurchaseRows
<1>3. purchases' \in [Purchases -> PurchaseRows]
  <2> DEFINE b == payments[p].purchase
  <2>1. b \in Purchases \cup {NoPurchase}
    BY <1>1 DEF PaymentRows
  <2>2. \/ purchases' = purchases
        \/ /\ b \in Purchases
           /\ purchases' = [purchases EXCEPT
                  ![b] = [@ EXCEPT !.paid = PaidAfterVoid(purchases[b], payments[p].amount)]]
    BY <2>1 DEF VoidPayment, TypeOK
  <2> HIDE DEF b
  <2>3. purchases \in [Purchases -> PurchaseRows]
    BY DEF TypeOK
  <2>4. CASE b \in Purchases
    <3> DEFINE paid == PaidAfterVoid(purchases[b], payments[p].amount)
    <3>1. purchases[b] \in PurchaseRows /\ paid \in Nat
      BY <1>2, <2>3, <2>4
    <3> HIDE DEF paid
    <3>2. [purchases[b] EXCEPT !.paid = paid] \in PurchaseRows
      BY <3>1, PaidType
    <3>3. \/ purchases' = purchases
          \/ purchases' = [purchases EXCEPT ![b] = [purchases[b] EXCEPT !.paid = paid]]
      BY <2>2, <2>3, <2>4 DEF paid
    <3> QED
      BY <2>3, <2>4, <3>2, <3>3, RowsType
  <2> QED
    BY <2>2, <2>3, <2>4
<1>4. payments' \in [Payments -> PaymentRows]
  BY BlankTypes DEF VoidPayment, TypeOK
<1>5. books' \in [purchase : [Purchases -> Nat], payment : [Payments -> Nat],
                  returned : [Purchases -> Nat]]
  BY DEF VoidPayment, TypeOK
<1> QED
  BY <1>3, <1>4, <1>5 DEF VoidPayment, shelf, TypeOK

(* What a return brings back is some units of some lines.                   *)
LEMMA BackType ==
    ASSUME NEW back \in [Variants -> Quantities \cup {0}] \ {NoReturn}
    PROVE  /\ back \in [Variants -> Nat] /\ back \in [Variants -> Int]
           /\ \E v \in Variants : back[v] > 0
<1>1. back \in [Variants -> Nat]
  <2>1. Quantities \cup {0} \subseteq Nat
    BY PurchaseAssumption, MaxAmountIsNat DEF Amounts
  <2> QED
    BY <2>1
<1>2. \E v \in Variants : back[v] # 0
  BY <1>1 DEF NoReturn
<1> QED
  BY <1>1, <1>2

(* create_purchase_return keeps the types.                                  *)
LEMMA ReturnGoodsType ==
    ASSUME TypeOK, NEW b \in Purchases,
           NEW back \in [Variants -> Quantities \cup {0}] \ {NoReturn}, ReturnGoods(b, back)
    PROVE  TypeOK'
<1> DEFINE refund == RefundFor(purchases[b], back)
<1>1. refund \in Nat
  BY TallyType, PurchaseAssumption DEF RefundFor
<1>2. /\ Available(back)
      /\ purchases' = [purchases EXCEPT
                          ![b].returned = [v \in Variants |-> @[v] + back[v]],
                          ![b].refunded = @ + refund]
      /\ stock' = Shift(back)
      /\ books' = [books EXCEPT !.returned[b] = @ + refund]
      /\ payments' = payments /\ UNCHANGED <<sold, opened, elsewhere>>
  BY DEF ReturnGoods
<1> HIDE DEF refund
<1>3. stock' \in StockRows
  BY <1>2, BackType, ShiftType DEF TypeOK, StockRows
<1>4. purchases' \in [Purchases -> PurchaseRows]
  <2>1. [v \in Variants |-> purchases[b].returned[v] + back[v]] \in [Variants -> Nat]
    BY SMTT(40), BackType DEF TypeOK, PurchaseRows
  <2> DEFINE units == [v \in Variants |-> purchases[b].returned[v] + back[v]]
             money == purchases[b].refunded + refund
  <2>2. units \in [Variants -> Nat] /\ money \in Nat /\ purchases[b] \in PurchaseRows
    BY <1>1, <2>1 DEF TypeOK, PurchaseRows
  <2>3. purchases' = [purchases EXCEPT
                         ![b] = [purchases[b] EXCEPT !.returned = units, !.refunded = money]]
    BY <1>2 DEF TypeOK
  <2> HIDE DEF units, money
  <2>4. [purchases[b] EXCEPT !.returned = units, !.refunded = money] \in PurchaseRows
    BY <2>2 DEF PurchaseRows
  <2> QED
    BY <2>3, <2>4 DEF TypeOK
<1>5. books' \in [purchase : [Purchases -> Nat], payment : [Payments -> Nat],
                  returned : [Purchases -> Nat]]
  <2>1. books \in [purchase : [Purchases -> Nat], payment : [Payments -> Nat],
                   returned : [Purchases -> Nat]]
    BY DEF TypeOK
  <2>2. books.returned[b] + refund \in Nat
    BY <1>1, <2>1
  <2>3. books' = [books EXCEPT !.returned = [@ EXCEPT ![b] = books.returned[b] + refund]]
    BY <1>2, <2>1
  <2> QED
    BY <2>1, <2>2, <2>3
<1> QED
  BY <1>2, <1>3, <1>4, <1>5 DEF TypeOK, StockRows

(* The cost a sale line is taken at is a natural.                           *)
LEMMA SnapshotType ==
    ASSUME TypeOK, NEW v \in Variants
    PROVE  SnapshotCost(v) \in Nat
<1>1. stock[v].average \in Nat
  BY DEF TypeOK
<1> QED
  BY <1>1, InventoryAssumption, RoundDivType DEF SnapshotCost

(* What moves elsewhere moves on the shelf, whatever it costs.              *)
LEMMA MovesType ==
    ASSUME TypeOK, NEW v \in Variants, NEW delta \in Int, MovesElsewhere(v, delta),
           NEW row \in [quantity : Nat, average : Nat],
           row.quantity = stock[v].quantity + delta, stock' = [stock EXCEPT ![v] = row],
           sold' \in [SaleLines -> [variant : Variants, out : Nat, cost : Nat]],
           opened' \subseteq Variants
    PROVE  TypeOK' /\ \A w \in Variants : stock'[w].quantity - elsewhere'[w]
                                            = stock[w].quantity - elsewhere[w]
<1>1. stock[v].quantity \in Nat /\ elsewhere[v] \in Int
  BY DEF TypeOK
<1>2. /\ elsewhere' = [elsewhere EXCEPT ![v] = @ + delta]
      /\ purchases' = purchases /\ payments' = payments /\ books' = books
  BY DEF MovesElsewhere
<1>3. elsewhere' \in [Variants -> Int] /\ stock' \in [Variants -> [quantity : Nat, average : Nat]]
  BY <1>2 DEF TypeOK
<1>4. ASSUME NEW w \in Variants
      PROVE  stock'[w].quantity - elsewhere'[w] = stock[w].quantity - elsewhere[w]
  <2>1. CASE w = v
    BY <1>1, <1>2, <2>1 DEF TypeOK
  <2>2. CASE w # v
    BY <1>2, <2>2 DEF TypeOK
  <2> QED
    BY <2>1, <2>2
<1> QED
  BY <1>2, <1>3, <1>4 DEF TypeOK

(* The movements of quantities are integers.                                *)
LEMMA QuantityType == \A q \in Quantities : q \in Int /\ -q \in Int /\ q \in Nat \ {0}
BY PurchaseAssumption, MaxAmountIsNat DEF Amounts

(* Adjustments, openings, sales and customers' returns keep the types.      *)
LEMMA MoveType ==
    ASSUME TypeOK, Move
    PROVE  /\ TypeOK' /\ UNCHANGED <<purchases, payments, books>>
           /\ \A w \in Variants : stock'[w].quantity - elsewhere'[w]
                                      = stock[w].quantity - elsewhere[w]
<1>0. /\ stock \in StockRows /\ MaxStock \in Nat
      /\ \A v \in Variants : stock[v] \in [quantity : Nat, average : Nat]
      /\ \A v \in Variants : \A delta : MovesElsewhere(v, delta) =>
            /\ UNCHANGED <<purchases, payments, books>>
            /\ stock[v].quantity + delta \in Nat
  BY InventoryAssumption DEF TypeOK, StockRows, MovesElsewhere
<1>1. PICK q \in Quantities :
         \/ \E v \in Variants :
               \/ AdjustStock(v, q) \/ AdjustStock(v, -q)
               \/ \E cost \in Costs : PostOpening(v, q, cost)
               \/ \E l \in SaleLines : SellLine(l, v, q)
         \/ \E l \in SaleLines : TakeBack(l, q)
  BY DEF Move
<1>2. q \in Nat \ {0} /\ q \in Int /\ -q \in Int
  BY QuantityType
<1>3. ASSUME NEW v \in Variants, NEW delta \in Int, AdjustStock(v, delta)
      PROVE  TypeOK' /\ UNCHANGED <<purchases, payments, books>>
             /\ \A w \in Variants : stock'[w].quantity - elsewhere'[w]
                                        = stock[w].quantity - elsewhere[w]
  <2> DEFINE row == [stock[v] EXCEPT !.quantity = @ + delta]
  <2>1. /\ MovesElsewhere(v, delta) /\ stock' = [stock EXCEPT ![v] = row]
        /\ sold' = sold /\ opened' = opened
    BY <1>0, <1>3 DEF AdjustStock, StockRows
  <2>2. /\ row \in [quantity : Nat, average : Nat]
        /\ row.quantity = stock[v].quantity + delta
    BY <1>0, <2>1
  <2> HIDE DEF row
  <2>3. /\ sold' \in [SaleLines -> [variant : Variants, out : Nat, cost : Nat]]
        /\ opened' \subseteq Variants
    BY <2>1 DEF TypeOK
  <2> QED
    BY <1>0, <2>1, <2>2, <2>3, MovesType
<1>4. ASSUME NEW v \in Variants, NEW cost \in Costs, PostOpening(v, q, cost)
      PROVE  TypeOK' /\ UNCHANGED <<purchases, payments, books>>
             /\ \A w \in Variants : stock'[w].quantity - elsewhere'[w]
                                        = stock[w].quantity - elsewhere[w]
  <2> DEFINE row == CostedReceipt(v, q, cost)[v]
  <2>1. /\ MovesElsewhere(v, q) /\ stock' = [stock EXCEPT ![v] = row]
        /\ sold' = sold /\ opened' = opened \cup {v}
    BY <1>0, <1>4 DEF PostOpening, CostedReceipt, StockRows
  <2>2. cost \in Nat
    BY PurchaseAssumption
  <2>3. /\ row \in [quantity : Nat, average : Nat]
        /\ row.quantity = stock[v].quantity + q
    BY <1>0, <1>2, <2>2, ReceiptType
  <2> HIDE DEF row
  <2>4. /\ sold' \in [SaleLines -> [variant : Variants, out : Nat, cost : Nat]]
        /\ opened' \subseteq Variants
    BY <2>1 DEF TypeOK
  <2> QED
    BY <1>0, <1>2, <2>1, <2>3, <2>4, MovesType
<1>5. ASSUME NEW v \in Variants, NEW l \in SaleLines, SellLine(l, v, q)
      PROVE  TypeOK' /\ UNCHANGED <<purchases, payments, books>>
             /\ \A w \in Variants : stock'[w].quantity - elsewhere'[w]
                                        = stock[w].quantity - elsewhere[w]
  <2> DEFINE row  == [stock[v] EXCEPT !.quantity = @ - q]
             line == [variant |-> v, out |-> q, cost |-> SnapshotCost(v)]
  <2>1. /\ MovesElsewhere(v, -q) /\ stock' = [stock EXCEPT ![v] = row]
        /\ sold' = [sold EXCEPT ![l] = line] /\ opened' = opened
    BY <1>0, <1>5 DEF SellLine, StockRows
  <2>2. stock[v].quantity \in Nat /\ stock[v].quantity + (-q) = stock[v].quantity - q
    BY <1>0, <1>2
  <2>3. /\ row \in [quantity : Nat, average : Nat]
        /\ row.quantity = stock[v].quantity + (-q)
    BY <1>0, <2>1, <2>2
  <2>4. line \in [variant : Variants, out : Nat, cost : Nat]
    BY <1>2, SnapshotType
  <2> HIDE DEF row, line
  <2>5. /\ sold' \in [SaleLines -> [variant : Variants, out : Nat, cost : Nat]]
        /\ opened' \subseteq Variants
    BY <2>1, <2>4 DEF TypeOK
  <2> QED
    BY <1>0, <1>2, <2>1, <2>3, <2>5, MovesType
<1>6. ASSUME NEW l \in SaleLines, TakeBack(l, q)
      PROVE  TypeOK' /\ UNCHANGED <<purchases, payments, books>>
             /\ \A w \in Variants : stock'[w].quantity - elsewhere'[w]
                                        = stock[w].quantity - elsewhere[w]
  <2> DEFINE v    == sold[l].variant
             row  == CostedReceipt(v, q, sold[l].cost)[v]
             line == [sold[l] EXCEPT !.out = @ - q]
  <2>1. sold[l] \in [variant : Variants, out : Nat, cost : Nat]
    BY DEF TypeOK
  <2>2. /\ MovesElsewhere(v, q) /\ stock' = [stock EXCEPT ![v] = row] /\ q <= sold[l].out
        /\ sold' = [sold EXCEPT ![l] = line] /\ opened' = opened
    BY <1>0, <1>6, <2>1 DEF TakeBack, CostedReceipt, StockRows, TypeOK
  <2>3. /\ row \in [quantity : Nat, average : Nat]
        /\ row.quantity = stock[v].quantity + q
    BY <1>0, <1>2, <2>1, ReceiptType
  <2>4. line \in [variant : Variants, out : Nat, cost : Nat]
    BY <1>2, <2>1, <2>2
  <2>5. v \in Variants
    BY <2>1
  <2> HIDE DEF row, line, v
  <2>6. /\ sold' \in [SaleLines -> [variant : Variants, out : Nat, cost : Nat]]
        /\ opened' \subseteq Variants
    BY <2>2, <2>4 DEF TypeOK
  <2> QED
    BY <1>0, <1>2, <2>2, <2>3, <2>5, <2>6, MovesType
<1> QED
  BY <1>1, <1>2, <1>3, <1>4, <1>5, <1>6

(* Every operation keeps the types.                                         *)
LEMMA NextType == TypeOK /\ [Next]_vars => TypeOK'
<1> SUFFICES ASSUME TypeOK, [Next]_vars PROVE TypeOK'
  OBVIOUS
<1>1. CASE Buy
  BY <1>1, CreatePurchaseType DEF Buy
<1>2. CASE Edit
  BY <1>2, UpdatePurchaseType DEF Edit
<1>3. ASSUME NEW b \in Purchases, DeletePurchase(b) PROVE TypeOK'
  BY <1>3, DeletePurchaseType
<1>4. CASE Settle
  BY <1>4, RecordPaymentType DEF Settle
<1>5. ASSUME NEW p \in Payments, VoidPayment(p) PROVE TypeOK'
  BY <1>5, VoidPaymentType
<1>6. CASE Return
  BY <1>6, ReturnGoodsType DEF Return
<1>7. CASE Move
  BY <1>7, MoveType
<1>8. CASE UNCHANGED vars
  BY <1>8 DEF vars, shelf, TypeOK
<1> QED
  BY <1>1, <1>2, <1>3, <1>4, <1>5, <1>6, <1>7, <1>8 DEF Next

-----------------------------------------------------------------------------
(* The payments.  A payment row keeps naming a live purchase of its own     *)
(* supplier only because a purchase cannot go, or move to another supplier, *)
(* without its payments; paid_amount keeps its distance to them only        *)
(* because a new purchase has none (Attached) and because a void never      *)
(* takes out more than is in (Covered).                                     *)

AllocatedIn(rows, b) == {p \in Payments : rows[p].state = "live" /\ rows[p].purchase = b}

AmountsIn(rows) == [p \in Payments |-> rows[p].amount]

Recorded(rows, b) == TallyOf(AmountsIn(rows), AllocatedIn(rows, b))

Attached(bought, rows) ==
    \A p \in Payments :
        (rows[p].state = "live" /\ rows[p].purchase # NoPurchase) =>
            /\ rows[p].purchase \in Purchases
            /\ bought[rows[p].purchase].status = "live"
            /\ bought[rows[p].purchase].supplier = rows[p].supplier

CoveredBy(bought, rows, b) ==
    /\ bought[b].paid <= TotalOf(bought[b])
    /\ bought[b].paid - Recorded(rows, b) \in Nat

Covered == \A b \in Purchases : Live(b) => CoveredBy(purchases, payments, b)

MoneyInv == TypeOK /\ Attached(purchases, payments) /\ Covered

(* What a step does to a purchase that stays, and to a new one.             *)
MoneyStep ==
    /\ Attached(purchases', payments')
    /\ \A b \in Purchases : Live(b)' =>
          /\ purchases'[b].paid <= TotalOf(purchases'[b])
          /\ IF Live(b) THEN purchases'[b].paid - Recorded(payments', b)
                                = purchases[b].paid - Recorded(payments, b)
             ELSE purchases'[b].paid - Recorded(payments', b) \in Nat

(* The sum over the payment rows of a purchase is a natural number.         *)
LEMMA RecordedType ==
    ASSUME NEW rows, NEW b
    PROVE  IsFiniteSet(AllocatedIn(rows, b)) /\ Recorded(rows, b) \in Nat
<1>1. AllocatedIn(rows, b) \in SUBSET Payments
  BY DEF AllocatedIn
<1>2. IsFiniteSet(AllocatedIn(rows, b))
  BY <1>1, FS_Subset, PurchaseAssumption
<1> QED
  BY <1>2, TallyType DEF Recorded

(* A purchase whose payment rows keep their amounts has the same sum.       *)
LEMMA RecordedSame ==
    ASSUME NEW rows, NEW new, NEW b, AllocatedIn(new, b) = AllocatedIn(rows, b),
           \A p \in AllocatedIn(rows, b) : new[p].amount = rows[p].amount
    PROVE  Recorded(new, b) = Recorded(rows, b)
<1>1. \A p \in AllocatedIn(rows, b) : AmountsIn(new)[p] = AmountsIn(rows)[p]
  BY DEF AmountsIn, AllocatedIn
<1>2. TallyOf(AmountsIn(new), AllocatedIn(rows, b)) = TallyOf(AmountsIn(rows), AllocatedIn(rows, b))
  BY <1>1, TallySame
<1> QED
  BY <1>2 DEF Recorded

(* One more payment row on a purchase adds its amount to the sum.           *)
LEMMA RecordedAdd ==
    ASSUME NEW rows, NEW new, NEW b, NEW p \in Payments, p \notin AllocatedIn(rows, b),
           AllocatedIn(new, b) = AllocatedIn(rows, b) \cup {p},
           \A r \in AllocatedIn(rows, b) : new[r].amount = rows[r].amount,
           new[p].amount \in 0 .. MaxAmount
    PROVE  Recorded(new, b) = Recorded(rows, b) + new[p].amount
<1>1. \A r \in AllocatedIn(rows, b) : AmountsIn(new)[r] = AmountsIn(rows)[r]
  BY DEF AmountsIn, AllocatedIn
<1>2. TallyOf(AmountsIn(new), AllocatedIn(rows, b)) = Recorded(rows, b)
  BY <1>1, TallySame DEF Recorded
<1>3. AmountsIn(new)[p] = new[p].amount
  BY DEF AmountsIn
<1>4. TallyOf(AmountsIn(new), AllocatedIn(rows, b) \cup {p})
        = TallyOf(AmountsIn(new), AllocatedIn(rows, b)) + AmountsIn(new)[p]
  BY <1>3, RecordedType, TallyAdd
<1> QED
  BY <1>2, <1>3, <1>4 DEF Recorded

(* A purchase that is not live owns no payment.                             *)
LEMMA NoneRecorded ==
    ASSUME MoneyInv, NEW b \in Purchases, ~Live(b)
    PROVE  AllocatedIn(payments, b) = {} /\ Recorded(payments, b) = 0
<1>1. AllocatedIn(payments, b) = {}
  BY PurchaseAssumption DEF MoneyInv, Attached, AllocatedIn, Live
<1> QED
  BY <1>1, TallyEmpty DEF Recorded

(* A step that keeps all payments, and all purchases but one, which keeps   *)
(* its supplier, its paid amount and a total that covers it.                *)
LEMMA MoneyKept ==
    ASSUME MoneyInv, NEW b \in Purchases, payments' = payments,
           \A t \in Purchases \ {b} : purchases'[t] = purchases[t],
           purchases'[b].status = purchases[b].status,
           purchases'[b].supplier = purchases[b].supplier,
           purchases'[b].paid = purchases[b].paid,
           Live(b) => purchases'[b].paid <= TotalOf(purchases'[b])
    PROVE  MoneyStep
<1>1. Attached(purchases', payments')
  BY DEF MoneyInv, Attached
<1>2. ASSUME NEW t \in Purchases, Live(t)'
      PROVE  /\ purchases'[t].paid <= TotalOf(purchases'[t])
             /\ Live(t)
             /\ purchases'[t].paid = purchases[t].paid
  BY <1>2 DEF MoneyInv, Covered, CoveredBy, Live
<1> QED
  BY <1>1, <1>2 DEF MoneyStep

(* A new purchase has no payment yet: what it has paid was stated.          *)
LEMMA CreatePurchaseMoney ==
    ASSUME MoneyInv, NEW b \in Purchases, NEW s \in Suppliers, NEW lines \in Lists,
           NEW discount \in Discounts, NEW advance \in Advances,
           CreatePurchase(b, s, lines, discount, advance)
    PROVE  MoneyStep
<1> DEFINE row == [BlankPurchase("live") EXCEPT
                      !.supplier = s, !.lines = lines, !.discount = discount, !.paid = advance]
<1>1. /\ purchases[b].status = "unused" /\ advance <= TotalOf(row)
      /\ purchases' = [purchases EXCEPT ![b] = row] /\ payments' = payments
  BY DEF CreatePurchase
<1>2. row.paid = advance /\ advance \in Nat
  BY PurchaseAssumption DEF BlankPurchase
<1> HIDE DEF row
<1>3. /\ purchases'[b] = row
      /\ \A t \in Purchases \ {b} : purchases'[t] = purchases[t]
  BY <1>1 DEF MoneyInv, TypeOK
<1>4. ~Live(b)
  BY <1>1 DEF Live
<1>5. Attached(purchases', payments')
  <2> SUFFICES ASSUME NEW r \in Payments, payments[r].state = "live",
                      payments[r].purchase # NoPurchase
               PROVE  /\ payments[r].purchase \in Purchases \ {b}
                      /\ purchases[payments[r].purchase].status = "live"
                      /\ purchases[payments[r].purchase].supplier = payments[r].supplier
    BY <1>1, <1>3 DEF Attached
  <2> QED
    BY <1>4 DEF MoneyInv, Attached, Live
<1>6. ASSUME NEW t \in Purchases, Live(t)', t # b
      PROVE  /\ Live(t) /\ purchases'[t] = purchases[t]
             /\ purchases'[t].paid <= TotalOf(purchases'[t])
  BY <1>3, <1>6 DEF MoneyInv, Covered, CoveredBy, Live
<1>7. purchases'[b].paid - Recorded(payments', b) \in Nat
  BY <1>1, <1>2, <1>3, <1>4, NoneRecorded
<1>8. purchases'[b].paid <= TotalOf(purchases'[b])
  BY <1>1, <1>2, <1>3
<1> QED
  BY <1>1, <1>4, <1>5, <1>6, <1>7, <1>8 DEF MoneyStep

(* An edit keeps what is paid within the new total, and takes the payments  *)
(* along to the supplier.                                                   *)
LEMMA UpdatePurchaseMoney ==
    ASSUME MoneyInv, NEW b \in Purchases, NEW s \in Suppliers,
           NEW lines \in Lists \cup {purchases[b].lines},
           NEW discount \in Discounts \cup {purchases[b].discount},
           UpdatePurchase(b, s, lines, discount)
    PROVE  MoneyStep
<1> DEFINE row == [purchases[b] EXCEPT !.supplier = s, !.lines = lines, !.discount = discount]
<1>1. /\ Live(b) /\ purchases[b].paid <= TotalOf(row)
      /\ purchases' = [purchases EXCEPT ![b] = row] /\ payments' = Repointed(b, s)
  BY DEF UpdatePurchase, Editable
<1>2. row.paid = purchases[b].paid /\ row.supplier = s /\ row.status = purchases[b].status
  BY DEF MoneyInv, TypeOK, PurchaseRows
<1> HIDE DEF row
<1>3. /\ purchases'[b] = row
      /\ \A t \in Purchases \ {b} : purchases'[t] = purchases[t]
  BY <1>1 DEF MoneyInv, TypeOK
<1>4. ASSUME NEW r \in Payments
      PROVE  /\ payments'[r].state = payments[r].state
             /\ payments'[r].purchase = payments[r].purchase
             /\ payments'[r].amount = payments[r].amount
             /\ payments'[r].supplier = IF r \in AllocatedTo(b) THEN s ELSE payments[r].supplier
  BY <1>1 DEF Repointed, MoneyInv, TypeOK, PaymentRows
<1>5. Attached(purchases', payments')
  <2> SUFFICES ASSUME NEW r \in Payments, payments[r].state = "live",
                      payments[r].purchase # NoPurchase
               PROVE  /\ payments[r].purchase \in Purchases
                      /\ purchases'[payments[r].purchase].status = "live"
                      /\ purchases'[payments[r].purchase].supplier = payments'[r].supplier
    BY <1>4 DEF Attached
  <2>1. /\ payments[r].purchase \in Purchases
        /\ purchases[payments[r].purchase].status = "live"
        /\ purchases[payments[r].purchase].supplier = payments[r].supplier
    BY DEF MoneyInv, Attached
  <2>2. CASE payments[r].purchase = b
    BY <1>2, <1>3, <1>4, <2>1, <2>2 DEF AllocatedTo
  <2>3. CASE payments[r].purchase # b
    BY <1>3, <1>4, <2>1, <2>3 DEF AllocatedTo
  <2> QED
    BY <2>2, <2>3
<1>6. ASSUME NEW t \in Purchases
      PROVE  Recorded(payments', t) = Recorded(payments, t)
  <2>1. AllocatedIn(payments', t) = AllocatedIn(payments, t)
    BY <1>4 DEF AllocatedIn
  <2>2. \A r \in AllocatedIn(payments, t) : payments'[r].amount = payments[r].amount
    BY <1>4 DEF AllocatedIn
  <2> QED
    BY <2>1, <2>2, RecordedSame
<1>7. ASSUME NEW t \in Purchases, Live(t)'
      PROVE  /\ Live(t) /\ purchases'[t].paid = purchases[t].paid
             /\ purchases'[t].paid <= TotalOf(purchases'[t])
  <2>1. CASE t = b
    BY <1>1, <1>2, <1>3, <2>1
  <2>2. CASE t # b
    BY <1>3, <1>7, <2>2 DEF MoneyInv, Covered, CoveredBy, Live
  <2> QED
    BY <2>1, <2>2
<1> QED
  BY <1>5, <1>6, <1>7 DEF MoneyStep

(* A void of a purchase takes all its payments with it.                     *)
LEMMA DeletePurchaseMoney ==
    ASSUME MoneyInv, NEW b \in Purchases, DeletePurchase(b)
    PROVE  MoneyStep
<1>1. /\ purchases'[b].status = "deleted"
      /\ \A t \in Purchases \ {b} : purchases'[t] = purchases[t]
  BY DEF DeletePurchase, BlankPurchase, MoneyInv, TypeOK
<1>2. ASSUME NEW r \in Payments
      PROVE  /\ r \in AllocatedTo(b) => payments'[r].state = "deleted"
             /\ r \notin AllocatedTo(b) => payments'[r] = payments[r]
  BY DEF DeletePurchase, BlankPayment
<1>3. Attached(purchases', payments')
  <2> SUFFICES ASSUME NEW r \in Payments, payments'[r].state = "live",
                      payments'[r].purchase # NoPurchase
               PROVE  /\ payments'[r].purchase \in Purchases
                      /\ purchases'[payments'[r].purchase].status = "live"
                      /\ purchases'[payments'[r].purchase].supplier = payments'[r].supplier
    BY DEF Attached
  <2>1. payments'[r] = payments[r] /\ payments[r].purchase # b
    BY <1>2 DEF AllocatedTo
  <2> QED
    BY <1>1, <2>1 DEF MoneyInv, Attached
<1>4. ASSUME NEW t \in Purchases, t # b
      PROVE  Recorded(payments', t) = Recorded(payments, t)
  <2>1. AllocatedIn(payments', t) = AllocatedIn(payments, t)
    BY <1>2, <1>4 DEF AllocatedIn, AllocatedTo
  <2>2. \A r \in AllocatedIn(payments, t) : payments'[r].amount = payments[r].amount
    BY <1>2, <1>4 DEF AllocatedIn, AllocatedTo
  <2> QED
    BY <2>1, <2>2, RecordedSame
<1>5. ASSUME NEW t \in Purchases, Live(t)'
      PROVE  /\ t # b /\ Live(t) /\ purchases'[t] = purchases[t]
             /\ purchases'[t].paid <= TotalOf(purchases'[t])
  BY <1>1, <1>5 DEF MoneyInv, Covered, CoveredBy, Live
<1> QED
  BY <1>3, <1>4, <1>5 DEF MoneyStep

(* A settlement or a void of a payment changes one column of one row.       *)
LEMMA PaidChanged ==
    ASSUME MoneyInv, NEW b \in Purchases, NEW paid,
           purchases' = [purchases EXCEPT ![b].paid = paid], NEW t \in Purchases
    PROVE  /\ purchases'[t].status = purchases[t].status
           /\ purchases'[t].supplier = purchases[t].supplier
           /\ purchases'[t].lines = purchases[t].lines
           /\ purchases'[t].returned = purchases[t].returned
           /\ purchases'[t].refunded = purchases[t].refunded
           /\ TotalOf(purchases'[t]) = TotalOf(purchases[t])
           /\ purchases'[t].paid = IF t = b THEN paid ELSE purchases[t].paid
<1>1. purchases[t] \in PurchaseRows
  BY DEF MoneyInv, TypeOK
<1>2. purchases'[t] = IF t = b THEN [purchases[t] EXCEPT !.paid = paid] ELSE purchases[t]
  BY DEF MoneyInv, TypeOK
<1> QED
  BY <1>1, <1>2 DEF PurchaseRows, TotalOf

(* A payment is one new row of a purchase it does not overpay, or of the    *)
(* Khata.                                                                   *)
LEMMA RecordPaymentMoney ==
    ASSUME MoneyInv, NEW p \in Payments, NEW s \in Suppliers,
           NEW b \in Purchases \cup {NoPurchase}, NEW amount \in Amounts,
           RecordPayment(p, s, b, amount)
    PROVE  MoneyStep
<1>1. /\ payments[p].state = "unused"
      /\ b # NoPurchase => Live(b) /\ purchases[b].supplier = s /\ amount <= Due(b)
      /\ payments' = [payments EXCEPT ![p] = [state |-> "live", supplier |-> s,
                                              purchase |-> b, amount |-> amount]]
  BY DEF RecordPayment
<1>2. /\ payments'[p].state = "live" /\ payments'[p].purchase = b
      /\ payments'[p].supplier = s /\ payments'[p].amount = amount
      /\ \A r \in Payments \ {p} : payments'[r] = payments[r]
  BY <1>1 DEF MoneyInv, TypeOK
<1>3. amount \in Nat /\ amount \in 0 .. MaxAmount
  BY MaxAmountIsNat DEF Amounts
<1>4. ASSUME NEW t \in Purchases
      PROVE  /\ purchases'[t].status = purchases[t].status
             /\ purchases'[t].supplier = purchases[t].supplier
             /\ TotalOf(purchases'[t]) = TotalOf(purchases[t])
             /\ purchases'[t].paid = IF t = b THEN purchases[t].paid + amount
                                     ELSE purchases[t].paid
  <2> DEFINE more == purchases[b].paid + amount
  <2>1. b # NoPurchase => b \in Purchases /\ purchases' = [purchases EXCEPT ![b].paid = more]
    BY DEF RecordPayment
  <2>2. b = NoPurchase => purchases' = purchases /\ t # b
    BY PurchaseAssumption DEF RecordPayment
  <2>3. CASE b = NoPurchase
    BY <2>2, <2>3
  <2>4. CASE b # NoPurchase
    <3>1. purchases'[t].paid = IF t = b THEN more ELSE purchases[t].paid
      <4> HIDE DEF more
      <4> QED
        BY SMTT(40), <2>1, <2>4, PaidChanged
    <3>2. /\ purchases'[t].status = purchases[t].status
          /\ purchases'[t].supplier = purchases[t].supplier
          /\ TotalOf(purchases'[t]) = TotalOf(purchases[t])
      <4> HIDE DEF more
      <4> QED
        BY <2>1, <2>4, PaidChanged
    <3> QED
      BY <3>1, <3>2
  <2> QED
    BY <2>3, <2>4
<1>5. Attached(purchases', payments')
  <2> SUFFICES ASSUME NEW r \in Payments, payments'[r].state = "live",
                      payments'[r].purchase # NoPurchase
               PROVE  /\ payments'[r].purchase \in Purchases
                      /\ purchases'[payments'[r].purchase].status = "live"
                      /\ purchases'[payments'[r].purchase].supplier = payments'[r].supplier
    BY DEF Attached
  <2>1. CASE r = p
    BY <1>1, <1>2, <1>4, <2>1 DEF Live
  <2>2. CASE r # p
    BY <1>2, <1>4, <2>2 DEF MoneyInv, Attached
  <2> QED
    BY <2>1, <2>2
<1>6. ASSUME NEW t \in Purchases
      PROVE  Recorded(payments', t) = IF t = b THEN Recorded(payments, t) + amount
                                      ELSE Recorded(payments, t)
  <2>1. p \notin AllocatedIn(payments, t)
    BY <1>1 DEF AllocatedIn
  <2>2. \A r \in AllocatedIn(payments, t) : payments'[r].amount = payments[r].amount
    BY <1>2, <2>1 DEF AllocatedIn
  <2>3. CASE t = b
    <3>1. AllocatedIn(payments', t) = AllocatedIn(payments, t) \cup {p}
      BY <1>2, <2>1, <2>3 DEF AllocatedIn
    <3> QED
      BY <1>2, <1>3, <2>1, <2>2, <2>3, <3>1, RecordedAdd
  <2>4. CASE t # b
    <3>1. AllocatedIn(payments', t) = AllocatedIn(payments, t)
      BY <1>2, <2>1, <2>4 DEF AllocatedIn
    <3> QED
      BY <2>2, <2>4, <3>1, RecordedSame
  <2> QED
    BY <2>3, <2>4
<1>7. ASSUME NEW t \in Purchases, Live(t)'
      PROVE  /\ Live(t)
             /\ purchases'[t].paid - Recorded(payments', t) = purchases[t].paid - Recorded(payments, t)
             /\ purchases'[t].paid <= TotalOf(purchases'[t])
  <2>1. Live(t) /\ purchases[t].paid <= TotalOf(purchases[t])
    BY <1>4, <1>7 DEF MoneyInv, Covered, CoveredBy, Live
  <2>2. /\ purchases[t].paid \in Int /\ TotalOf(purchases[t]) \in Int
        /\ Recorded(payments, t) \in Int
    BY RecordedType, TotalType DEF MoneyInv, TypeOK, PurchaseRows
  <2>3. t = b => amount <= TotalOf(purchases[t]) - purchases[t].paid
    BY <1>1, PurchaseAssumption DEF Due
  <2> QED
    BY <1>3, <1>4, <1>6, <2>1, <2>2, <2>3
<1> QED
  BY <1>5, <1>7 DEF MoneyStep

(* A void takes one row and its amount out of the same purchase; the        *)
(* truncation at zero never bites, because the row is part of what is paid. *)
LEMMA VoidPaymentMoney ==
    ASSUME MoneyInv, NEW p \in Payments, VoidPayment(p)
    PROVE  MoneyStep
<1> DEFINE b == payments[p].purchase
           amount == payments[p].amount
           left == PaidAfterVoid(purchases[b], amount)
<1>1. /\ payments[p].state = "live"
      /\ payments'[p].state = "deleted"
      /\ \A r \in Payments \ {p} : payments'[r] = payments[r]
  BY DEF VoidPayment, BlankPayment, MoneyInv, TypeOK
<1>2. amount \in Nat /\ amount \in 0 .. MaxAmount /\ b \in Purchases \cup {NoPurchase}
  BY MaxAmountIsNat DEF MoneyInv, TypeOK, PaymentRows
<1>3. ASSUME NEW t \in Purchases
      PROVE  /\ purchases'[t].status = purchases[t].status
             /\ purchases'[t].supplier = purchases[t].supplier
             /\ TotalOf(purchases'[t]) = TotalOf(purchases[t])
             /\ purchases'[t].paid = IF t = b THEN left ELSE purchases[t].paid
  <2>1. b # NoPurchase => purchases' = [purchases EXCEPT ![b].paid = left]
    BY DEF VoidPayment
  <2>2. b = NoPurchase => purchases' = purchases /\ t # b
    BY PurchaseAssumption DEF VoidPayment
  <2> HIDE DEF b, left
  <2>3. CASE b = NoPurchase
    BY <2>2, <2>3
  <2>4. CASE b # NoPurchase
    BY <1>2, <2>1, <2>4, PaidChanged
  <2> QED
    BY <2>3, <2>4
<1> HIDE DEF left
<1>4. Attached(purchases', payments')
  <2> SUFFICES ASSUME NEW r \in Payments, payments'[r].state = "live",
                      payments'[r].purchase # NoPurchase
               PROVE  /\ payments'[r].purchase \in Purchases
                      /\ purchases'[payments'[r].purchase].status = "live"
                      /\ purchases'[payments'[r].purchase].supplier = payments'[r].supplier
    BY DEF Attached
  <2> QED
    BY <1>1, <1>3 DEF MoneyInv, Attached
<1>5. ASSUME NEW t \in Purchases, t # b
      PROVE  Recorded(payments', t) = Recorded(payments, t)
  <2>1. AllocatedIn(payments', t) = AllocatedIn(payments, t)
    BY <1>1, <1>5 DEF AllocatedIn
  <2>2. \A r \in AllocatedIn(payments, t) : payments'[r].amount = payments[r].amount
    BY <1>1, <1>5 DEF AllocatedIn
  <2> QED
    BY <2>1, <2>2, RecordedSame
<1>6. ASSUME NEW t \in Purchases, t = b
      PROVE  Recorded(payments, t) = Recorded(payments', t) + amount
  <2>1. /\ p \notin AllocatedIn(payments', t)
        /\ AllocatedIn(payments, t) = AllocatedIn(payments', t) \cup {p}
        /\ \A r \in AllocatedIn(payments', t) : payments[r].amount = payments'[r].amount
    BY <1>1, <1>6 DEF AllocatedIn
  <2> QED
    BY <1>2, <2>1, RecordedAdd
<1>7. ASSUME NEW t \in Purchases, Live(t)'
      PROVE  /\ Live(t)
             /\ purchases'[t].paid - Recorded(payments', t) = purchases[t].paid - Recorded(payments, t)
             /\ purchases'[t].paid <= TotalOf(purchases'[t])
  <2>1. /\ Live(t) /\ purchases[t].paid <= TotalOf(purchases[t])
        /\ purchases[t].paid - Recorded(payments, t) \in Nat
    BY <1>3, <1>7 DEF MoneyInv, Covered, CoveredBy, Live
  <2>2. /\ purchases[t].paid \in Int /\ TotalOf(purchases[t]) \in Int
        /\ Recorded(payments, t) \in Nat /\ Recorded(payments', t) \in Nat
    BY RecordedType, TotalType DEF MoneyInv, TypeOK, PurchaseRows
  <2>3. CASE t = b
    <3>1. amount <= purchases[t].paid
      BY <1>2, <1>6, <2>1, <2>2, <2>3
    <3>2. left = purchases[t].paid - amount
      BY <1>2, <2>2, <2>3, <3>1 DEF left, PaidAfterVoid, Excess
    <3> QED
      BY <1>2, <1>3, <1>6, <2>1, <2>2, <2>3, <3>2
  <2>4. CASE t # b
    BY <1>3, <1>5, <2>1, <2>4
  <2> QED
    BY <2>3, <2>4
<1> QED
  BY <1>4, <1>7 DEF MoneyStep

(* Every operation moves the money as MoneyStep says.                       *)
LEMMA NextMoney ==
    ASSUME MoneyInv, [Next]_vars
    PROVE  MoneyStep
<1>1. CASE Buy
  BY <1>1, CreatePurchaseMoney DEF Buy
<1>2. CASE Edit
  BY <1>2, UpdatePurchaseMoney DEF Edit
<1>3. ASSUME NEW b \in Purchases, DeletePurchase(b) PROVE MoneyStep
  BY <1>3, DeletePurchaseMoney
<1>4. CASE Settle
  BY <1>4, RecordPaymentMoney DEF Settle
<1>5. ASSUME NEW p \in Payments, VoidPayment(p) PROVE MoneyStep
  BY <1>5, VoidPaymentMoney
<1>6. CASE Return
  <2>1. PICK b \in Purchases, back \in [Variants -> Quantities \cup {0}] \ {NoReturn} :
                 ReturnGoods(b, back)
    BY <1>6 DEF Return
  <2>2. /\ payments' = payments
        /\ \A t \in Purchases \ {b} : purchases'[t] = purchases[t]
        /\ purchases'[b].status = purchases[b].status
        /\ purchases'[b].supplier = purchases[b].supplier
        /\ purchases'[b].paid = purchases[b].paid
        /\ TotalOf(purchases'[b]) = TotalOf(purchases[b])
    BY <2>1 DEF ReturnGoods, MoneyInv, TypeOK, PurchaseRows, TotalOf
  <2>3. Live(b) => purchases'[b].paid <= TotalOf(purchases'[b])
    BY <2>2 DEF MoneyInv, Covered, CoveredBy
  <2> QED
    BY <2>2, <2>3, MoneyKept
<1>7. CASE UNCHANGED <<purchases, payments>>
  <2>1. Attached(purchases', payments')
    BY <1>7 DEF MoneyInv
  <2>2. \A t \in Purchases : Live(t)' => Live(t) /\ CoveredBy(purchases, payments, t)
    BY <1>7 DEF MoneyInv, Covered, Live
  <2> QED
    BY <1>7, <2>1, <2>2 DEF MoneyStep, CoveredBy
<1>8. Move => UNCHANGED <<purchases, payments>>
  BY DEF Move, AdjustStock, PostOpening, SellLine, TakeBack, MovesElsewhere
<1> QED
  BY <1>1, <1>2, <1>3, <1>4, <1>5, <1>6, <1>7, <1>8 DEF Next, vars

(* MoneyInv is inductive.                                                   *)
LEMMA MoneyInvInductive ==
    /\ Init => MoneyInv
    /\ MoneyInv /\ [Next]_vars => MoneyInv'
<1>1. Init => MoneyInv
  <2>1. Init => Attached(purchases, payments) /\ Covered
    BY DEF Init, Attached, Covered, Live, BlankPurchase, BlankPayment
  <2> QED
    BY <2>1, InitType DEF MoneyInv
<1>2. ASSUME MoneyInv, [Next]_vars PROVE MoneyInv'
  <2>1. TypeOK' /\ MoneyStep
    BY <1>2, NextType, NextMoney DEF MoneyInv
  <2>2. Covered'
    <3> SUFFICES ASSUME NEW b \in Purchases, Live(b)'
                 PROVE  /\ purchases'[b].paid <= TotalOf(purchases'[b])
                        /\ purchases'[b].paid - Recorded(payments', b) \in Nat
      BY DEF Covered, CoveredBy
    <3>1. CASE Live(b)
      BY <1>2, <2>1, <3>1 DEF MoneyStep, MoneyInv, Covered, CoveredBy
    <3>2. CASE ~Live(b)
      BY <2>1, <3>2 DEF MoneyStep
    <3> QED
      BY <3>1, <3>2
  <2> QED
    BY <2>1, <2>2 DEF MoneyInv, MoneyStep
<1> QED
  BY <1>1, <1>2

(* MoneyInv is an invariant.                                                *)
LEMMA MoneyHolds == Spec => []MoneyInv
<1> QED
  BY MoneyInvInductive, PTL DEF Spec

(* Every live supplier payment counts in exactly one Khata, that of its own *)
(* supplier, whatever was edited, re-pointed, voided or returned: every row *)
(* is well typed and no payment names a purchase that is gone or another    *)
(* supplier's.                                                              *)
THEOREM PaymentsStayInTheirKhata == Spec => []EveryPaymentHasItsKhata
<1>1. MoneyInv => EveryPaymentHasItsKhata
  BY DEF MoneyInv, Attached, EveryPaymentHasItsKhata, PaymentsNameTheirPurchase,
         CountedPayments, PurchasesOf, Live
<1> QED
  BY <1>1, MoneyHolds, PTL

(* The sum AllocatedTo and AmountOf speak of, for any rows.                 *)
LEMMA StatedPaidForm ==
    ASSUME NEW b \in Purchases
    PROVE  /\ StatedPaid(b) = purchases[b].paid - Recorded(payments, b)
           /\ StatedPaid(b)' = purchases'[b].paid - Recorded(payments', b)
BY DEF StatedPaid, Recorded, AllocatedTo, AllocatedIn, AmountOf, AmountsIn

(* paid_amount moves with the payment rows and with nothing else, and never *)
(* exceeds what the purchase costs: no edit, void, settlement or return     *)
(* makes the cached figure drift from the rows it sums.                     *)
THEOREM PaidAmountFollowsPayments == Spec => PaidMovesWithPayments
<1>1. ASSUME MoneyInv, [Next]_vars, NEW b \in Purchases, Live(b), Live(b)'
      PROVE  /\ StatedPaid(b)' = StatedPaid(b)
             /\ purchases'[b].paid <= TotalOf(purchases'[b])
  <2>1. MoneyStep
    BY <1>1, NextMoney
  <2> QED
    BY <1>1, <2>1, StatedPaidForm DEF MoneyStep
<1>2. MoneyInv /\ [Next]_vars =>
        [\A b \in Purchases : Live(b) /\ Live(b)' =>
            /\ StatedPaid(b)' = StatedPaid(b)
            /\ purchases'[b].paid <= TotalOf(purchases'[b])]_vars
  BY <1>1
<1> QED
  BY <1>2, MoneyHolds, PTL DEF Spec, PaidMovesWithPayments

-----------------------------------------------------------------------------
(* The lines.  A row that is not live lists nothing, nothing goes back that *)
(* did not come, and nothing is refunded before something went back.        *)

LineInv(b) ==
    /\ \A v \in Variants : /\ purchases[b].lines[v].qty \in 0 .. MaxAmount
                           /\ purchases[b].returned[v] <= purchases[b].lines[v].qty
                           /\ ~Live(b) => purchases[b].lines[v].qty = 0
    /\ ~HasReturns(b) => purchases[b].refunded = 0

RowsInv == MoneyInv /\ \A b \in Purchases : LineInv(b)

Frozen(b) ==
    /\ Live(b)'
    /\ purchases'[b].lines = purchases[b].lines
    /\ purchases'[b].supplier = purchases[b].supplier
    /\ \A v \in Variants :
          purchases'[b].returned[v] \in purchases[b].returned[v] .. purchases[b].lines[v].qty

LineStep(b) == LineInv(b)' /\ (HasReturns(b) => Frozen(b))

(* The units of a line, typed.                                              *)
LEMMA UnitsType ==
    ASSUME TypeOK, NEW b \in Purchases, NEW v \in Variants
    PROVE  /\ purchases[b].lines \in Lines /\ purchases[b].lines[v].qty \in Nat
           /\ purchases[b].returned \in [Variants -> Nat] /\ purchases[b].returned[v] \in Nat
BY DEF TypeOK, PurchaseRows, Line, Lines

(* A purchase with returns is live.                                         *)
LEMMA ReturnedIsLive ==
    ASSUME TypeOK, NEW b \in Purchases, LineInv(b), HasReturns(b)
    PROVE  Live(b)
<1>1. PICK v \in Variants : purchases[b].returned[v] > 0
  BY DEF HasReturns
<1>2. purchases[b].lines[v].qty \in Nat /\ purchases[b].returned[v] \in Nat
  BY UnitsType
<1>3. purchases[b].lines[v].qty # 0
  BY <1>1, <1>2 DEF LineInv
<1> QED
  BY <1>3 DEF LineInv

(* A row that keeps its status, supplier, lines and returns.                *)
LEMMA LinesKept ==
    ASSUME TypeOK, NEW b \in Purchases, LineInv(b),
           purchases'[b].status = purchases[b].status,
           purchases'[b].supplier = purchases[b].supplier,
           purchases'[b].lines = purchases[b].lines,
           purchases'[b].returned = purchases[b].returned,
           purchases'[b].refunded = purchases[b].refunded
    PROVE  LineStep(b)
<1>1. LineInv(b)'
  BY DEF LineInv, Live, HasReturns
<1>2. ASSUME HasReturns(b) PROVE Frozen(b)
  <2>1. Live(b)'
    BY <1>2, ReturnedIsLive DEF Live
  <2>2. \A v \in Variants :
           purchases[b].returned[v] \in purchases[b].returned[v] .. purchases[b].lines[v].qty
    BY UnitsType DEF LineInv
  <2> QED
    BY <2>1, <2>2 DEF Frozen
<1> QED
  BY <1>1, <1>2 DEF LineStep

(* A row without returns whose lines are replaced or taken away.            *)
LEMMA LinesReplaced ==
    ASSUME NEW b \in Purchases, ~HasReturns(b), NEW lines, NEW returned,
           purchases'[b].lines = lines, purchases'[b].returned = returned,
           \A v \in Variants : lines[v].qty \in 0 .. MaxAmount /\ returned[v] = 0,
           Live(b)' \/ \A v \in Variants : lines[v].qty = 0,
           purchases'[b].refunded = 0
    PROVE  LineStep(b)
<1>1. \A v \in Variants : returned[v] <= lines[v].qty
  BY MaxAmountIsNat
<1>2. LineInv(b)'
  BY <1>1 DEF LineInv
<1> QED
  BY <1>2 DEF LineStep

(* A return grows what went back, within the lines.                         *)
LEMMA ReturnGoodsLines ==
    ASSUME RowsInv, NEW b \in Purchases,
           NEW back \in [Variants -> Quantities \cup {0}] \ {NoReturn}, ReturnGoods(b, back)
    PROVE  /\ LineStep(b)
           /\ \A t \in Purchases \ {b} : purchases'[t] = purchases[t]
           /\ \A v \in Variants : purchases'[b].returned[v] = purchases[b].returned[v] + back[v]
           /\ purchases'[b].lines = purchases[b].lines
<1>0. TypeOK /\ LineInv(b) /\ purchases[b] \in PurchaseRows
  BY DEF RowsInv, MoneyInv, TypeOK
<1>1. /\ Live(b)
      /\ \A v \in Variants :
            purchases[b].returned[v] + back[v] <= purchases[b].lines[v].qty
  BY DEF ReturnGoods
<1>2. /\ purchases'[b].status = purchases[b].status
      /\ purchases'[b].supplier = purchases[b].supplier
      /\ purchases'[b].lines = purchases[b].lines
      /\ purchases'[b].returned = [v \in Variants |-> purchases[b].returned[v] + back[v]]
      /\ \A t \in Purchases \ {b} : purchases'[t] = purchases[t]
  BY <1>0 DEF ReturnGoods, TypeOK, PurchaseRows
<1>3. ASSUME NEW v \in Variants
      PROVE  /\ purchases'[b].returned[v] = purchases[b].returned[v] + back[v]
             /\ purchases'[b].returned[v]
                    \in purchases[b].returned[v] .. purchases[b].lines[v].qty
  BY <1>0, <1>1, <1>2, BackType, UnitsType
<1>4. HasReturns(b)'
  <2>1. PICK v \in Variants : back[v] > 0
    BY BackType
  <2>2. purchases'[b].returned[v] > 0
    BY <1>0, <1>3, <2>1, BackType, UnitsType
  <2> QED
    BY <2>2 DEF HasReturns
<1>5. LineInv(b)'
  BY <1>0, <1>1, <1>2, <1>3, <1>4 DEF LineInv, Live
<1>6. Frozen(b)
  BY <1>1, <1>2, <1>3 DEF Frozen, Live
<1> QED
  BY <1>2, <1>3, <1>5, <1>6 DEF LineStep

(* create_purchase, update_purchase and delete_purchase replace the lines   *)
(* of one row that has no returns.                                          *)
LEMMA CreatePurchaseLines ==
    ASSUME RowsInv, NEW b \in Purchases, NEW s \in Suppliers, NEW lines \in Lists,
           NEW discount \in Discounts, NEW advance \in Advances,
           CreatePurchase(b, s, lines, discount, advance)
    PROVE  /\ LineStep(b)
           /\ \A t \in Purchases \ {b} : purchases'[t] = purchases[t]
           /\ purchases'[b].lines = lines /\ purchases'[b].returned = NoReturn
<1>0. TypeOK /\ LineInv(b) /\ TypeOK'
  BY CreatePurchaseType DEF RowsInv, MoneyInv
<1>1. /\ purchases'[b].status = "live" /\ purchases'[b].lines = lines
      /\ purchases'[b].returned = NoReturn /\ purchases'[b].refunded = 0
      /\ \A t \in Purchases \ {b} : purchases'[t] = purchases[t]
  BY <1>0 DEF CreatePurchase, BlankPurchase, TypeOK
<1>2. ~Live(b)
  BY DEF CreatePurchase, Live
<1>3. ~HasReturns(b)
  BY <1>0, <1>2, ReturnedIsLive
<1>4. \A v \in Variants : /\ lines[v].qty \in 0 .. MaxAmount /\ NoReturn[v] = 0
  BY ListsType DEF NoReturn
<1>5. LineStep(b)
  BY <1>0, <1>1, <1>3, <1>4, LinesReplaced DEF Live
<1> QED
  BY <1>1, <1>5

(* An edit is of a purchase without returns.                                *)
LEMMA UpdatePurchaseLines ==
    ASSUME RowsInv, NEW b \in Purchases, NEW s \in Suppliers,
           NEW lines \in Lists \cup {purchases[b].lines},
           NEW discount \in Discounts \cup {purchases[b].discount},
           UpdatePurchase(b, s, lines, discount)
    PROVE  /\ LineStep(b)
           /\ \A t \in Purchases \ {b} : purchases'[t] = purchases[t]
           /\ purchases'[b].lines = lines /\ purchases'[b].returned = purchases[b].returned
           /\ lines \in Lines
<1>0. TypeOK /\ LineInv(b) /\ TypeOK' /\ purchases[b] \in PurchaseRows
  BY UpdatePurchaseType DEF RowsInv, MoneyInv, TypeOK
<1>1. Live(b) /\ ~HasReturns(b)
  BY DEF UpdatePurchase, Editable
<1>2. /\ purchases'[b].status = purchases[b].status /\ purchases'[b].lines = lines
      /\ purchases'[b].returned = purchases[b].returned
      /\ purchases'[b].refunded = purchases[b].refunded
      /\ \A t \in Purchases \ {b} : purchases'[t] = purchases[t]
  BY <1>0 DEF UpdatePurchase, TypeOK, PurchaseRows
<1>3. lines \in Lines /\ \A v \in Variants : lines[v].qty \in 0 .. MaxAmount
  BY <1>0, ListsType DEF LineInv, PurchaseRows, Lines
<1>4. \A v \in Variants : purchases[b].returned[v] = 0
  BY <1>0, <1>1, UnitsType DEF HasReturns
<1>5. purchases[b].refunded = 0
  BY <1>0, <1>1 DEF LineInv
<1>6. LineStep(b)
  BY <1>0, <1>1, <1>2, <1>3, <1>4, <1>5, LinesReplaced DEF Live
<1> QED
  BY <1>2, <1>3, <1>6

(* So is a void.                                                            *)
LEMMA DeletePurchaseLines ==
    ASSUME RowsInv, NEW b \in Purchases, DeletePurchase(b)
    PROVE  /\ LineStep(b)
           /\ \A t \in Purchases \ {b} : purchases'[t] = purchases[t]
           /\ purchases'[b].lines = [v \in Variants |-> NoLine]
           /\ purchases'[b].returned = NoReturn
<1>0. TypeOK /\ LineInv(b) /\ TypeOK'
  BY DeletePurchaseType DEF RowsInv, MoneyInv
<1>1. /\ purchases'[b].lines = [v \in Variants |-> NoLine]
      /\ purchases'[b].returned = NoReturn /\ purchases'[b].refunded = 0
      /\ \A t \in Purchases \ {b} : purchases'[t] = purchases[t]
  BY <1>0 DEF DeletePurchase, BlankPurchase, TypeOK
<1>2. ~HasReturns(b)
  BY DEF DeletePurchase, Editable
<1>3. \A v \in Variants : /\ NoReturn[v] = 0
                         /\ [w \in Variants |-> NoLine][v].qty = 0
                         /\ 0 \in 0 .. MaxAmount
  BY MaxAmountIsNat DEF NoReturn, NoLine
<1>4. LineStep(b)
  BY <1>0, <1>1, <1>2, <1>3, LinesReplaced
<1> QED
  BY <1>1, <1>4

(* A settlement, or a void of a payment, touches no line.                   *)
LEMMA PaymentLines ==
    ASSUME RowsInv, Settle \/ \E p \in Payments : VoidPayment(p), NEW b \in Purchases
    PROVE  /\ LineStep(b) /\ TotalOf(purchases'[b]) = TotalOf(purchases[b])
           /\ purchases'[b].status = purchases[b].status
           /\ purchases'[b].lines = purchases[b].lines
           /\ purchases'[b].returned = purchases[b].returned
           /\ purchases'[b].refunded = purchases[b].refunded
           /\ stock' = stock /\ elsewhere' = elsewhere
<1>0. MoneyInv /\ TypeOK /\ LineInv(b)
  BY DEF RowsInv, MoneyInv
<1>1. /\ \/ purchases' = purchases
         \/ \E t \in Purchases : \E paid : purchases' = [purchases EXCEPT ![t].paid = paid]
      /\ stock' = stock /\ elsewhere' = elsewhere
  <2>1. CASE Settle
    BY <2>1 DEF Settle, RecordPayment, shelf
  <2>2. ASSUME NEW p \in Payments, VoidPayment(p)
        PROVE  /\ \/ purchases' = purchases
                  \/ \E t \in Purchases : \E paid : purchases' = [purchases EXCEPT ![t].paid = paid]
               /\ stock' = stock /\ elsewhere' = elsewhere
    BY <1>0, <2>2 DEF VoidPayment, shelf, TypeOK, PaymentRows
  <2> QED
    BY <2>1, <2>2
<1>2. /\ purchases'[b].status = purchases[b].status
      /\ purchases'[b].supplier = purchases[b].supplier
      /\ purchases'[b].lines = purchases[b].lines
      /\ purchases'[b].returned = purchases[b].returned
      /\ purchases'[b].refunded = purchases[b].refunded
      /\ TotalOf(purchases'[b]) = TotalOf(purchases[b])
  <2>1. CASE purchases' = purchases
    BY <2>1
  <2>2. ASSUME NEW t \in Purchases, NEW paid, purchases' = [purchases EXCEPT ![t].paid = paid]
        PROVE  /\ purchases'[b].status = purchases[b].status
               /\ purchases'[b].supplier = purchases[b].supplier
               /\ purchases'[b].lines = purchases[b].lines
               /\ purchases'[b].returned = purchases[b].returned
               /\ purchases'[b].refunded = purchases[b].refunded
               /\ TotalOf(purchases'[b]) = TotalOf(purchases[b])
    BY <1>0, <2>2, PaidChanged
  <2> QED
    BY <1>1, <2>1, <2>2
<1> QED
  BY <1>0, <1>1, <1>2, LinesKept

(* Every operation keeps the lines and freezes the purchases with returns.  *)
LEMMA NextLines ==
    ASSUME RowsInv, [Next]_vars, NEW t \in Purchases
    PROVE  LineStep(t)
<1>0. TypeOK /\ LineInv(t) /\ (purchases'[t] = purchases[t] => LineStep(t))
  BY LinesKept DEF RowsInv, MoneyInv
<1>1. CASE Buy
  BY <1>0, <1>1, CreatePurchaseLines DEF Buy
<1>2. CASE Edit
  BY <1>0, <1>2, UpdatePurchaseLines DEF Edit
<1>3. ASSUME NEW b \in Purchases, DeletePurchase(b) PROVE LineStep(t)
  BY <1>0, <1>3, DeletePurchaseLines
<1>4. CASE Settle
  BY <1>4, PaymentLines
<1>5. ASSUME NEW p \in Payments, VoidPayment(p) PROVE LineStep(t)
  BY <1>5, PaymentLines
<1>6. CASE Return
  BY <1>0, <1>6, ReturnGoodsLines DEF Return
<1>7. CASE purchases' = purchases
  BY <1>0, <1>7
<1>8. Move => purchases' = purchases
  BY DEF Move, AdjustStock, PostOpening, SellLine, TakeBack, MovesElsewhere
<1> QED
  BY <1>1, <1>2, <1>3, <1>4, <1>5, <1>6, <1>7, <1>8 DEF Next, vars

(* RowsInv is an invariant.                                                 *)
LEMMA RowsHold == Spec => []RowsInv
<1>1. Init => RowsInv
  <2>1. Init => \A b \in Purchases : LineInv(b)
    BY MaxAmountIsNat DEF Init, LineInv, BlankPurchase, NoReturn, NoLine
  <2> QED
    BY <2>1, MoneyInvInductive DEF RowsInv
<1>2. RowsInv /\ [Next]_vars => RowsInv'
  <2> SUFFICES ASSUME RowsInv, [Next]_vars PROVE RowsInv'
    OBVIOUS
  <2>1. \A b \in Purchases : LineInv(b)'
    BY NextLines DEF LineStep
  <2> QED
    BY <2>1, MoneyInvInductive DEF RowsInv
<1> QED
  BY <1>1, <1>2, PTL DEF Spec

(* Once a purchase has a return, no operation edits it, voids it or moves   *)
(* it to another supplier, and no line gives back more than it brought.     *)
THEOREM ReturnsFreezePurchases == Spec => ReturnedPurchasesAreFrozen
<1>1. RowsInv /\ [Next]_vars => [FrozenByReturns]_vars
  <2> SUFFICES ASSUME RowsInv, [Next]_vars, NEW b \in Purchases, HasReturns(b) PROVE Frozen(b)
    BY DEF FrozenByReturns, Frozen
  <2> QED
    BY NextLines DEF LineStep
<1> QED
  BY <1>1, RowsHold, PTL DEF Spec, ReturnedPurchasesAreFrozen

-----------------------------------------------------------------------------
(* The books.  Each group posts its document: nothing when that is gone.    *)

PurchaseGroup(b) ==
    /\ books.purchase[b] = IF Live(b) THEN TotalOf(purchases[b]) ELSE 0
    /\ books.returned[b] = IF Live(b) THEN purchases[b].refunded ELSE 0

PaymentGroup(p) ==
    books.payment[p] = IF payments[p].state = "live" THEN payments[p].amount ELSE 0

BooksInv ==
    /\ RowsInv
    /\ \A b \in Purchases : PurchaseGroup(b)
    /\ \A p \in Payments : PaymentGroup(p)

BooksType == [purchase : [Purchases -> Nat], payment : [Payments -> Nat],
              returned : [Purchases -> Nat]]

(* A new purchase posts its total.                                          *)
LEMMA CreatePurchaseBooks ==
    ASSUME BooksInv, NEW b \in Purchases, NEW s \in Suppliers, NEW lines \in Lists,
           NEW discount \in Discounts, NEW advance \in Advances,
           CreatePurchase(b, s, lines, discount, advance)
    PROVE  /\ \A t \in Purchases : PurchaseGroup(t)'
           /\ \A p \in Payments : PaymentGroup(p)'
<1> DEFINE row == [BlankPurchase("live") EXCEPT
                      !.supplier = s, !.lines = lines, !.discount = discount, !.paid = advance]
<1>0. TypeOK /\ books \in BooksType
  BY DEF BooksInv, RowsInv, MoneyInv, TypeOK, BooksType
<1>1. /\ purchases' = [purchases EXCEPT ![b] = row] /\ payments' = payments
      /\ books' = [books EXCEPT !.purchase[b] = Posted(@, TotalOf(row))]
      /\ ~Live(b)
  BY DEF CreatePurchase, Live
<1>2. row.status = "live" /\ row.refunded = 0
  BY DEF BlankPurchase
<1> HIDE DEF row
<1>3. books.purchase[b] = 0 /\ books.returned[b] = 0
  BY <1>1 DEF BooksInv, PurchaseGroup
<1>4. /\ books'.purchase = [books.purchase EXCEPT ![b] = TotalOf(row)]
      /\ books'.returned = books.returned /\ books'.payment = books.payment
  BY <1>0, <1>1, <1>3 DEF BooksType, Posted
<1>5. PurchaseGroup(b)'
  BY <1>0, <1>1, <1>2, <1>3, <1>4 DEF PurchaseGroup, Live, TypeOK, BooksType
<1>6. ASSUME NEW t \in Purchases \ {b} PROVE PurchaseGroup(t)'
  <2>1. purchases'[t] = purchases[t] /\ books'.purchase[t] = books.purchase[t]
    BY <1>0, <1>1, <1>4 DEF TypeOK, BooksType
  <2> QED
    BY <1>4, <2>1 DEF BooksInv, PurchaseGroup, Live
<1>7. \A p \in Payments : PaymentGroup(p)'
  BY <1>1, <1>4 DEF BooksInv, PaymentGroup
<1> QED
  BY <1>5, <1>6, <1>7

(* An edit takes the group out and posts the new total.                     *)
LEMMA UpdatePurchaseBooks ==
    ASSUME BooksInv, NEW b \in Purchases, NEW s \in Suppliers,
           NEW lines \in Lists \cup {purchases[b].lines},
           NEW discount \in Discounts \cup {purchases[b].discount},
           UpdatePurchase(b, s, lines, discount)
    PROVE  /\ \A t \in Purchases : PurchaseGroup(t)'
           /\ \A p \in Payments : PaymentGroup(p)'
<1> DEFINE row == [purchases[b] EXCEPT !.supplier = s, !.lines = lines, !.discount = discount]
<1>0. TypeOK /\ books \in BooksType /\ purchases[b] \in PurchaseRows
  BY DEF BooksInv, RowsInv, MoneyInv, TypeOK, BooksType
<1>1. /\ purchases' = [purchases EXCEPT ![b] = row] /\ payments' = Repointed(b, s)
      /\ books' = [Unposted(b) EXCEPT !.purchase[b] = Posted(@, TotalOf(row))]
      /\ Live(b)
  BY DEF UpdatePurchase, Editable
<1>2. row.status = purchases[b].status /\ row.refunded = purchases[b].refunded
  BY <1>0 DEF PurchaseRows
<1> HIDE DEF row
<1>3. /\ books'.purchase = [books.purchase EXCEPT ![b] = TotalOf(row)]
      /\ books'.returned = books.returned /\ books'.payment = books.payment
  BY <1>0, <1>1 DEF BooksType, Posted, Unposted
<1>4. PurchaseGroup(b)'
  BY <1>0, <1>1, <1>2, <1>3 DEF BooksInv, PurchaseGroup, Live, TypeOK, BooksType
<1>5. ASSUME NEW t \in Purchases \ {b} PROVE PurchaseGroup(t)'
  <2>1. purchases'[t] = purchases[t] /\ books'.purchase[t] = books.purchase[t]
    BY <1>0, <1>1, <1>3 DEF TypeOK, BooksType
  <2> QED
    BY <1>3, <2>1 DEF BooksInv, PurchaseGroup, Live
<1>6. \A p \in Payments : PaymentGroup(p)'
  <2>1. \A p \in Payments : /\ payments'[p].state = payments[p].state
                            /\ payments'[p].amount = payments[p].amount
    BY <1>0, <1>1 DEF Repointed, TypeOK, PaymentRows
  <2> QED
    BY <1>3, <2>1 DEF BooksInv, PaymentGroup
<1> QED
  BY <1>4, <1>5, <1>6

(* A void takes out the group of the purchase and those of its payments; it *)
(* has no return group, because it had no returns.                          *)
LEMMA DeletePurchaseBooks ==
    ASSUME BooksInv, NEW b \in Purchases, DeletePurchase(b)
    PROVE  /\ \A t \in Purchases : PurchaseGroup(t)'
           /\ \A p \in Payments : PaymentGroup(p)'
<1>0. TypeOK /\ books \in BooksType
  BY DEF BooksInv, RowsInv, MoneyInv, TypeOK, BooksType
<1>1. Live(b) /\ ~HasReturns(b) /\ ~Live(b)'
  BY <1>0 DEF DeletePurchase, Editable, BlankPurchase, Live, TypeOK
<1>2. books.returned[b] = 0
  BY <1>1 DEF BooksInv, RowsInv, PurchaseGroup, LineInv
<1>3. /\ books'.purchase = [books.purchase EXCEPT ![b] = 0]
      /\ books'.returned = books.returned
      /\ books'.payment = [p \in Payments |-> IF p \in AllocatedTo(b) THEN 0 ELSE books.payment[p]]
  BY <1>0 DEF DeletePurchase, Unposted, BooksType
<1>4. PurchaseGroup(b)'
  BY <1>0, <1>1, <1>2, <1>3 DEF PurchaseGroup, BooksType
<1>5. ASSUME NEW t \in Purchases \ {b} PROVE PurchaseGroup(t)'
  <2>1. purchases'[t] = purchases[t] /\ books'.purchase[t] = books.purchase[t]
    BY <1>0, <1>3 DEF DeletePurchase, TypeOK, BooksType
  <2> QED
    BY <1>3, <2>1 DEF BooksInv, PurchaseGroup, Live
<1>6. ASSUME NEW p \in Payments PROVE PaymentGroup(p)'
  <2>1. CASE p \in AllocatedTo(b)
    BY <1>3, <2>1 DEF DeletePurchase, BlankPayment, PaymentGroup
  <2>2. CASE p \notin AllocatedTo(b)
    BY <1>3, <2>2 DEF DeletePurchase, BooksInv, PaymentGroup
  <2> QED
    BY <2>1, <2>2
<1> QED
  BY <1>4, <1>5, <1>6

(* A payment posts its amount and its void takes it out again; neither      *)
(* changes what a purchase posts.                                           *)
LEMMA PaymentBooks ==
    ASSUME BooksInv, Settle \/ \E p \in Payments : VoidPayment(p)
    PROVE  /\ \A t \in Purchases : PurchaseGroup(t)'
           /\ \A p \in Payments : PaymentGroup(p)'
<1>0. TypeOK /\ books \in BooksType /\ RowsInv
  BY DEF BooksInv, RowsInv, MoneyInv, TypeOK, BooksType
<1>1. PICK p \in Payments :
          /\ books'.purchase = books.purchase /\ books'.returned = books.returned
          /\ \A r \in Payments \ {p} : payments'[r] = payments[r] /\ books'.payment[r] = books.payment[r]
          /\ PaymentGroup(p)'
  <2>1. ASSUME NEW p \in Payments, NEW s \in Suppliers, NEW b \in Purchases \cup {NoPurchase},
               NEW amount \in Amounts, RecordPayment(p, s, b, amount)
        PROVE  /\ books'.purchase = books.purchase /\ books'.returned = books.returned
               /\ \A r \in Payments \ {p} :
                     payments'[r] = payments[r] /\ books'.payment[r] = books.payment[r]
               /\ PaymentGroup(p)'
    <3>1. books.payment[p] = 0
      BY <2>1 DEF RecordPayment, BooksInv, PaymentGroup
    <3>2. /\ books'.purchase = books.purchase /\ books'.returned = books.returned
          /\ books'.payment = [books.payment EXCEPT ![p] = amount]
      BY <1>0, <2>1, <3>1 DEF RecordPayment, Posted, BooksType
    <3>3. /\ payments'[p].state = "live" /\ payments'[p].amount = amount
          /\ \A r \in Payments \ {p} : payments'[r] = payments[r]
      BY <1>0, <2>1 DEF RecordPayment, TypeOK
    <3> QED
      BY <1>0, <3>2, <3>3 DEF PaymentGroup, BooksType
  <2>2. ASSUME NEW p \in Payments, VoidPayment(p)
        PROVE  /\ books'.purchase = books.purchase /\ books'.returned = books.returned
               /\ \A r \in Payments \ {p} :
                     payments'[r] = payments[r] /\ books'.payment[r] = books.payment[r]
               /\ PaymentGroup(p)'
    <3>1. /\ books'.purchase = books.purchase /\ books'.returned = books.returned
          /\ books'.payment = [books.payment EXCEPT ![p] = 0]
      BY <1>0, <2>2 DEF VoidPayment, BooksType
    <3>2. /\ payments'[p].state = "deleted"
          /\ \A r \in Payments \ {p} : payments'[r] = payments[r]
      BY <1>0, <2>2 DEF VoidPayment, BlankPayment, TypeOK
    <3> QED
      BY <1>0, <3>1, <3>2 DEF PaymentGroup, BooksType
  <2> QED
    BY <2>1, <2>2 DEF Settle
<1>2. ASSUME NEW t \in Purchases PROVE PurchaseGroup(t)'
  <2>1. /\ TotalOf(purchases'[t]) = TotalOf(purchases[t])
        /\ purchases'[t].status = purchases[t].status
        /\ purchases'[t].refunded = purchases[t].refunded
    BY <1>0, PaymentLines
  <2> QED
    BY <1>1, <2>1 DEF BooksInv, PurchaseGroup, Live
<1>3. \A r \in Payments \ {p} : PaymentGroup(r)'
  BY <1>1 DEF BooksInv, PaymentGroup
<1> QED
  BY <1>1, <1>2, <1>3

(* A return posts its refund.                                               *)
LEMMA ReturnGoodsBooks ==
    ASSUME BooksInv, NEW b \in Purchases,
           NEW back \in [Variants -> Quantities \cup {0}] \ {NoReturn}, ReturnGoods(b, back)
    PROVE  /\ \A t \in Purchases : PurchaseGroup(t)'
           /\ \A p \in Payments : PaymentGroup(p)'
<1> DEFINE refund == RefundFor(purchases[b], back)
<1>0. TypeOK /\ books \in BooksType /\ purchases[b] \in PurchaseRows
  BY DEF BooksInv, RowsInv, MoneyInv, TypeOK, BooksType
<1>1. /\ Live(b)
      /\ purchases' = [purchases EXCEPT
                           ![b].returned = [v \in Variants |-> @[v] + back[v]],
                           ![b].refunded = @ + refund]
      /\ books' = [books EXCEPT !.returned[b] = @ + refund]
      /\ payments' = payments
  BY DEF ReturnGoods
<1> HIDE DEF refund
<1>2. /\ books'.purchase = books.purchase /\ books'.payment = books.payment
      /\ books'.returned = [books.returned EXCEPT ![b] = books.returned[b] + refund]
  BY <1>0, <1>1 DEF BooksType
<1>3. /\ purchases'[b].status = purchases[b].status
      /\ TotalOf(purchases'[b]) = TotalOf(purchases[b])
      /\ purchases'[b].refunded = purchases[b].refunded + refund
      /\ \A t \in Purchases \ {b} : purchases'[t] = purchases[t]
  BY <1>0, <1>1 DEF TypeOK, PurchaseRows, TotalOf
<1>4. PurchaseGroup(b)'
  BY <1>0, <1>1, <1>2, <1>3 DEF BooksInv, PurchaseGroup, Live, BooksType
<1>5. \A t \in Purchases \ {b} : PurchaseGroup(t)'
  BY <1>0, <1>2, <1>3 DEF BooksInv, PurchaseGroup, Live, BooksType
<1>6. \A p \in Payments : PaymentGroup(p)'
  BY <1>1, <1>2 DEF BooksInv, PaymentGroup
<1> QED
  BY <1>4, <1>5, <1>6

(* BooksInv is an invariant.                                                *)
LEMMA BooksHold == Spec => []BooksInv
<1>1. Init => (\A b \in Purchases : PurchaseGroup(b)) /\ (\A p \in Payments : PaymentGroup(p))
  BY DEF Init, PurchaseGroup, PaymentGroup, Live, BlankPurchase, BlankPayment
<1>2. ASSUME BooksInv, [Next]_vars
      PROVE  (\A b \in Purchases : PurchaseGroup(b)') /\ (\A p \in Payments : PaymentGroup(p)')
  <2>1. CASE Buy
    BY <1>2, <2>1, CreatePurchaseBooks DEF Buy
  <2>2. CASE Edit
    BY <1>2, <2>2, UpdatePurchaseBooks DEF Edit
  <2>3. ASSUME NEW b \in Purchases, DeletePurchase(b)
        PROVE  (\A t \in Purchases : PurchaseGroup(t)') /\ (\A p \in Payments : PaymentGroup(p)')
    BY <1>2, <2>3, DeletePurchaseBooks
  <2>4. CASE Settle \/ \E p \in Payments : VoidPayment(p)
    BY <1>2, <2>4, PaymentBooks
  <2>5. CASE Return
    BY <1>2, <2>5, ReturnGoodsBooks DEF Return
  <2>6. CASE UNCHANGED <<purchases, payments, books>>
    BY <1>2, <2>6 DEF BooksInv, PurchaseGroup, PaymentGroup, Live
  <2>7. Move => UNCHANGED <<purchases, payments, books>>
    BY DEF Move, AdjustStock, PostOpening, SellLine, TakeBack, MovesElsewhere
  <2> QED
    BY <1>2, <2>1, <2>2, <2>3, <2>4, <2>5, <2>6, <2>7 DEF Next, vars
<1>3. (RowsInv' /\ (\A b \in Purchases : PurchaseGroup(b)') /\ (\A p \in Payments : PaymentGroup(p)'))
         => BooksInv'
  BY DEF BooksInv
<1>4. BooksInv => RowsInv
  BY DEF BooksInv
<1>5. RowsInv /\ (\A b \in Purchases : PurchaseGroup(b)) /\ (\A p \in Payments : PaymentGroup(p))
         => BooksInv
  BY DEF BooksInv
<1>6. BooksInv /\ [Next]_vars /\ RowsInv' => BooksInv'
  BY <1>2, <1>3
<1> QED
  BY <1>1, <1>5, <1>6, RowsHold, PTL DEF Spec

(* A sum over all rows is the sum over those whose document is live.        *)
LEMMA TallyLive ==
    ASSUME NEW f, NEW g, NEW S, NEW T \in SUBSET S,
           \A x \in S : f[x] = IF x \in T THEN g[x] ELSE 0
    PROVE  TallyOf(f, S) = TallyOf(g, T)
<1>1. \A n \in Amounts : ~(n <= 0)
  BY MaxAmountIsNat DEF Amounts
<1>2. Units(f, S) = Units(g, T)
  BY <1>1 DEF Units
<1> QED
  BY <1>2 DEF TallyOf

(* Accounts Payable in the ledger is the sum of the supplier Khatas: after  *)
(* every edit that reposts, void, settlement and return.                    *)
THEOREM PayableIsTheSumOfKhatas == Spec => []LedgerAgreesWithKhata
<1>1. ASSUME BooksInv PROVE LedgerAgreesWithKhata
  <2>1. TallyOf(books.purchase, Purchases)
          = TallyOf([b \in Purchases |-> TotalOf(purchases[b])], LivePurchases)
    <3>1. \A b \in Purchases :
             books.purchase[b] = IF b \in LivePurchases
                                 THEN [c \in Purchases |-> TotalOf(purchases[c])][b] ELSE 0
      BY <1>1 DEF BooksInv, PurchaseGroup, LivePurchases
    <3> QED
      BY <3>1, TallyLive DEF LivePurchases
  <2>2. TallyOf(books.returned, Purchases)
          = TallyOf([b \in Purchases |-> purchases[b].refunded], LivePurchases)
    <3>1. \A b \in Purchases :
             books.returned[b] = IF b \in LivePurchases
                                 THEN [c \in Purchases |-> purchases[c].refunded][b] ELSE 0
      BY <1>1 DEF BooksInv, PurchaseGroup, LivePurchases
    <3> QED
      BY <3>1, TallyLive DEF LivePurchases
  <2>3. TallyOf(books.payment, Payments)
          = TallyOf(AmountOf, {p \in Payments : payments[p].state = "live"})
    <3>1. \A p \in Payments :
             books.payment[p] = IF p \in {r \in Payments : payments[r].state = "live"}
                                THEN AmountOf[p] ELSE 0
      BY <1>1 DEF BooksInv, PaymentGroup, AmountOf
    <3> QED
      BY <3>1, TallyLive
  <2> QED
    BY <2>1, <2>2, <2>3 DEF LedgerAgreesWithKhata, LedgerPayable, DocumentPayable
<1> QED
  BY <1>1, BooksHold, PTL

-----------------------------------------------------------------------------
(* The shelf.  What a step adds to the stock of a variant is what it adds   *)
(* to the units one purchase keeps, or to what moved elsewhere.             *)

ShelfInv == RowsInv /\ StockIsAccountedFor

KeptIn(row, v) == row.lines[v].qty - row.returned[v]

(* The units a purchase keeps fit the column the sum is taken over.         *)
LEMMA KeptBounded ==
    ASSUME TypeOK, NEW b \in Purchases, LineInv(b), NEW v \in Variants
    PROVE  KeptIn(purchases[b], v) \in 0 .. MaxAmount
<1>1. /\ purchases[b].lines[v].qty \in 0 .. MaxAmount
      /\ purchases[b].returned[v] <= purchases[b].lines[v].qty
  BY DEF LineInv
<1>2. purchases[b].lines[v].qty \in Nat /\ purchases[b].returned[v] \in Nat
  BY UnitsType
<1> QED
  BY <1>1, <1>2, MaxAmountIsNat DEF KeptIn

(* Once more, of the rows a step leaves.                                    *)
LEMMA KeptBoundedNext ==
    ASSUME TypeOK', NEW b \in Purchases, LineInv(b)', NEW v \in Variants
    PROVE  KeptIn(purchases'[b], v) \in 0 .. MaxAmount
<1>1. /\ purchases'[b].lines[v].qty \in 0 .. MaxAmount
      /\ purchases'[b].returned[v] <= purchases'[b].lines[v].qty
  BY DEF LineInv
<1>2. purchases'[b].lines[v].qty \in Nat /\ purchases'[b].returned[v] \in Nat
  BY DEF TypeOK, PurchaseRows, Line
<1> QED
  BY <1>1, <1>2, MaxAmountIsNat DEF KeptIn

(* The sum over all purchases, one of them taken apart.                     *)
LEMMA SplitKept ==
    ASSUME NEW f, NEW b \in Purchases, f[b] \in 0 .. MaxAmount
    PROVE  /\ TallyOf(f, Purchases) = TallyOf(f, Purchases \ {b}) + f[b]
           /\ TallyOf(f, Purchases \ {b}) \in Nat
<1>1. IsFiniteSet(Purchases \ {b})
  BY PurchaseAssumption, FS_Difference
<1>2. b \notin Purchases \ {b} /\ (Purchases \ {b}) \cup {b} = Purchases
  OBVIOUS
<1>3. TallyOf(f, (Purchases \ {b}) \cup {b}) = TallyOf(f, Purchases \ {b}) + f[b]
  BY <1>1, <1>2, TallyAdd
<1> QED
  BY <1>1, <1>2, <1>3, TallyType

(* Changing one amount changes the sum by as much.                          *)
LEMMA TallyChanges ==
    ASSUME NEW f, NEW g, NEW b \in Purchases, NEW d \in Int,
           f[b] \in 0 .. MaxAmount, g[b] \in 0 .. MaxAmount, g[b] = f[b] + d,
           \A t \in Purchases \ {b} : g[t] = f[t]
    PROVE  TallyOf(g, Purchases) = TallyOf(f, Purchases) + d
<1>1. /\ TallyOf(f, Purchases) = TallyOf(f, Purchases \ {b}) + f[b]
      /\ TallyOf(g, Purchases) = TallyOf(g, Purchases \ {b}) + g[b]
      /\ TallyOf(f, Purchases \ {b}) \in Nat
  BY SplitKept
<1>2. TallyOf(g, Purchases \ {b}) = TallyOf(f, Purchases \ {b})
  BY TallySame
<1>3. f[b] \in Int
  BY MaxAmountIsNat
<1> QED
  BY <1>1, <1>2, <1>3

(* A step that moves the stock by what one purchase keeps more or less.     *)
LEMMA ShelfMoves ==
    ASSUME ShelfInv, TypeOK', NEW b \in Purchases, LineInv(b)', elsewhere' = elsewhere,
           \A t \in Purchases \ {b} : purchases'[t] = purchases[t],
           NEW d \in [Variants -> Int],
           \A v \in Variants : /\ stock'[v].quantity = stock[v].quantity + d[v]
                              /\ KeptIn(purchases'[b], v) = KeptIn(purchases[b], v) + d[v]
    PROVE  StockIsAccountedFor'
<1>0. TypeOK /\ LineInv(b)
  BY DEF ShelfInv, RowsInv, MoneyInv
<1> SUFFICES ASSUME NEW v \in Variants
             PROVE  stock'[v].quantity
                      = elsewhere'[v] + TallyOf([t \in Purchases |-> KeptOf(t, v)'], Purchases)
  BY DEF StockIsAccountedFor
<1> DEFINE f == [t \in Purchases |-> KeptOf(t, v)]
           g == [t \in Purchases |-> KeptOf(t, v)']
<1>1. f[b] = KeptIn(purchases[b], v) /\ g[b] = KeptIn(purchases'[b], v)
  BY DEF KeptOf, KeptIn
<1>2. f[b] \in 0 .. MaxAmount /\ g[b] \in 0 .. MaxAmount
  BY <1>0, <1>1, KeptBounded, KeptBoundedNext
<1>3. \A t \in Purchases \ {b} : g[t] = f[t]
  BY DEF KeptOf
<1>4. stock[v].quantity = elsewhere[v] + TallyOf(f, Purchases)
  BY DEF ShelfInv, StockIsAccountedFor
<1> HIDE DEF f, g
<1>5. /\ stock'[v].quantity = stock[v].quantity + d[v] /\ g[b] = f[b] + d[v]
      /\ d[v] \in Int
  BY <1>1
<1>6. TallyOf(g, Purchases) = TallyOf(f, Purchases) + d[v]
  BY <1>2, <1>3, <1>5, TallyChanges
<1>7. elsewhere[v] \in Int /\ TallyOf(f, Purchases) \in Nat
  BY <1>0, PurchaseAssumption, TallyType DEF TypeOK
<1>8. stock'[v].quantity = elsewhere'[v] + TallyOf(g, Purchases)
  BY <1>4, <1>5, <1>6, <1>7
<1> QED
  BY <1>8 DEF g

(* The lines of one purchase replaced by others, as the three operations on *)
(* a document do.                                                           *)
LEMMA ReceivedShelf ==
    ASSUME ShelfInv, TypeOK', NEW b \in Purchases, LineStep(b), elsewhere' = elsewhere,
           \A t \in Purchases \ {b} : purchases'[t] = purchases[t],
           NEW old \in Lines, NEW new \in Lines, Receivable(old, new),
           stock' = Received(old, new), purchases'[b].lines = new,
           \A v \in Variants : old[v].qty = purchases[b].lines[v].qty,
           \A v \in Variants : purchases[b].returned[v] = 0 /\ purchases'[b].returned[v] = 0
    PROVE  StockIsAccountedFor'
<1> DEFINE d == [v \in Variants |-> new[v].qty - old[v].qty]
<1>0. TypeOK /\ stock \in StockRows /\ LineInv(b)'
  BY DEF ShelfInv, RowsInv, MoneyInv, TypeOK, StockRows, LineStep
<1>1. \A v \in Variants : new[v].qty \in Nat /\ old[v].qty \in Nat
  BY DEF Lines, Line
<1>2. d \in [Variants -> Int]
  BY <1>1
<1>3. ASSUME NEW v \in Variants
      PROVE  /\ stock'[v].quantity = stock[v].quantity + d[v]
             /\ KeptIn(purchases'[b], v) = KeptIn(purchases[b], v) + d[v]
  <2>1. stock'[v].quantity = stock[v].quantity + d[v]
    BY <1>0, ReceivedType
  <2>2. purchases[b].returned[v] = 0 /\ purchases'[b].returned[v] = 0
    OBVIOUS
  <2>3. purchases[b].lines[v].qty = old[v].qty /\ purchases'[b].lines[v].qty = new[v].qty
    OBVIOUS
  <2> QED
    BY <1>1, <2>1, <2>2, <2>3 DEF KeptIn
<1> HIDE DEF d
<1> QED
  BY <1>0, <1>2, <1>3, ShelfMoves

(* No units have gone back from a row without returns.                      *)
LEMMA NoneBack ==
    ASSUME TypeOK, NEW b \in Purchases, ~HasReturns(b)
    PROVE  \A v \in Variants : purchases[b].returned[v] = 0
BY UnitsType DEF HasReturns

(* A new purchase brings its lines.                                         *)
LEMMA CreatePurchaseShelf ==
    ASSUME ShelfInv, NEW b \in Purchases, NEW s \in Suppliers, NEW lines \in Lists,
           NEW discount \in Discounts, NEW advance \in Advances,
           CreatePurchase(b, s, lines, discount, advance)
    PROVE  StockIsAccountedFor'
<1> DEFINE none == BlankPurchase("unused").lines
<1>0. TypeOK /\ TypeOK' /\ LineInv(b) /\ RowsInv
  BY CreatePurchaseType DEF ShelfInv, RowsInv, MoneyInv
<1>1. /\ ~Live(b) /\ elsewhere' = elsewhere
      /\ Receivable(none, lines) /\ stock' = Received(none, lines)
  BY DEF CreatePurchase, Live
<1>2. ~HasReturns(b)
  BY <1>0, <1>1, ReturnedIsLive
<1>3. none \in Lines /\ \A v \in Variants : none[v].qty = 0
  BY DEF BlankPurchase, NoLine, Lines, Line
<1>4. \A v \in Variants : none[v].qty = purchases[b].lines[v].qty
  BY <1>0, <1>1, <1>3 DEF LineInv
<1>5. /\ LineStep(b) /\ purchases'[b].lines = lines
      /\ \A t \in Purchases \ {b} : purchases'[t] = purchases[t]
      /\ \A v \in Variants : purchases'[b].returned[v] = 0
  BY <1>0, CreatePurchaseLines DEF NoReturn
<1>6. \A v \in Variants : purchases[b].returned[v] = 0
  BY <1>0, <1>2, NoneBack
<1> HIDE DEF none
<1> QED
  BY <1>0, <1>1, <1>3, <1>4, <1>5, <1>6, ListsType, ReceivedShelf

(* An edit moves the shelf by the change of each line.                      *)
LEMMA UpdatePurchaseShelf ==
    ASSUME ShelfInv, NEW b \in Purchases, NEW s \in Suppliers,
           NEW lines \in Lists \cup {purchases[b].lines},
           NEW discount \in Discounts \cup {purchases[b].discount},
           UpdatePurchase(b, s, lines, discount)
    PROVE  StockIsAccountedFor'
<1> DEFINE old == purchases[b].lines
<1>0. TypeOK /\ TypeOK' /\ RowsInv /\ old \in Lines
  BY UpdatePurchaseType, UnitsType DEF ShelfInv, RowsInv, MoneyInv, TypeOK, PurchaseRows, Lines
<1>1. /\ ~HasReturns(b) /\ elsewhere' = elsewhere
      /\ Receivable(old, lines) /\ stock' = Received(old, lines)
  BY DEF UpdatePurchase, Editable
<1>2. \A v \in Variants : purchases[b].returned[v] = 0
  BY <1>0, <1>1, NoneBack
<1>3. /\ LineStep(b) /\ purchases'[b].lines = lines /\ lines \in Lines
      /\ purchases'[b].returned = purchases[b].returned
      /\ \A t \in Purchases \ {b} : purchases'[t] = purchases[t]
  BY <1>0, UpdatePurchaseLines
<1>4. \A v \in Variants : purchases[b].returned[v] = 0 /\ purchases'[b].returned[v] = 0
  BY <1>2, <1>3
<1>5. \A v \in Variants : old[v].qty = purchases[b].lines[v].qty
  OBVIOUS
<1> HIDE DEF old
<1> QED
  BY <1>0, <1>1, <1>3, <1>4, <1>5, ReceivedShelf

(* A void takes all of them out again.                                      *)
LEMMA DeletePurchaseShelf ==
    ASSUME ShelfInv, NEW b \in Purchases, DeletePurchase(b)
    PROVE  StockIsAccountedFor'
<1> DEFINE old  == purchases[b].lines
           none == BlankPurchase("deleted").lines
<1>0. TypeOK /\ TypeOK' /\ RowsInv /\ old \in Lines
  BY DeletePurchaseType, UnitsType DEF ShelfInv, RowsInv, MoneyInv, TypeOK, PurchaseRows, Lines
<1>1. /\ ~HasReturns(b) /\ elsewhere' = elsewhere
      /\ Receivable(old, none) /\ stock' = Received(old, none)
  BY DEF DeletePurchase, Editable
<1>2. \A v \in Variants : purchases[b].returned[v] = 0
  BY <1>0, <1>1, NoneBack
<1>3. none = [v \in Variants |-> NoLine] /\ none \in Lines
  BY BlankTypes DEF BlankPurchase
<1>4. /\ LineStep(b) /\ purchases'[b].lines = none
      /\ \A v \in Variants : purchases'[b].returned[v] = 0
      /\ \A t \in Purchases \ {b} : purchases'[t] = purchases[t]
  BY <1>0, <1>3, DeletePurchaseLines DEF NoReturn
<1>5. \A v \in Variants : old[v].qty = purchases[b].lines[v].qty
  OBVIOUS
<1> HIDE DEF old, none
<1> QED
  BY <1>0, <1>1, <1>2, <1>3, <1>4, <1>5, ReceivedShelf

(* A return takes out what went back.                                       *)
LEMMA ReturnGoodsShelf ==
    ASSUME ShelfInv, NEW b \in Purchases,
           NEW back \in [Variants -> Quantities \cup {0}] \ {NoReturn}, ReturnGoods(b, back)
    PROVE  StockIsAccountedFor'
<1> DEFINE d == [v \in Variants |-> - back[v]]
<1>0. TypeOK /\ TypeOK' /\ RowsInv /\ stock \in StockRows
  BY ReturnGoodsType DEF ShelfInv, RowsInv, MoneyInv, TypeOK, StockRows
<1>1. Available(back) /\ stock' = Shift(back) /\ elsewhere' = elsewhere
  BY DEF ReturnGoods
<1>2. /\ LineInv(b)' /\ purchases'[b].lines = purchases[b].lines
      /\ \A t \in Purchases \ {b} : purchases'[t] = purchases[t]
      /\ \A v \in Variants : purchases'[b].returned[v] = purchases[b].returned[v] + back[v]
  BY <1>0, ReturnGoodsLines DEF LineStep
<1>3. d \in [Variants -> Int] /\ back \in [Variants -> Int]
  BY BackType
<1>4. ASSUME NEW v \in Variants
      PROVE  /\ stock'[v].quantity = stock[v].quantity + d[v]
             /\ KeptIn(purchases'[b], v) = KeptIn(purchases[b], v) + d[v]
  <2>1. stock[v].quantity \in Nat /\ back[v] \in Int
    BY <1>0, <1>3 DEF StockRows
  <2>2. stock'[v].quantity = stock[v].quantity - back[v]
    BY <1>0, <1>1, <1>3, ShiftType
  <2>3. purchases[b].lines[v].qty \in Nat /\ purchases[b].returned[v] \in Nat
    BY <1>0, UnitsType
  <2>4. KeptIn(purchases'[b], v) = KeptIn(purchases[b], v) - back[v]
    BY <1>2, <2>1, <2>3 DEF KeptIn
  <2>5. KeptIn(purchases[b], v) \in Int
    BY <2>3 DEF KeptIn
  <2> QED
    BY <2>1, <2>2, <2>4, <2>5
<1> HIDE DEF d
<1> QED
  BY <1>0, <1>1, <1>2, <1>3, <1>4, ShelfMoves

(* A step that keeps what each purchase keeps.                              *)
LEMMA ShelfKept ==
    ASSUME ShelfInv, TypeOK',
           \A t \in Purchases : /\ purchases'[t].lines = purchases[t].lines
                                /\ purchases'[t].returned = purchases[t].returned,
           \A v \in Variants : stock'[v].quantity - elsewhere'[v]
                                  = stock[v].quantity - elsewhere[v]
    PROVE  StockIsAccountedFor'
<1> SUFFICES ASSUME NEW v \in Variants
             PROVE  stock'[v].quantity
                      = elsewhere'[v] + TallyOf([t \in Purchases |-> KeptOf(t, v)'], Purchases)
  BY DEF StockIsAccountedFor
<1> DEFINE f == [t \in Purchases |-> KeptOf(t, v)]
<1>1. [t \in Purchases |-> KeptOf(t, v)'] = f
  BY DEF KeptOf
<1>2. stock[v].quantity = elsewhere[v] + TallyOf(f, Purchases)
  BY DEF ShelfInv, StockIsAccountedFor
<1> HIDE DEF f
<1>3. TallyOf(f, Purchases) \in Nat
  BY PurchaseAssumption, TallyType
<1>4. /\ stock[v].quantity \in Nat /\ stock'[v].quantity \in Nat
      /\ elsewhere[v] \in Int /\ elsewhere'[v] \in Int
  BY DEF ShelfInv, RowsInv, MoneyInv, TypeOK
<1>5. stock'[v].quantity - elsewhere'[v] = stock[v].quantity - elsewhere[v]
  OBVIOUS
<1>6. stock'[v].quantity = elsewhere'[v] + TallyOf(f, Purchases)
  BY <1>2, <1>3, <1>4, <1>5
<1> QED
  BY <1>1, <1>6

(* What is on the shelf is what the live purchases brought and did not take *)
(* back, and what moved elsewhere: whatever is bought, edited, voided,      *)
(* returned or sold in between.                                             *)
THEOREM PurchasedStockIsAccountedFor == Spec => []StockIsAccountedFor
<1>1. ASSUME Init PROVE StockIsAccountedFor
  <2> SUFFICES ASSUME NEW v \in Variants
               PROVE  stock[v].quantity
                        = elsewhere[v] + TallyOf([t \in Purchases |-> KeptOf(t, v)], Purchases)
    BY DEF StockIsAccountedFor
  <2> DEFINE f == [t \in Purchases |-> KeptOf(t, v)]
  <2>1. \A t \in Purchases : f[t] = 0
    BY <1>1 DEF Init, KeptOf, BlankPurchase, NoLine, NoReturn
  <2>2. stock[v].quantity = 0 /\ elsewhere[v] = 0
    BY <1>1 DEF Init
  <2> HIDE DEF f
  <2>3. TallyOf(f, Purchases) = 0
    BY <2>1, TallyLive, TallyEmpty
  <2> QED
    BY <2>2, <2>3 DEF f
<1>2. ASSUME ShelfInv, [Next]_vars PROVE StockIsAccountedFor'
  <2>0. RowsInv /\ TypeOK /\ TypeOK'
    BY <1>2, NextType DEF ShelfInv, RowsInv, MoneyInv
  <2>1. CASE Buy
    BY <1>2, <2>1, CreatePurchaseShelf DEF Buy
  <2>2. CASE Edit
    BY <1>2, <2>2, UpdatePurchaseShelf DEF Edit
  <2>3. ASSUME NEW b \in Purchases, DeletePurchase(b) PROVE StockIsAccountedFor'
    BY <1>2, <2>3, DeletePurchaseShelf
  <2>4. CASE Settle \/ \E p \in Payments : VoidPayment(p)
    <3>1. \A t \in Purchases : /\ purchases'[t].lines = purchases[t].lines
                               /\ purchases'[t].returned = purchases[t].returned
      BY <2>0, <2>4, PaymentLines
    <3>2. stock' = stock /\ elsewhere' = elsewhere
      BY <2>4 DEF Settle, RecordPayment, VoidPayment, shelf
    <3> QED
      BY <1>2, <2>0, <3>1, <3>2, ShelfKept
  <2>5. CASE Return
    BY <1>2, <2>5, ReturnGoodsShelf DEF Return
  <2>6. CASE Move
    BY <1>2, <2>0, <2>6, MoveType, ShelfKept
  <2>7. CASE UNCHANGED vars
    BY <1>2, <2>0, <2>7, ShelfKept DEF shelf, vars
  <2> QED
    BY <1>2, <2>1, <2>2, <2>3, <2>4, <2>5, <2>6, <2>7 DEF Next
<1>3. RowsInv /\ StockIsAccountedFor /\ [Next]_vars => StockIsAccountedFor'
  BY <1>2 DEF ShelfInv
<1> QED
  BY <1>1, <1>3, RowsHold, PTL DEF Spec

-----------------------------------------------------------------------------
(* The moving average.                                                      *)

(* Products of naturals are monotonic.                                      *)
LEMMA ProductGrows ==
    ASSUME NEW a \in Nat, NEW b \in Nat, NEW c \in Nat, a <= b
    PROVE  c * a <= c * b
<1>1. b = a + (b - a) /\ b - a \in Nat
  OBVIOUS
<1>2. c * b = c * a + c * (b - a)
  BY <1>1
<1>3. c * (b - a) \in Nat /\ c * a \in Nat
  BY <1>1
<1> QED
  BY <1>2, <1>3

(* A quotient rounded half up is no more than a whole number the exact      *)
(* quotient does not exceed.                                                *)
LEMMA RoundDivBound ==
    ASSUME NEW n \in Nat, NEW d \in Nat \ {0}, NEW m \in Nat, n <= d * m
    PROVE  RoundDiv(n, d) <= m
<1> DEFINE x == 2 * n + d
           y == 2 * d
           q == x \div y
<1>1. x \in Nat /\ y \in Nat /\ y > 0 /\ q \in Nat /\ RoundDiv(n, d) = q
  BY DEF RoundDiv
<1>2. y * q <= x
  BY <1>1
<1>3. d * m \in Nat /\ y * (m + 1) = 2 * (d * m) + 2 * d
  OBVIOUS
<1>4. x < y * (m + 1)
  BY <1>3
<1>5. CASE q >= m + 1
  <2> HIDE DEF x, y, q
  <2>1. y * (m + 1) <= y * q
    BY <1>1, <1>5, ProductGrows
  <2>2. y * (m + 1) \in Int /\ y * q \in Int
    BY <1>1
  <2> QED
    BY <1>1, <1>2, <1>4, <2>1, <2>2
<1>6. CASE ~(q >= m + 1)
  <2> HIDE DEF x, y, q
  <2> QED
    BY <1>1, <1>6
<1> QED
  BY <1>5, <1>6

(* The average after a receipt lies under any bound of the average before   *)
(* and of the cost received.                                                *)
LEMMA AverageAfterBound ==
    ASSUME NEW row \in [quantity : Nat, average : Nat], NEW q \in Nat \ {0}, NEW cost \in Nat,
           NEW m \in Nat, row.average <= m, cost * AverageScale <= m
    PROVE  AverageAfter(row, q, cost) <= m
<1> DEFINE a == row.quantity * row.average
           c == cost * AverageScale
           n == a + q * c
<1>1. /\ row.quantity \in Nat /\ row.average \in Nat /\ AverageScale \in Nat
      /\ row.quantity + q \in Nat \ {0}
  BY InventoryAssumption
<1>2. a \in Nat /\ c \in Nat /\ q * c \in Nat
  BY <1>1
<1>3. a <= row.quantity * m
  BY <1>1, ProductGrows
<1>4. q * c <= q * m
  <2>1. c <= m
    OBVIOUS
  <2> HIDE DEF c
  <2> QED
    BY <1>2, <2>1, ProductGrows
<1>5. (row.quantity + q) * m = row.quantity * m + q * m
  BY <1>1
<1>6. row.quantity * m \in Nat /\ q * m \in Nat
  BY <1>1
<1>7. AverageAfter(row, q, cost) = RoundDiv(n, row.quantity + q)
  <2>1. q * cost * AverageScale = q * c
    BY <1>1
  <2> QED
    BY <2>1 DEF AverageAfter
<1>8. n \in Nat /\ n <= (row.quantity + q) * m
  <2> HIDE DEF a, c
  <2> QED
    BY <1>2, <1>3, <1>4, <1>5, <1>6
<1> HIDE DEF n
<1> QED
  BY <1>1, <1>7, <1>8, RoundDivBound

(* Bounds the costs give only depend on how large they are.                 *)
LEMMA WithinMonotone ==
    ASSUME NEW m \in Nat, NEW scale \in Nat, NEW n \in Nat, n <= m, WithinCosts(m, scale)
    PROVE  WithinCosts(n, scale)
<1>1. \A c \in Costs : c \in Nat /\ c * scale \in Nat
  BY PurchaseAssumption
<1> QED
  BY <1>1 DEF WithinCosts

(* The cost a sale line is taken at, the rounded average, is within the     *)
(* costs when the average is.                                               *)
LEMMA SnapshotWithin ==
    ASSUME TypeOK, NEW v \in Variants, WithinCosts(stock[v].average, AverageScale)
    PROVE  WithinCosts(SnapshotCost(v), 1)
<1>1. stock[v].average \in Nat /\ AverageScale \in Nat \ {0} /\ SnapshotCost(v) \in Nat
  BY InventoryAssumption, SnapshotType DEF TypeOK
<1>2. CASE stock[v].average = 0
  <2>1. SnapshotCost(v) <= 0
    BY <1>1, <1>2, RoundDivBound DEF SnapshotCost
  <2> QED
    BY <1>1, <2>1 DEF WithinCosts
<1>3. ASSUME NEW c \in Costs, stock[v].average <= c * AverageScale
      PROVE  WithinCosts(SnapshotCost(v), 1)
  <2>1. c \in Nat /\ c * AverageScale = AverageScale * c /\ c * 1 = c
    BY <1>1, PurchaseAssumption
  <2>2. SnapshotCost(v) <= c
    BY <1>1, <1>3, <2>1, RoundDivBound DEF SnapshotCost
  <2> QED
    BY <2>1, <2>2 DEF WithinCosts
<1> QED
  BY <1>2, <1>3 DEF WithinCosts

(* A cost within the costs, in the units of the average.                    *)
LEMMA CostWithin ==
    ASSUME NEW cost \in Nat, WithinCosts(cost, 1)
    PROVE  WithinCosts(cost * AverageScale, AverageScale) /\ cost * AverageScale \in Nat
<1>1. AverageScale \in Nat
  BY InventoryAssumption
<1>2. CASE cost = 0
  BY <1>1, <1>2 DEF WithinCosts
<1>3. ASSUME NEW c \in Costs, cost <= c * 1
      PROVE  WithinCosts(cost * AverageScale, AverageScale)
  <2>1. c \in Nat /\ cost <= c
    BY <1>3, PurchaseAssumption
  <2>2. AverageScale * cost <= AverageScale * c
    BY <1>1, <2>1, ProductGrows
  <2>3. AverageScale * cost = cost * AverageScale /\ AverageScale * c = c * AverageScale
    BY <1>1, <2>1
  <2> QED
    BY <2>2, <2>3 DEF WithinCosts
<1> QED
  BY <1>1, <1>2, <1>3 DEF WithinCosts

(* One costed receipt keeps the average within the costs.                   *)
LEMMA ReceiptBounded ==
    ASSUME stock \in StockRows, NEW v \in Variants, NEW q \in Nat \ {0},
           NEW cost \in Nat, WithinCosts(cost, 1),
           WithinCosts(stock[v].average, AverageScale)
    PROVE  WithinCosts(CostedReceipt(v, q, cost)[v].average, AverageScale)
<1> DEFINE scaled == cost * AverageScale
           after  == AverageAfter(stock[v], q, cost)
<1>1. stock[v] \in [quantity : Nat, average : Nat] /\ stock[v].average \in Nat
  BY DEF StockRows
<1>2. scaled \in Nat /\ WithinCosts(scaled, AverageScale)
  BY CostWithin
<1>3. /\ CostedReceipt(v, q, cost)[v].average = after
      /\ CostedReceipt(v, q, cost)[v] \in [quantity : Nat, average : Nat]
  BY ReceiptType DEF CostedReceipt, StockRows
<1>4. PICK m \in {scaled, stock[v].average} : stock[v].average <= m /\ scaled <= m
  <2> HIDE DEF scaled
  <2> QED
    BY <1>1, <1>2
<1>5. m \in Nat /\ WithinCosts(m, AverageScale)
  BY <1>1, <1>2, <1>4
<1>6. after <= m
  BY <1>1, <1>4, <1>5, AverageAfterBound
<1>7. after \in Nat /\ AverageScale \in Nat
  BY <1>3, InventoryAssumption
<1> HIDE DEF after
<1> QED
  BY <1>3, <1>5, <1>6, <1>7, WithinMonotone

(* What a request states is within what requests state.                     *)
LEMMA StatedWithin == \A cost \in Costs : cost \in Nat /\ WithinCosts(cost, 1)
<1> SUFFICES ASSUME NEW cost \in Costs
             PROVE  cost \in Nat /\ WithinCosts(cost, 1)
  OBVIOUS
<1>1. cost \in Nat /\ cost <= cost * 1
  BY PurchaseAssumption
<1> QED
  BY <1>1 DEF WithinCosts

(* Lines that bring units carry a cost a purchase may carry.                *)
LEMMA ReceivedBounded ==
    ASSUME stock \in StockRows, NEW old \in Lines, NEW new \in Lines,
           new \in Lists \/ \A v \in Variants : ~(Change(old, new, v) > 0),
           \A v \in Variants : WithinCosts(stock[v].average, AverageScale),
           NEW v \in Variants
    PROVE  WithinCosts(Received(old, new)[v].average, AverageScale)
<1> DEFINE d == Change(old, new, v)
<1>1. d \in Int /\ old[v].qty \in Nat /\ d = new[v].qty - old[v].qty
  BY DEF Lines, Line, Change
<1>2. WithinCosts(stock[v].average, AverageScale)
  OBVIOUS
<1>3. Received(old, new)[v] = IF d > 0 THEN CostedReceipt(v, d, new[v].cost)[v]
                              ELSE [stock[v] EXCEPT !.quantity = @ + d]
  BY DEF Received
<1> HIDE DEF d
<1>4. CASE d > 0
  <2>1. new \in Lists
    BY <1>4 DEF d
  <2>2. new[v].qty # 0
    BY <1>1, <1>4, ListsType
  <2>3. new[v].cost \in Costs
    <3>1. new[v] \in [qty : Quantities, cost : Costs] \cup {NoLine}
      BY <2>1 DEF Lists
    <3> QED
      BY <2>2, <3>1 DEF NoLine
  <2> QED
    BY <1>1, <1>2, <1>3, <1>4, <2>3, StatedWithin, ReceiptBounded
<1>5. CASE ~(d > 0)
  <2>1. Received(old, new)[v].average = stock[v].average
    BY <1>3, <1>5 DEF StockRows
  <2> QED
    BY <1>2, <2>1
<1> QED
  BY <1>4, <1>5

AverageInv == TypeOK /\ AverageWithinCosts

(* Every operation keeps the average within the costs.                      *)
LEMMA NextAverage ==
    ASSUME AverageInv, [Next]_vars, NEW v \in Variants
    PROVE  WithinCosts(stock'[v].average, AverageScale)
<1>0. /\ TypeOK /\ stock \in StockRows
      /\ \A w \in Variants : WithinCosts(stock[w].average, AverageScale)
  BY DEF AverageInv, AverageWithinCosts, TypeOK, StockRows
<1>1. CASE Buy
  <2>1. PICK b \in Purchases, s \in Suppliers, lines \in Lists, discount \in Discounts,
             advance \in Advances : CreatePurchase(b, s, lines, discount, advance)
    BY <1>1 DEF Buy
  <2>2. stock' = Received(BlankPurchase("unused").lines, lines)
    BY <2>1 DEF CreatePurchase
  <2>3. BlankPurchase("unused").lines \in Lines
    BY DEF BlankPurchase, NoLine, Lines, Line
  <2> QED
    BY <1>0, <2>2, <2>3, ListsType, ReceivedBounded
<1>2. CASE Edit
  <2>1. PICK b \in Purchases, s \in Suppliers :
                 \E lines \in Lists \cup {purchases[b].lines},
                    discount \in Discounts \cup {purchases[b].discount} :
                        UpdatePurchase(b, s, lines, discount)
    BY <1>2 DEF Edit
  <2>2. PICK lines \in Lists \cup {purchases[b].lines},
             discount \in Discounts \cup {purchases[b].discount} :
                 UpdatePurchase(b, s, lines, discount)
    BY <2>1
  <2>3. stock' = Received(purchases[b].lines, lines)
    BY <2>2 DEF UpdatePurchase
  <2>4. purchases[b].lines \in Lines
    BY <1>0, UnitsType
  <2>5. CASE lines \in Lists
    BY <1>0, <2>3, <2>4, <2>5, ListsType, ReceivedBounded
  <2>6. CASE lines = purchases[b].lines
    <3>1. \A w \in Variants : ~(Change(lines, lines, w) > 0)
      BY <2>4, <2>6 DEF Change, Lines, Line
    <3> QED
      BY <1>0, <2>3, <2>4, <2>6, <3>1, ReceivedBounded
  <2> QED
    BY <2>5, <2>6
<1>3. ASSUME NEW b \in Purchases, DeletePurchase(b)
      PROVE  WithinCosts(stock'[v].average, AverageScale)
  <2> DEFINE none == BlankPurchase("deleted").lines
  <2>1. stock' = Received(purchases[b].lines, none)
    BY <1>3 DEF DeletePurchase
  <2>2. purchases[b].lines \in Lines /\ none \in Lines /\ \A w \in Variants : none[w].qty = 0
    BY <1>0, UnitsType DEF BlankPurchase, NoLine, Lines, Line
  <2>3. \A w \in Variants : purchases[b].lines[w].qty \in Nat
    BY <2>2 DEF Lines, Line
  <2> HIDE DEF none
  <2>4. \A w \in Variants : ~(Change(purchases[b].lines, none, w) > 0)
    BY <2>2, <2>3 DEF Change
  <2> QED
    BY <1>0, <2>1, <2>2, <2>4, ReceivedBounded
<1>4. CASE stock' = stock
  BY <1>0, <1>4
<1>5. Settle \/ (\E p \in Payments : VoidPayment(p)) \/ UNCHANGED vars => stock' = stock
  BY DEF Settle, RecordPayment, VoidPayment, shelf, vars
<1>6. CASE stock'[v].average = stock[v].average
  BY <1>0, <1>6
<1>7. Return => stock'[v].average = stock[v].average
  BY <1>0 DEF Return, ReturnGoods, Shift, StockRows
<1>8. CASE Move
  <2>1. ASSUME NEW w \in Variants, NEW q \in Quantities, NEW cost \in Nat,
               WithinCosts(cost, 1), stock' = CostedReceipt(w, q, cost)
        PROVE  WithinCosts(stock'[v].average, AverageScale)
    <3>1. WithinCosts(CostedReceipt(w, q, cost)[w].average, AverageScale)
      BY <1>0, <2>1, QuantityType, ReceiptBounded
    <3>2. w # v => CostedReceipt(w, q, cost)[v] = stock[v]
      BY <1>0 DEF CostedReceipt, StockRows
    <3> QED
      BY <1>0, <2>1, <3>1, <3>2
  <2>2. ASSUME NEW w \in Variants, NEW q \in Quantities, NEW cost \in Costs,
               PostOpening(w, q, cost)
        PROVE  WithinCosts(stock'[v].average, AverageScale)
    BY <2>1, <2>2, StatedWithin DEF PostOpening
  <2>3. ASSUME NEW l \in SaleLines, NEW q \in Quantities, TakeBack(l, q)
        PROVE  WithinCosts(stock'[v].average, AverageScale)
    <3>1. sold[l].variant \in Variants /\ sold[l].cost \in Nat /\ WithinCosts(sold[l].cost, 1)
      BY DEF AverageInv, AverageWithinCosts, TypeOK
    <3> QED
      BY <2>1, <2>3, <3>1 DEF TakeBack
  <2>4. (\E w \in Variants, q \in Quantities :
            \/ AdjustStock(w, q) \/ AdjustStock(w, -q)
            \/ \E l \in SaleLines : SellLine(l, w, q))
          => stock'[v].average = stock[v].average
    BY <1>0 DEF AdjustStock, SellLine, StockRows
  <2> QED
    BY <1>6, <1>8, <2>2, <2>3, <2>4 DEF Move
<1> QED
  BY <1>1, <1>2, <1>3, <1>4, <1>5, <1>6, <1>7, <1>8 DEF Next

(* So does the cost of every sale line, which is a rounded average.         *)
LEMMA NextSnapshots ==
    ASSUME AverageInv, [Next]_vars, NEW l \in SaleLines
    PROVE  WithinCosts(sold'[l].cost, 1)
<1>0. /\ TypeOK /\ sold \in [SaleLines -> [variant : Variants, out : Nat, cost : Nat]]
      /\ \A k \in SaleLines : WithinCosts(sold[k].cost, 1)
      /\ \A v \in Variants : WithinCosts(stock[v].average, AverageScale)
  BY DEF AverageInv, AverageWithinCosts, TypeOK
<1>1. CASE sold' = sold
  BY <1>0, <1>1
<1>2. ASSUME NEW k \in SaleLines, NEW v \in Variants, NEW q \in Quantities, SellLine(k, v, q)
      PROVE  WithinCosts(sold'[l].cost, 1)
  <2>1. WithinCosts(SnapshotCost(v), 1)
    BY <1>0, SnapshotWithin
  <2>2. sold'[l].cost = IF l = k THEN SnapshotCost(v) ELSE sold[l].cost
    BY <1>0, <1>2 DEF SellLine
  <2> QED
    BY <1>0, <2>1, <2>2
<1>3. ASSUME NEW k \in SaleLines, NEW q \in Quantities, TakeBack(k, q)
      PROVE  WithinCosts(sold'[l].cost, 1)
  <2>1. sold'[l].cost = sold[l].cost
    BY <1>0, <1>3 DEF TakeBack
  <2> QED
    BY <1>0, <2>1
<1>4. Buy \/ Edit \/ (\E b \in Purchases : DeletePurchase(b)) \/ Return => sold' = sold
  <2>1. Buy => sold' = sold
    BY DEF Buy, CreatePurchase
  <2>2. Edit => sold' = sold
    BY DEF Edit, UpdatePurchase
  <2>3. (\E b \in Purchases : DeletePurchase(b)) => sold' = sold
    BY DEF DeletePurchase
  <2>4. Return => sold' = sold
    BY DEF Return, ReturnGoods
  <2> QED
    BY <2>1, <2>2, <2>3, <2>4, Zenon
<1>5. Settle \/ (\E p \in Payments : VoidPayment(p)) \/ UNCHANGED vars => sold' = sold
  BY DEF Settle, RecordPayment, VoidPayment, shelf, vars
<1>6. ASSUME Move PROVE WithinCosts(sold'[l].cost, 1)
  BY <1>1, <1>2, <1>3, <1>6 DEF Move, AdjustStock, PostOpening
<1> QED
  BY <1>1, <1>4, <1>5, <1>6 DEF Next

(* The moving average, and the cost every sale line was taken at, never     *)
(* exceed the highest cost a request stated: the rounded mean of every      *)
(* receipt lies under both, a sale takes the rounded average, its return    *)
(* brings no more, and no edit, void or adjustment touches it otherwise.    *)
THEOREM AverageStaysWithinCosts == Spec => []AverageWithinCosts
<1>1. Init => AverageInv
  BY InitType DEF Init, AverageInv, AverageWithinCosts, WithinCosts, NotSold
<1>2. AverageInv /\ [Next]_vars => AverageInv'
  <2> SUFFICES ASSUME AverageInv, [Next]_vars PROVE AverageInv'
    OBVIOUS
  <2>1. TypeOK'
    BY NextType DEF AverageInv
  <2>2. AverageWithinCosts'
    BY NextAverage, NextSnapshots DEF AverageWithinCosts, WithinCosts
  <2> QED
    BY <2>1, <2>2 DEF AverageInv
<1>3. AverageInv => AverageWithinCosts
  BY DEF AverageInv
<1> QED
  BY <1>1, <1>2, <1>3, PTL DEF Spec
=============================================================================
