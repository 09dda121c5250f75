------------------------------ MODULE SalesDesk ------------------------------
(***************************************************************************)
(* The sales counter of one shop: sales, payments, customer returns, the   *)
(* stock they move and the ledger groups they post (services/sales.py,     *)
(* receivables.py, returns.py, inventory.py, accounting.py and             *)
(* api/payments.py).  One action is one committed transaction; a rejected  *)
(* or failed request rolls back and is no step.  SettlementRace takes the  *)
(* transactions apart into their locks, reads and writes.                  *)
(*                                                                         *)
(* Abstractions: money is counted in its smallest unit, a sale has one     *)
(* line and one discount, of the sale, whose share a return divides        *)
(* exactly before it is rounded; a SaleReturn is added to the running      *)
(* totals of its sale; the invoice number is left out.                     *)
(***************************************************************************)
EXTENDS Inventory

CONSTANTS
    Sales, Payments,      \* identifiers the rows will get
    Customers, NoCustomer,\* NoCustomer is the NULL of a walk-in sale
    NoSale,               \* the NULL sale_id of an unallocated payment
    Quantities, Prices, Discounts, Costs,   \* what requests may carry
    MaxTender             \* payments at the till of one sale

ASSUME DeskAssumption ==
    /\ IsFiniteSet(Sales) /\ IsFiniteSet(Payments)
    /\ NoSale \notin Sales
    /\ NoCustomer \notin Customers
    /\ Quantities \subseteq Amounts
    /\ Prices \subseteq Nat
    /\ Discounts \subseteq Nat
    /\ Costs \subseteq Nat

VARIABLES
    sales,       \* the sales rows, their line, the number and sums of their returns
    payments,    \* the payments rows; posted: a CUSTOMER_PAYMENT group exists
    moved,       \* net inventory movement of each sale, its edits and returns
    supplied,    \* net movement of receipts and manual adjustments
    books        \* the SALE, SALE_COGS and SALE_RETURN groups of each sale

vars == <<sales, payments, stock, moved, supplied, books>>

Parties == Customers \cup {NoCustomer}

Qualifying == {"partial", "completed"}

BlankSale(status) ==
    [status |-> status, customer |-> NoCustomer, variant |-> CHOOSE v \in Variants : TRUE,
     qty |-> 0, price |-> 0, discount |-> 0, cost |-> 0, paid |-> 0,
     returned |-> 0, refunded |-> 0, arBack |-> 0, slips |-> 0]

BlankPayment(state) ==
    [state |-> state, sale |-> NoSale, customer |-> NoCustomer,
     amount |-> 0, till |-> "Cash", posted |-> FALSE]

NoBooks == [sale |-> NoSaleGroup, cogs |-> 0, returns |-> NoReturnGroup]

-----------------------------------------------------------------------------
(* What the rows say.                                                       *)

TotalOf(row) == Valued(row.qty, row.price) - row.discount

StatusFor(paid, total) == IF paid >= total THEN "completed" ELSE "partial"

Live(s) == sales[s].status \in Qualifying

Due(s) == TotalOf(sales[s]) - sales[s].paid

HasReturns(s) == sales[s].returned > 0

AmountsIn(rows) == [p \in Payments |-> rows[p].amount]

AllocatedIn(rows, s) == {p \in Payments : rows[p].state = "live" /\ rows[p].sale = s}

InflowIn(rows, s) ==
    [t \in Tills |-> TallyOf(AmountsIn(rows), {p \in AllocatedIn(rows, s) : rows[p].till = t})]

(* The customer's Khata, _compute_balance.                                  *)
SalesOf(c) == {s \in Sales : Live(s) /\ sales[s].customer = c}

CountedPayments(c) ==
    {p \in Payments : /\ payments[p].state = "live"
                      /\ payments[p].customer = c
                      /\ payments[p].sale \in SalesOf(c) \cup {NoSale}}

Outstanding(c) ==
    TallyOf([s \in Sales |-> TotalOf(sales[s])], SalesOf(c))
    - TallyOf(AmountsIn(payments), CountedPayments(c))
    - TallyOf([s \in Sales |-> sales[s].arBack], SalesOf(c))

-----------------------------------------------------------------------------
(* The movement log of a sale.                                              *)

MoveFor(s, need) == [moved EXCEPT ![s] = [v \in Variants |-> @[v] - need[v]]]

LineOf(row) == [v \in Variants |-> IF v = row.variant THEN row.qty ELSE 0]

-----------------------------------------------------------------------------
(* The parts the operations share.  The definitions named for a mistake     *)
(* (Unchecked, Stale, Only, ...) are what the next one would be with a      *)
(* plausible bug; no action uses them.                                      *)

EditableUnchecked(s) == Live(s)

(* Status and assert_sale_has_no_returns: what an edit or a void asks for.  *)
Editable(s) == Live(s) /\ ~HasReturns(s)

PaidWithStaleStatus(s, paid) == [sales EXCEPT ![s].paid = paid]

(* A settlement or a void moves the cached paid_amount and the status.      *)
PaidChangedTo(s, paid) ==
    [sales EXCEPT ![s].paid = paid, ![s].status = StatusFor(paid, TotalOf(sales[s]))]

PaymentsLeftBehind(s, c) == payments

(* The payments of an edited sale follow it to its customer.                *)
PaymentsRepointed(s, c) ==
    [p \in Payments |-> IF p \in AllocatedIn(payments, s)
                        THEN [payments[p] EXCEPT !.customer = c] ELSE payments[p]]

UnpostedCogsOnly(s) == [books EXCEPT ![s].cogs = 0]

(* delete_postings_for_reference for SALE and SALE_COGS.                    *)
Unposted(s) == [books EXCEPT ![s].sale = NoSaleGroup, ![s].cogs = 0]

(* post_sale and post_cogs, after their old groups were deleted.            *)
Posted(s, row, inflow) ==
    [books EXCEPT ![s].sale = SaleGroup(TotalOf(row), row.paid, inflow),
                  ![s].cogs = Valued(row.qty, row.cost)]

AllBackInMoney(row, refund) == 0

(* What a return takes off the receivable: the due not yet taken off.       *)
ReceivableBack(row, refund) ==
    Least(refund, Excess(TotalOf(row) - row.paid, row.arBack))

-----------------------------------------------------------------------------
Init ==
    /\ sales = [s \in Sales |-> BlankSale("unused")]
    /\ payments = [p \in Payments |-> BlankPayment("unused")]
    /\ stock = [v \in Variants |-> [quantity |-> 0, average |-> 0]]
    /\ moved = [s \in Sales |-> [v \in Variants |-> 0]]
    /\ supplied = [v \in Variants |-> 0]
    /\ books = [s \in Sales |-> NoBooks]

(* create_purchase or an opening balance brings costed stock in.            *)
ReceiveStock(v, q, cost) ==
    /\ stock[v].quantity + q <= MaxStock
    /\ stock' = CostedReceipt(v, q, cost)
    /\ supplied' = [supplied EXCEPT ![v] = @ + q]
    /\ UNCHANGED <<sales, payments, moved, books>>

(* adjust_stock: a signed correction that may not go below zero.            *)
AdjustStock(v, delta) ==
    /\ delta # 0
    /\ stock[v].quantity + delta \in 0 .. MaxStock
    /\ stock' = [stock EXCEPT ![v].quantity = @ + delta]
    /\ supplied' = [supplied EXCEPT ![v] = @ + delta]
    /\ UNCHANGED <<sales, payments, moved, books>>

(* create_sale: tender maps the new till payments to their amount and till. *)
CreateSale(s, c, v, q, price, discount, tender) ==
    LET paid == TallyOf([p \in DOMAIN tender |-> tender[p].amount], DOMAIN tender)
        row  == [BlankSale("partial") EXCEPT
                    !.customer = c, !.variant = v, !.qty = q, !.price = price,
                    !.discount = discount, !.cost = SnapshotCost(v), !.paid = paid]
        total == TotalOf(row)
    IN  /\ sales[s].status = "unused"
        /\ \A p \in DOMAIN tender : payments[p].state = "unused"
        /\ total \in 0 .. MaxAmount
        /\ paid <= total
        /\ Available(LineOf(row))
        /\ sales' = [sales EXCEPT ![s] = [row EXCEPT !.status = StatusFor(paid, total)]]
        /\ stock' = Shift(LineOf(row))
        /\ moved' = MoveFor(s, LineOf(row))
        /\ payments' = [p \in Payments |->
                           IF p \in DOMAIN tender
                           THEN [BlankPayment("live") EXCEPT
                                    !.sale = s, !.customer = c,
                                    !.amount = tender[p].amount, !.till = tender[p].till]
                           ELSE payments[p]]
        /\ SalePostable(total, paid, InflowIn(payments', s))
        /\ books' = Posted(s, row, InflowIn(payments', s))
        /\ UNCHANGED supplied

(* fk_payments_sale_same_customer holds (sale_id, customer_id) of a payment *)
(* to the sales row, immediately and without ON UPDATE: the flush of the    *)
(* sales row fails while a payment still names the former customer.         *)
CustomerMayChange(s, c) ==
    \/ c = sales[s].customer
    \/ \A p \in AllocatedIn(payments, s) : payments[p].customer = NoCustomer

(* update_sale: line is the replacement line, or the old one when the       *)
(* request leaves the items alone (replace is FALSE).                       *)
UpdateSale(s, c, replace, v, q, price, discount) ==
    LET old  == sales[s]
        line == IF replace
                THEN [old EXCEPT !.variant = v, !.qty = q, !.price = price,
                                 !.cost = SnapshotCost(v)]
                ELSE old
        row  == [line EXCEPT !.customer = c, !.discount = discount]
        total == TotalOf(row)
        need == [w \in Variants |-> LineOf(row)[w] - LineOf(old)[w]]
    IN  /\ Editable(s)
        /\ total \in 0 .. MaxAmount
        /\ old.paid <= total
        /\ Available(need)
        /\ CustomerMayChange(s, c)
        /\ sales' = [sales EXCEPT ![s] = [row EXCEPT !.status = StatusFor(old.paid, total)]]
        /\ stock' = Shift(need)
        /\ moved' = MoveFor(s, need)
        /\ payments' = PaymentsRepointed(s, c)
        /\ SalePostable(total, old.paid, InflowIn(payments, s))
        /\ books' = Posted(s, row, InflowIn(payments, s))
        /\ UNCHANGED supplied

(* delete_sale: the void of a sale without returns.                         *)
DeleteSale(s) ==
    LET back == [v \in Variants |-> - LineOf(sales[s])[v]]
    IN  /\ Editable(s)
        /\ sales' = [sales EXCEPT ![s] = BlankSale("deleted")]
        /\ stock' = Shift(back)
        /\ moved' = MoveFor(s, back)
        /\ payments' = [p \in Payments |->
                           IF p \in AllocatedIn(payments, s)
                           THEN BlankPayment("deleted") ELSE payments[p]]
        /\ books' = Unposted(s)
        /\ UNCHANGED supplied

(* record_customer_payment, allocated to sale s or (NoSale) to the Khata.   *)
RecordPayment(p, c, s, amount, till) ==
    /\ payments[p].state = "unused"
    /\ s # NoSale => Live(s) /\ sales[s].customer = c /\ amount <= Due(s)
    /\ amount <= Outstanding(c)
    /\ payments' = [payments EXCEPT ![p] =
                       [state |-> "live", sale |-> s, customer |-> c,
                        amount |-> amount, till |-> till, posted |-> TRUE]]
    /\ sales' = IF s = NoSale THEN sales
                ELSE PaidChangedTo(s, sales[s].paid + amount)
    /\ UNCHANGED <<stock, moved, supplied, books>>

(* api/payments.void_payment.                                               *)
VoidPayment(p) ==
    LET s    == payments[p].sale
        left == Excess(sales[s].paid, payments[p].amount)
    IN  /\ payments[p].state = "live"
        /\ sales' = IF s = NoSale THEN sales
                    ELSE PaidChangedTo(s, left)
        /\ payments' = [payments EXCEPT ![p] = BlankPayment("deleted")]
        /\ UNCHANGED <<stock, moved, supplied, books>>

(* create_sale_return: q units of the line come back.  Gross, share of the  *)
(* discount and cost of goods are rounded anew for every return.            *)
RefundFor(row, q) ==
    LET gross == Valued(q, row.price)
    IN  gross - Least(gross, RoundDiv(row.discount * q, row.qty))

ReturnGoods(s, q, first) ==
    LET row    == sales[s]
        refund == RefundFor(row, q)
        ar     == ReceivableBack(row, refund)
        group  == ReturnGroup(refund, ar, Valued(q, row.cost), first, InflowIn(payments, s))
    IN  /\ Live(s)
        /\ row.returned + q <= row.qty
        /\ refund > 0
        /\ ReturnPostable(refund, ar, first, InflowIn(payments, s))
        /\ sales' = [sales EXCEPT ![s].returned = @ + q,
                                  ![s].refunded = @ + refund,
                                  ![s].arBack = @ + ar,
                                  ![s].slips = @ + 1]
        /\ stock' = CostedReceipt(row.variant, q, row.cost)
        /\ moved' = [moved EXCEPT ![s][row.variant] = @ + q]
        /\ books' = [books EXCEPT ![s].returns = AddReturnGroup(@, group)]
        /\ UNCHANGED <<payments, supplied>>

-----------------------------------------------------------------------------
Tenders ==
    UNION {[T -> [amount : Amounts, till : Tills]] :
               T \in {U \in SUBSET Payments : Cardinality(U) <= MaxTender}}

Ring == \E s \in Sales, c \in Parties, v \in Variants, q \in Quantities,
           price \in Prices, discount \in Discounts, tender \in Tenders :
               CreateSale(s, c, v, q, price, discount, tender)

Edit(s) == \E c \in Parties, replace \in BOOLEAN, v \in Variants, q \in Quantities,
              price \in Prices, discount \in Discounts \cup {sales[s].discount} :
                  UpdateSale(s, c, replace, v, q, price, discount)

Settle == \E p \in Payments, c \in Customers, s \in Sales \cup {NoSale},
             amount \in Amounts, till \in Tills : RecordPayment(p, c, s, amount, till)

Return == \E s \in Sales, q \in Quantities, first \in Tills : ReturnGoods(s, q, first)

Supply == \E v \in Variants :
              \/ \E q \in Quantities, cost \in Costs : ReceiveStock(v, q, cost)
              \/ \E q \in Quantities : AdjustStock(v, q) \/ AdjustStock(v, -q)

Next ==
    \/ Ring
    \/ \E s \in Sales : Edit(s) \/ DeleteSale(s)
    \/ Settle
    \/ \E p \in Payments : VoidPayment(p)
    \/ Return
    \/ Supply

Spec == Init /\ [][Next]_vars

-----------------------------------------------------------------------------
(* Properties.                                                              *)

SaleRows ==
    [status : {"unused", "partial", "completed", "deleted"}, customer : Parties,
     variant : Variants, qty : Nat, price : Nat, discount : Nat, cost : Nat,
     paid : Nat, returned : Nat, refunded : Nat, arBack : Nat, slips : Nat]

PaymentRows ==
    [state : {"unused", "live", "deleted"}, sale : Sales \cup {NoSale},
     customer : Parties, amount : 0 .. MaxAmount, till : Tills, posted : BOOLEAN]

SaleGroups == [money : [Tills -> Nat], ar : Nat, revenue : Nat]

ReturnGroups == [money : [Tills -> Nat], ar : Nat, revenue : Nat, cogs : Nat]

TypeOK ==
    /\ sales \in [Sales -> SaleRows]
    /\ payments \in [Payments -> PaymentRows]
    /\ stock \in [Variants -> [quantity : Nat, average : Nat]]
    /\ moved \in [Sales -> [Variants -> Int]]
    /\ supplied \in [Variants -> Int]
    /\ books \in [Sales -> [sale : SaleGroups, cogs : Nat, returns : ReturnGroups]]

(* Sale.paid_amount, a cached column that create_sale sets and later        *)
(* settlements and voids increment and decrement, is the sum of the Payment *)
(* rows of the sale, never more than its total, and the status says whether *)
(* it covers the total.                                                     *)
PaidIsRecorded ==
    \A s \in Sales : Live(s) =>
        /\ sales[s].paid = TallyOf(AmountsIn(payments), AllocatedIn(payments, s))
        /\ sales[s].paid <= TotalOf(sales[s])
        /\ sales[s].status = StatusFor(sales[s].paid, TotalOf(sales[s]))

(* A payment that names a sale names a live sale and the customer of that   *)
(* sale, whatever edits re-pointed the sale since.                          *)
PaymentsNameTheirSale ==
    \A p \in Payments : payments[p].state = "live" /\ payments[p].sale # NoSale =>
        /\ Live(payments[p].sale)
        /\ payments[p].customer = sales[payments[p].sale].customer

(* What has left the shelf is what the live sales still hold: the movements *)
(* of a sale, its edits, its void and its returns net to the units sold and *)
(* not returned, and the stock is the sum of all movements.                 *)
UnitsOut(s, v) == IF sales[s].variant = v THEN sales[s].qty - sales[s].returned ELSE 0

StockIsAccountedFor ==
    \A v \in Variants :
        /\ \A s \in Sales : moved[s][v] = - UnitsOut(s, v)
        /\ stock[v].quantity = supplied[v] - TallyOf([s \in Sales |-> UnitsOut(s, v)], Sales)

(* The ledger of a sale follows the document through edits, voids and       *)
(* returns: every group balances, revenue is what was charged less what was *)
(* refunded, the cost of goods is the recorded cost of the units still out, *)
(* but for half a unit of money that the sale and each return may round     *)
(* away, and a sale that is gone leaves no posting behind.                  *)
Within(n, d) == n <= d /\ -n <= d

CostFollows(s) ==
    LET posted == books[s].cogs - books[s].returns.cogs
        out    == sales[s].qty - sales[s].returned
    IN  Within(2 * (QuantityScale * posted - out * sales[s].cost),
               QuantityScale * (1 + sales[s].slips))

BooksFollowSale ==
    \A s \in Sales :
        /\ SaleGroupBalances(books[s].sale)
        /\ ReturnGroupBalances(books[s].returns)
        /\ Live(s) =>
             /\ books[s].sale.revenue - books[s].returns.revenue
                   = TotalOf(sales[s]) - sales[s].refunded
             /\ CostFollows(s)
        /\ ~Live(s) => books[s] = NoBooks

(* Once a return exists the invoice is closed to edits and voids: its line, *)
(* its customer and its existence never change again, and what has been     *)
(* returned only grows, up to the line.                                     *)
FrozenByReturns ==
    \A s \in Sales : HasReturns(s) =>
        /\ Live(s)'
        /\ LineOf(sales[s])' = LineOf(sales[s])
        /\ TotalOf(sales[s])' = TotalOf(sales[s])
        /\ sales'[s].customer = sales[s].customer
        /\ sales'[s].returned \in sales[s].returned .. sales[s].qty

ReturnedSalesAreFrozen == [][FrozenByReturns]_vars

(* What settlements of their own credited to Accounts Receivable.           *)
PostedAmount(rows) == TallyOf(AmountsIn(payments), {p \in rows : payments[p].posted})

(* The ledger is a second representation of the sales, payments and returns *)
(* the Khatas are computed from (accounting.py, module docstring): what the *)
(* groups of a sale and those of its settlements leave receivable is what   *)
(* the sale still owes.                                                     *)
SaleAgrees(s) ==
    books[s].sale.ar - books[s].returns.ar - PostedAmount(AllocatedIn(payments, s))
        = IF Live(s) THEN Due(s) - sales[s].arBack ELSE 0

HasSettlement(s) == \E p \in AllocatedIn(payments, s) : payments[p].posted

EditSettled(s) == HasSettlement(s) /\ Edit(s)

VoidTill(s) == \E p \in AllocatedIn(payments, s) : ~payments[p].posted /\ VoidPayment(p)

(* It does not stay so: a sale edited after a settlement, and the void of a *)
(* payment taken at the till, part the two.  Those are the only ways: no    *)
(* other operation, in whatever order, parts the receivable of a sale in    *)
(* the ledger from what the sale owes.                                      *)
OnlyReworkPartsTheBooks ==
    [][\A s \in Sales : SaleAgrees(s) /\ ~SaleAgrees(s)' => EditSettled(s) \/ VoidTill(s)]_vars

(* The money handed back for a sale stays within the money collected on it  *)
(* (post_sale_return: "cash_refund <= paid_amount"), settlements made after *)
(* a return included, until a payment of the sale is voided, but for what   *)
(* rounding adds: half a unit of money for the total, and for each return   *)
(* half a unit for its gross and, of a discounted sale, for its share.      *)
Roundings(row) == IF row.discount > 0 THEN 2 ELSE 1

Rounded(row) == 1 + row.slips * Roundings(row)

OverRefunded(s) ==
    /\ Live(s)
    /\ 2 * (Collected(books[s].returns.money) - sales[s].paid) > Rounded(sales[s])

VoidOn(s) == \E p \in AllocatedIn(payments, s) : VoidPayment(p)

RefundsWithinPayments ==
    [][\A s \in Sales : ~OverRefunded(s) /\ OverRefunded(s)' => VoidOn(s)]_vars
=============================================================================
