---------------------------- MODULE PurchaseDesk ----------------------------
(***************************************************************************)
(* The buying side of one shop: purchases, supplier payments, supplier     *)
(* returns, the stock they move and the ledger groups they post            *)
(* (services/purchases.py, payables.py, returns.py, inventory.py,          *)
(* accounting.py and api/payments.py).  One action is one committed        *)
(* transaction; a rejected request rolls back, lines it had already        *)
(* received included, and is no step.                                      *)
(*                                                                         *)
(* A purchase has a line per variant.  The money account of a payment and  *)
(* the invoice number are left out; a PurchaseReturn is added to the       *)
(* running totals of its purchase.  MaxAmount bounds what a line, a        *)
(* purchase and its refunds are worth, MaxStock what the shelf holds.      *)
(***************************************************************************)
EXTENDS Inventory

CONSTANTS
    Purchases, Payments,    \* identifiers the rows will get
    SaleLines,              \* of the sales that take from the same shelf
    Suppliers,
    NoSupplier, NoPurchase, \* NULL of an unused row; of an unallocated payment
    Quantities, Costs, Discounts,   \* what requests may carry
    Advances                \* the paid_amount a new purchase may state

ASSUME PurchaseAssumption ==
    /\ IsFiniteSet(Purchases) /\ IsFiniteSet(Payments) /\ IsFiniteSet(Variants)
    /\ NoPurchase \notin Purchases
    /\ NoSupplier \notin Suppliers
    /\ Quantities \subseteq Amounts
    /\ Costs \subseteq Nat /\ Discounts \subseteq Nat /\ Advances \subseteq Nat

VARIABLES
    purchases,   \* the purchases rows with their lines and the sums of their returns
    payments,    \* the supplier payments
    sold,        \* the sale lines: units out and the cost they were taken at
    opened,      \* the variants with an opening entry
    elsewhere,   \* net movement of everything that is not a purchase
    books        \* the ledger: PURCHASE, SUPPLIER_PAYMENT, PURCHASE_RETURN groups

shelf == <<stock, sold, opened, elsewhere>>

vars == <<purchases, payments, shelf, books>>

NoLine == [qty |-> 0, cost |-> 0]

NoReturn == [v \in Variants |-> 0]

BlankPurchase(status) ==
    [status |-> status, supplier |-> NoSupplier, lines |-> [v \in Variants |-> NoLine],
     discount |-> 0, paid |-> 0, returned |-> NoReturn, refunded |-> 0]

NotSold == [variant |-> CHOOSE v \in Variants : TRUE, out |-> 0, cost |-> 0]

BlankPayment(state) ==
    [state |-> state, supplier |-> NoSupplier, purchase |-> NoPurchase, amount |-> 0]

(* What a request may list: at least one line, none worth over MaxAmount.   *)
Lists ==
    {lines \in [Variants -> [qty : Quantities, cost : Costs] \cup {NoLine}] :
        /\ lines # [v \in Variants |-> NoLine]
        /\ \A v \in Variants : Valued(lines[v].qty, lines[v].cost) <= MaxAmount}

-----------------------------------------------------------------------------
(* What the rows say.                                                       *)

LineTotal(line) == Valued(line.qty, line.cost)

Subtotal(lines) == TallyOf([v \in Variants |-> LineTotal(lines[v])], Variants)

TotalOf(row) == Subtotal(row.lines) - row.discount

Live(b) == purchases[b].status = "live"

Due(b) == TotalOf(purchases[b]) - purchases[b].paid

HasReturns(b) == \E v \in Variants : purchases[b].returned[v] > 0

(* purchase.payments, not loaded.                                          *)
NoneLoaded(b) == {}

AllocatedTo(b) == {p \in Payments : payments[p].state = "live" /\ payments[p].purchase = b}

AmountOf == [p \in Payments |-> payments[p].amount]

(* The supplier's Khata, _compute_balance.                                  *)
PurchasesOf(s) == {b \in Purchases : Live(b) /\ purchases[b].supplier = s}

CountedPayments(s) ==
    {p \in Payments : /\ payments[p].state = "live"
                      /\ payments[p].supplier = s
                      /\ payments[p].purchase \in PurchasesOf(s) \cup {NoPurchase}}

Outstanding(s) ==
    TallyOf([b \in Purchases |-> TotalOf(purchases[b])], PurchasesOf(s))
    - TallyOf(AmountOf, CountedPayments(s))
    - TallyOf([b \in Purchases |-> purchases[b].refunded], PurchasesOf(s))

-----------------------------------------------------------------------------
(* The parts the operations share.  A definition named for a mistake is     *)
(* what the next one would be with a plausible bug; no action uses it.      *)

(* The lines go through the inventory service one variant at a time: a      *)
(* positive change is a receipt at the cost of the new line, a negative one *)
(* a deduction.                                                             *)
ChangeIgnoringOld(old, new, v) == new[v].qty

Change(old, new, v) == new[v].qty - old[v].qty

Receivable(old, new) ==
    \A v \in Variants :
        stock[v].quantity + Change(old, new, v) \in 0 .. MaxStock

Received(old, new) ==
    [v \in Variants |->
        LET d == Change(old, new, v)
        IN  IF d > 0 THEN CostedReceipt(v, d, new[v].cost)[v]
            ELSE [stock[v] EXCEPT !.quantity = @ + d]]

ReturnsForgotten(b) == Live(b)

(* Found, and assert_purchase_has_no_returns.                               *)
Editable(b) == Live(b) /\ ~HasReturns(b)

(* _post_group: a group that exists is left as it is.                       *)
Posted(group, amount) == IF group # 0 THEN group ELSE amount

GroupKept(b) == books

Unposted(b) == [books EXCEPT !.purchase[b] = 0]

PaidKept(row, amount) == row.paid

(* Voiding a payment takes it out of the cached paid_amount.                *)
PaidAfterVoid(row, amount) == Excess(row.paid, amount)

(* The payments of an edited purchase follow it to its supplier.            *)
Repointed(b, s) ==
    [p \in Payments |-> IF p \in AllocatedTo(b)
                        THEN [payments[p] EXCEPT !.supplier = s] ELSE payments[p]]

(* fk_payments_purchase_same_supplier, immediate and without ON UPDATE,     *)
(* holds (purchase_id, supplier_id) of a payment to the purchases row, and  *)
(* that row is flushed with its new supplier before the payments are.       *)
SupplierMayChange(b, s) == s = purchases[b].supplier \/ AllocatedTo(b) = {}

(* The net value of units going back: their cost less their share of the    *)
(* discount, rounded line by line.                                          *)
DiscountOfLine(row, v) ==
    IF Subtotal(row.lines) = 0 THEN 0
    ELSE RoundDiv(row.discount * LineTotal(row.lines[v]), Subtotal(row.lines))

RefundOfLine(row, v, q) ==
    LET line  == row.lines[v]
        gross == Valued(q, line.cost)
    IN  IF q = 0 THEN 0
        ELSE gross - Least(gross, RoundDiv(DiscountOfLine(row, v) * q, line.qty))

RefundFor(row, back) ==
    TallyOf([v \in Variants |-> RefundOfLine(row, v, back[v])], Variants)

-----------------------------------------------------------------------------
Init ==
    /\ purchases = [b \in Purchases |-> BlankPurchase("unused")]
    /\ payments = [p \in Payments |-> BlankPayment("unused")]
    /\ stock = [v \in Variants |-> [quantity |-> 0, average |-> 0]]
    /\ sold = [l \in SaleLines |-> NotSold]
    /\ opened = {}
    /\ elsewhere = [v \in Variants |-> 0]
    /\ books = [purchase |-> [b \in Purchases |-> 0],
                payment  |-> [p \in Payments |-> 0],
                returned |-> [b \in Purchases |-> 0]]

(* create_purchase; advance is the paid_amount the request states, for      *)
(* which no Payment is recorded.                                            *)
CreatePurchase(b, s, lines, discount, advance) ==
    LET row == [BlankPurchase("live") EXCEPT
                   !.supplier = s, !.lines = lines, !.discount = discount, !.paid = advance]
        none == BlankPurchase("unused").lines
    IN  /\ purchases[b].status = "unused"
        /\ TotalOf(row) \in 0 .. MaxAmount
        /\ advance <= TotalOf(row)
        /\ Receivable(none, lines)
        /\ purchases' = [purchases EXCEPT ![b] = row]
        /\ stock' = Received(none, lines)
        /\ books' = [books EXCEPT !.purchase[b] = Posted(@, TotalOf(row))]
        /\ UNCHANGED <<payments, sold, opened, elsewhere>>

(* update_purchase: lines replace the old ones, or are the old ones when    *)
(* the request leaves the items alone.                                      *)
UpdatePurchase(b, s, lines, discount) ==
    LET old == purchases[b]
        row == [old EXCEPT !.supplier = s, !.lines = lines, !.discount = discount]
    IN  /\ Editable(b)
        /\ TotalOf(row) \in 0 .. MaxAmount
        /\ old.paid <= TotalOf(row)
        /\ Receivable(old.lines, lines)
        /\ SupplierMayChange(b, s)
        /\ purchases' = [purchases EXCEPT ![b] = row]
        /\ stock' = Received(old.lines, lines)
        /\ payments' = Repointed(b, s)
        /\ books' = [Unposted(b) EXCEPT !.purchase[b] = Posted(@, TotalOf(row))]
        /\ UNCHANGED <<sold, opened, elsewhere>>

(* delete_purchase: the lines go back out, unless they are already sold.    *)
DeletePurchase(b) ==
    LET none == BlankPurchase("deleted")
    IN  /\ Editable(b)
        /\ Receivable(purchases[b].lines, none.lines)
        /\ purchases' = [purchases EXCEPT ![b] = none]
        /\ stock' = Received(purchases[b].lines, none.lines)
        /\ payments' = [p \in Payments |-> IF p \in AllocatedTo(b)
                                           THEN BlankPayment("deleted") ELSE payments[p]]
        /\ books' = [Unposted(b) EXCEPT
                        !.payment = [p \in Payments |-> IF p \in AllocatedTo(b) THEN 0 ELSE @[p]]]
        /\ UNCHANGED <<sold, opened, elsewhere>>

(* record_supplier_payment, allocated to purchase b or (NoPurchase) to the  *)
(* Khata.                                                                   *)
RecordPayment(p, s, b, amount) ==
    /\ payments[p].state = "unused"
    /\ b # NoPurchase => Live(b) /\ purchases[b].supplier = s /\ amount <= Due(b)
    /\ amount <= Outstanding(s)
    /\ payments' = [payments EXCEPT ![p] = [state |-> "live", supplier |-> s,
                                            purchase |-> b, amount |-> amount]]
    /\ purchases' = IF b = NoPurchase THEN purchases
                    ELSE [purchases EXCEPT ![b].paid = @ + amount]
    /\ books' = [books EXCEPT !.payment[p] = Posted(@, amount)]
    /\ UNCHANGED shelf

(* api/payments.void_payment of a supplier payment.                         *)
VoidPayment(p) ==
    LET b == payments[p].purchase
    IN  /\ payments[p].state = "live"
        /\ purchases' = IF b = NoPurchase THEN purchases
                        ELSE [purchases EXCEPT
                                 ![b].paid = PaidAfterVoid(purchases[b], payments[p].amount)]
        /\ payments' = [payments EXCEPT ![p] = BlankPayment("deleted")]
        /\ books' = [books EXCEPT !.payment[p] = 0]
        /\ UNCHANGED shelf

(* create_purchase_return: back[v] units of each line go to the supplier.   *)
ReturnGoods(b, back) ==
    LET row    == purchases[b]
        refund == RefundFor(row, back)
    IN  /\ Live(b)
        /\ \A v \in Variants : row.returned[v] + back[v] <= row.lines[v].qty
        /\ refund > 0
        /\ row.refunded + refund <= MaxAmount
        /\ Available(back)
        /\ purchases' = [purchases EXCEPT
                            ![b].returned = [v \in Variants |-> @[v] + back[v]],
                            ![b].refunded = @ + refund]
        /\ stock' = Shift(back)
        /\ books' = [books EXCEPT !.returned[b] = @ + refund]
        /\ UNCHANGED <<payments, sold, opened, elsewhere>>

(* What moves the stock besides purchases.                                  *)
MovesElsewhere(v, delta) ==
    /\ stock[v].quantity + delta \in 0 .. MaxStock
    /\ elsewhere' = [elsewhere EXCEPT ![v] = @ + delta]
    /\ UNCHANGED <<purchases, payments, books>>

(* adjust_stock, uncosted; so are the units an edited or voided sale puts   *)
(* back.                                                                    *)
AdjustStock(v, delta) ==
    /\ MovesElsewhere(v, delta)
    /\ stock' = [stock EXCEPT ![v].quantity = @ + delta]
    /\ UNCHANGED <<sold, opened>>

(* post_opening_inventory: one entry per variant ever, at a cost.           *)
PostOpening(v, q, cost) ==
    /\ v \notin opened
    /\ MovesElsewhere(v, q)
    /\ stock' = CostedReceipt(v, q, cost)
    /\ opened' = opened \cup {v}
    /\ UNCHANGED sold

(* A sale line takes q units, at the average cost of the moment.            *)
SellLine(l, v, q) ==
    /\ sold[l].out = 0
    /\ MovesElsewhere(v, -q)
    /\ stock' = [stock EXCEPT ![v].quantity = @ - q]
    /\ sold' = [sold EXCEPT ![l] = [variant |-> v, out |-> q, cost |-> SnapshotCost(v)]]
    /\ UNCHANGED opened

(* create_sale_return: q of them come back, at the cost they left at.       *)
TakeBack(l, q) ==
    LET line == sold[l]
    IN  /\ q <= line.out
        /\ MovesElsewhere(line.variant, q)
        /\ stock' = CostedReceipt(line.variant, q, line.cost)
        /\ sold' = [sold EXCEPT ![l].out = @ - q]
        /\ UNCHANGED opened

-----------------------------------------------------------------------------
Buy == \E b \in Purchases, s \in Suppliers, lines \in Lists, discount \in Discounts,
          advance \in Advances : CreatePurchase(b, s, lines, discount, advance)

Edit == \E b \in Purchases, s \in Suppliers :
           \E lines \in Lists \cup {purchases[b].lines},
              discount \in Discounts \cup {purchases[b].discount} :
                 UpdatePurchase(b, s, lines, discount)

Settle == \E p \in Payments, s \in Suppliers, b \in Purchases \cup {NoPurchase},
             amount \in Amounts : RecordPayment(p, s, b, amount)

Return == \E b \in Purchases, back \in [Variants -> Quantities \cup {0}] \ {NoReturn} :
              ReturnGoods(b, back)

Move == \E q \in Quantities :
           \/ \E v \in Variants :
                 \/ AdjustStock(v, q) \/ AdjustStock(v, -q)
                 \/ \E cost \in Costs : PostOpening(v, q, cost)
                 \/ \E l \in SaleLines : SellLine(l, v, q)
           \/ \E l \in SaleLines : TakeBack(l, q)

Next ==
    \/ Buy \/ Edit
    \/ \E b \in Purchases : DeletePurchase(b)
    \/ Settle
    \/ \E p \in Payments : VoidPayment(p)
    \/ Return
    \/ Move

Spec == Init /\ [][Next]_vars

-----------------------------------------------------------------------------
(* Properties.                                                              *)

Line == [qty : Nat, cost : Nat]

PurchaseRows ==
    [status : {"unused", "live", "deleted"}, supplier : Suppliers \cup {NoSupplier},
     lines : [Variants -> Line], discount : Nat, paid : Nat,
     returned : [Variants -> Nat], refunded : Nat]

PaymentRows ==
    [state : {"unused", "live", "deleted"}, supplier : Suppliers \cup {NoSupplier},
     purchase : Purchases \cup {NoPurchase}, amount : 0 .. MaxAmount]

TypeOK ==
    /\ purchases \in [Purchases -> PurchaseRows]
    /\ payments \in [Payments -> PaymentRows]
    /\ stock \in [Variants -> [quantity : Nat, average : Nat]]
    /\ sold \in [SaleLines -> [variant : Variants, out : Nat, cost : Nat]]
    /\ opened \subseteq Variants
    /\ elsewhere \in [Variants -> Int]
    /\ books \in [purchase : [Purchases -> Nat], payment : [Payments -> Nat],
                  returned : [Purchases -> Nat]]

(* Purchase.paid_amount "reflects the payments recorded against that        *)
(* purchase" (record_supplier_payment), beyond what the request that made   *)
(* the purchase stated as already paid: the difference never changes, and   *)
(* neither the one nor the other ever exceeds what the purchase costs.      *)
StatedPaid(b) == purchases[b].paid - TallyOf(AmountOf, AllocatedTo(b))

PaidMovesWithPayments ==
    [][\A b \in Purchases : Live(b) /\ Live(b)' =>
          /\ StatedPaid(b)' = StatedPaid(b)
          /\ purchases'[b].paid <= TotalOf(purchases'[b])]_vars

(* A payment that names a purchase names a live one of its own supplier,    *)
(* so that every live payment counts in exactly one Khata.                  *)
PaymentsNameTheirPurchase ==
    \A p \in Payments : payments[p].state = "live" =>
        p \in CountedPayments(payments[p].supplier)

(* Both, whatever was edited, moved to another supplier, voided or returned.*)
EveryPaymentHasItsKhata == TypeOK /\ PaymentsNameTheirPurchase

(* The balance of Accounts Payable and get_total_outstanding.               *)
LedgerPayable ==
    TallyOf(books.purchase, Purchases) - TallyOf(books.payment, Payments)
    - TallyOf(books.returned, Purchases)

LivePurchases == {b \in Purchases : Live(b)}

DocumentPayable ==
    TallyOf([b \in Purchases |-> TotalOf(purchases[b])], LivePurchases)
    - TallyOf(AmountOf, {p \in Payments : payments[p].state = "live"})
    - TallyOf([b \in Purchases |-> purchases[b].refunded], LivePurchases)

(* The ledger is a second representation of the purchases, payments and     *)
(* returns: Accounts Payable is the sum of the supplier Khatas, after edits *)
(* that repost, voids and returns (accounting.py, payables.py).             *)
LedgerAgreesWithKhata == LedgerPayable = DocumentPayable

(* What is on the shelf is what the live purchases brought and did not take *)
(* back, and what moved elsewhere, whatever was edited or voided since.     *)
KeptOf(b, v) == purchases[b].lines[v].qty - purchases[b].returned[v]

StockIsAccountedFor ==
    \A v \in Variants :
        stock[v].quantity = elsewhere[v] + TallyOf([b \in Purchases |-> KeptOf(b, v)], Purchases)

(* The moving average and the cost a sale line was taken at never exceed    *)
(* the highest cost a request ever stated, through every rounded receipt,   *)
(* deduction, void and through customers' returns, which come back in at    *)
(* the cost they left at (stock that came uncosted may pull the average     *)
(* below the lowest).                                                       *)
WithinCosts(amount, scale) == amount = 0 \/ \E cost \in Costs : amount <= cost * scale

AverageWithinCosts ==
    /\ \A v \in Variants : WithinCosts(stock[v].average, AverageScale)
    /\ \A l \in SaleLines : WithinCosts(sold[l].cost, 1)

(* A purchase with returns is closed to edits and voids, and no line gives  *)
(* back more than it brought, however the returns are split.                *)
FrozenByReturns ==
    \A b \in Purchases : HasReturns(b) =>
        /\ Live(b)'
        /\ purchases'[b].lines = purchases[b].lines
        /\ purchases'[b].supplier = purchases[b].supplier
        /\ \A v \in Variants :
              purchases'[b].returned[v]
                  \in purchases[b].returned[v] .. purchases[b].lines[v].qty

ReturnedPurchasesAreFrozen == [][FrozenByReturns]_vars
=============================================================================
