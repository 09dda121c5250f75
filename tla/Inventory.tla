----------------------------- MODULE Inventory -----------------------------
(***************************************************************************)
(* The inventory rows of one shop and what services/inventory.py does to   *)
(* them: costed and uncosted receipts, deductions and the moving weighted  *)
(* average cost.  Quantities are counted in the smallest unit of a variant,*)
(* a QuantityScale-th (the code: 0.001) of what a price or a cost is for;  *)
(* prices and costs in the smallest unit of money, the average in          *)
(* AverageScale-ths of it.  reserved_quantity is 0 throughout: nothing in  *)
(* the code reserves.                                                      *)
(***************************************************************************)
EXTENDS Ledger, Tally

CONSTANTS
    Variants,
    MaxStock,             \* bound on the stock of a variant
    QuantityScale,        \* quantity units in what a price is for
    AverageScale          \* average-cost units in one money unit

ASSUME InventoryAssumption ==
    /\ Variants # {}
    /\ MaxStock \in Nat
    /\ QuantityScale \in Nat \ {0}
    /\ AverageScale \in Nat \ {0}

VARIABLE stock       \* the inventory rows: quantity and weighted average cost

(* quantity * price, rounded to money: the total of a line, the gross of a  *)
(* return, the cost of goods.                                               *)
Valued(q, price) == RoundDiv(q * price, QuantityScale)

SnapshotCost(v) == RoundDiv(stock[v].average, AverageScale)

(* _apply_receipt_cost run after the quantity was increased.                *)
AverageOfNewQuantity(row, q, cost) ==
    RoundDiv((row.quantity + q) * row.average + q * cost * AverageScale, row.quantity + q)

AverageAfter(row, q, cost) ==
    RoundDiv(row.quantity * row.average + q * cost * AverageScale, row.quantity + q)

CostedReceipt(v, q, cost) ==
    [stock EXCEPT ![v] = [quantity |-> @.quantity + q, average |-> AverageAfter(@, q, cost)]]

(* remove_stock without its comparison of the locked quantity.              *)
AvailableUnchecked(need) == TRUE

(* Take need[v] out of every variant, or put -need[v] back, uncosted.       *)
Available(need) == \A v \in Variants : need[v] > 0 => need[v] <= stock[v].quantity

Shift(need) == [v \in Variants |-> [stock[v] EXCEPT !.quantity = @ - need[v]]]
=============================================================================
