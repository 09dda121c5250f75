------------------------------ MODULE MCReports ------------------------------
(* A shop with a sale and an expense of the first day and a complete chart, *)
(* and one with two sales to number and the chart an older version left it. *)
(* Sales may also be of goods that cost nothing, or given away; the first   *)
(* one is not paid, those made later are paid by card.                      *)
EXTENDS Reports, TLC

CONSTANTS s1, s2, e1, r1, r2, rent, power

MCLines == {[subtotal |-> 3, cost |-> 1], [subtotal |-> 6, cost |-> 0]}

FirstSale ==
    SaleRow(FigureOf([subtotal |-> 3, cost |-> 1], 0), [paid |-> 0, method |-> "cash"], 1, FALSE, 1)

First(there) ==
    [d \in Documents |->
        IF d \in there \cap Sales THEN FirstSale
        ELSE IF d \in there THEN ExpenseRow(rent, 1, "cash", 1) ELSE NewRow]

MCFirstShops ==
    {[accounts |-> Accounts, document |-> First({s1, e1})],
     [accounts |-> Accounts \ {power}, document |-> First({})]}

Everybody == Permutations(Requests)
=============================================================================
