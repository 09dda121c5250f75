------------------------------- MODULE Ledger -------------------------------
(***************************************************************************)
(* The posting rules of services/accounting.py for sales, settlements and  *)
(* customer returns.  A posting group is a record with one field per       *)
(* account side the rule may write; a field that is 0 is a line the code   *)
(* leaves out, and the group with every field 0 is a group never posted.   *)
(***************************************************************************)
EXTENDS Integers

(* The two asset accounts a PaymentMethod maps to (_METHOD_ACCOUNT_CODES).  *)
Tills == {"Cash", "Bank"}

Least(a, b) == IF a <= b THEN a ELSE b
Excess(a, b) == IF a > b THEN a - b ELSE 0

(* round-half-up division, the quantize(..., ROUND_HALF_UP) of the services *)
RoundDiv(n, d) == (2 * n + d) \div (2 * d)

-----------------------------------------------------------------------------
(* post_sale: Dr money accounts by payment, Dr AR the due, Cr revenue.      *)

NoSaleGroup == [money |-> [t \in Tills |-> 0], ar |-> 0, revenue |-> 0]

Collected(inflow) == inflow["Cash"] + inflow["Bank"]

SaleGroup(total, paid, inflow) ==
    IF total <= 0 THEN NoSaleGroup
    ELSE [money   |-> [t \in Tills |->
                          inflow[t] + IF t = "Cash" THEN Excess(paid, Collected(inflow))
                                                    ELSE 0],
          ar      |-> Excess(total, paid),
          revenue |-> total]

SaleGroupBalances(g) == g.money["Cash"] + g.money["Bank"] + g.ar = g.revenue

(* What _post_group and UNIQUE(shop, reference, account) let through.       *)
SalePostable(total, paid, inflow) ==
    /\ SaleGroupBalances(SaleGroup(total, paid, inflow))
    /\ \/ total <= 0
       \/ inflow["Cash"] = 0
       \/ paid <= Collected(inflow)

-----------------------------------------------------------------------------
(* post_sale_return: Dr revenue; Cr AR, then the money accounts of the      *)
(* sale's payments in row order (first), the remainder Cr Cash; Dr          *)
(* inventory, Cr COGS.                                                      *)

RefundTo(first, cashRefund, inflow) ==
    [t \in Tills |->
        IF t = first THEN Least(inflow[t], cashRefund)
        ELSE Least(inflow[t], Excess(cashRefund, inflow[first]))]

Leftover(first, cashRefund, inflow) ==
    Excess(cashRefund, Collected(inflow))

ReturnGroup(refund, ar, cogs, first, inflow) ==
    LET cashRefund == refund - ar
        back       == RefundTo(first, cashRefund, inflow)
    IN  [money   |-> [t \in Tills |->
                         back[t] + IF t = "Cash" THEN Leftover(first, cashRefund, inflow)
                                                 ELSE 0],
         ar      |-> ar,
         revenue |-> refund,
         cogs    |-> cogs]

ReturnPostable(refund, ar, first, inflow) ==
    \/ inflow["Cash"] = 0
    \/ Leftover(first, refund - ar, inflow) = 0

NoReturnGroup == [money |-> [t \in Tills |-> 0], ar |-> 0, revenue |-> 0, cogs |-> 0]

ReturnGroupBalances(g) == g.money["Cash"] + g.money["Bank"] + g.ar = g.revenue

(* A return that replaces the group of the sale's earlier return.           *)
LastReturnGroup(g, h) == h

(* Running total of a sale's SALE_RETURN groups.                            *)
AddReturnGroup(g, h) ==
    [money   |-> [t \in Tills |-> g.money[t] + h.money[t]],
     ar      |-> g.ar + h.ar,
     revenue |-> g.revenue + h.revenue,
     cogs    |-> g.cogs + h.cogs]
=============================================================================
