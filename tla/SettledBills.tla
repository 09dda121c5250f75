---------------------------- MODULE SettledBills ----------------------------
(***************************************************************************)
(* What the settlement of bills promises: each operation on a bill happens *)
(* as if it ran alone.  SettlementRace implements it with row locks, reads *)
(* and writes of concurrent requests.  The bills are the sales of one      *)
(* customer or the purchases of one supplier; edits change the discount    *)
(* (the total); booked is the amount of the SALE or PURCHASE group.        *)
(***************************************************************************)
EXTENDS Tally

CONSTANTS Bills, Payments, NoBill, Totals

VARIABLES
    side,    \* which bills these are, "sale" or "purchase"
    bill,    \* their rows
    pay,     \* the payments rows
    booked   \* what is posted for each bill

rows == <<side, bill, pay, booked>>

(* A purchase has no status.                                                *)
StatusFor(paid, total) ==
    IF side = "sale" /\ paid >= total THEN "completed" ELSE "partial"

Amount == [p \in Payments |-> pay[p].amount]

Allocated(b) == {p \in Payments : pay[p].state = "live" /\ pay[p].bill = b}

Due(row) == row.total - row.paid

NoRow == [live |-> FALSE, total |-> 0, paid |-> 0, status |-> "partial",
          refunded |-> 0, back |-> 0]

NoPayment(state) == [state |-> state, bill |-> NoBill, amount |-> 0]

WithPaid(row, paid) == [row EXCEPT !.paid = paid, !.status = StatusFor(paid, row.total)]

(* The part of a refund that goes to the Khata: first what is still due on a*)
(* sale, the rest of it in cash; the whole of a supplier's.                 *)
Credited(row, back, refund) ==
    LET left == IF Due(row) > back THEN Due(row) - back ELSE 0
    IN  IF side = "purchase" \/ refund <= left THEN refund ELSE left

-----------------------------------------------------------------------------
(* Bills, some of them paid in part, and earlier payments.  A purchase may  *)
(* state an amount already paid for which there is no payment.              *)
Init ==
    /\ side \in {"sale", "purchase"}
    /\ pay \in [Payments -> {NoPayment("unused")} \cup
                            [state : {"live"}, bill : Bills, amount : Amounts]]
    /\ \E total \in [Bills -> Totals],
          stated \in [Bills -> IF side = "sale" THEN {0} ELSE Amounts \cup {0}] :
          LET paid(b) == stated[b] + TallyOf(Amount, Allocated(b))
          IN  /\ \A b \in Bills : paid(b) <= total[b]
              /\ bill = [b \in Bills |->
                            [NoRow EXCEPT !.live = TRUE, !.total = total[b], !.paid = paid(b),
                                          !.status = StatusFor(paid(b), total[b])]]
              /\ booked = total

(* record_customer_payment, record_supplier_payment                         *)
Settle(p, b, amount) ==
    /\ pay[p].state = "unused"
    /\ b # NoBill => bill[b].live /\ amount <= Due(bill[b])
    /\ pay' = [pay EXCEPT ![p] = [state |-> "live", bill |-> b, amount |-> amount]]
    /\ bill' = IF b = NoBill THEN bill
               ELSE [bill EXCEPT ![b] = WithPaid(@, @.paid + amount)]
    /\ UNCHANGED booked

(* void_payment                                                             *)
Void(p) ==
    LET b == pay[p].bill
    IN  /\ pay[p].state = "live"
        /\ pay' = [pay EXCEPT ![p] = NoPayment("deleted")]
        /\ bill' = IF b = NoBill THEN bill
                   ELSE [bill EXCEPT ![b] = WithPaid(@, @.paid - pay[p].amount)]
        /\ UNCHANGED booked

(* update_sale, update_purchase                                             *)
Edit(b, total) ==
    /\ bill[b].live /\ bill[b].refunded = 0
    /\ bill[b].paid <= total
    /\ bill' = [bill EXCEPT ![b] = WithPaid([@ EXCEPT !.total = total], @.paid)]
    /\ booked' = [booked EXCEPT ![b] = total]
    /\ UNCHANGED pay

(* delete_sale, delete_purchase                                             *)
Delete(b) ==
    /\ bill[b].live /\ bill[b].refunded = 0
    /\ bill' = [bill EXCEPT ![b] = NoRow]
    /\ pay' = [p \in Payments |-> IF p \in Allocated(b) THEN NoPayment("deleted") ELSE pay[p]]
    /\ booked' = [booked EXCEPT ![b] = 0]

(* create_sale_return, create_purchase_return                               *)
Return(b, refund) ==
    LET row == bill[b]
    IN  /\ row.live
        /\ refund \in 1 .. row.total - row.refunded
        /\ bill' = [bill EXCEPT ![b] = [row EXCEPT
                                           !.refunded = row.refunded + refund,
                                           !.back = row.back + Credited(row, row.back, refund)]]
        /\ UNCHANGED <<pay, booked>>

Next ==
    /\ \/ \E p \in Payments, b \in Bills \cup {NoBill}, amount \in Amounts : Settle(p, b, amount)
       \/ \E p \in Payments : Void(p)
       \/ \E b \in Bills, total \in Totals : Edit(b, total)
       \/ \E b \in Bills : Delete(b)
       \/ \E b \in Bills, refund \in Amounts : Return(b, refund)
    /\ UNCHANGED side

Spec == Init /\ [][Next]_rows
=============================================================================
