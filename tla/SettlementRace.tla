--------------------------- MODULE SettlementRace ---------------------------
(***************************************************************************)
(* Concurrent requests on the sales of one customer, or on the purchases of*)
(* one supplier, each a transaction taken apart into its row locks (SELECT *)
(* ... FOR UPDATE), its reads and its commit, under READ COMMITTED: the    *)
(* settlement of a party, void_payment, PATCH, delete and return of a bill.*)
(*                                                                         *)
(* bill, pay and booked are the committed rows; what a request writes is   *)
(* seen by nobody before its commit, so writing and committing are one     *)
(* step.  A request that fails rolls back and leaves only its locks to     *)
(* release.  PostgreSQL aborts one request of a circle of waiting ones.    *)
(* RowLocks has the locks of all the endpoints.                            *)
(***************************************************************************)
EXTENDS Tally

CONSTANTS
    Bills, Payments, NoBill, Totals,
    Settlers, Voiders, Editors, Deleters, Returners,   \* the requests, by endpoint
    Khata,         \* the row of the customer or supplier
    Nobody, Keep,  \* a free row; an edit that leaves the total alone
    MaxArrivals    \* bound on the requests that arrive

Requests == Settlers \cup Voiders \cup Editors \cup Deleters \cup Returners

ASSUME RaceAssumption ==
    /\ IsFiniteSet(Bills) /\ IsFiniteSet(Payments)
    /\ NoBill \notin Bills
    /\ Totals \subseteq 0 .. MaxAmount
    /\ Keep \notin Totals
    /\ Khata \notin Bills \cup Payments
    /\ Nobody \notin Requests
    /\ MaxArrivals \in Nat

(* A request is of one kind.                                                *)
ASSUME KindAssumption ==
    /\ Settlers \cap (Voiders \cup Editors \cup Deleters \cup Returners) = {}
    /\ Voiders \cap (Editors \cup Deleters \cup Returners) = {}
    /\ Editors \cap (Deleters \cup Returners) = {}
    /\ Deleters \cap Returners = {}

VARIABLES
    side, bill, pay, booked,   \* the committed rows
    owner,               \* which request holds the lock of a row
    request              \* where each request is and what it has read

vars == <<side, bill, pay, booked, owner, request>>

Promise == INSTANCE SettledBills

Rows == {Khata} \cup Bills \cup Payments

(* at: the step to take next.  doomed: the payments still to be locked by a *)
(* delete.  seen: the request's copy of its bill row.  balance: the running *)
(* result of _compute_balance.                                              *)
Fresh == [at |-> "idle", bill |-> NoBill, payment |-> Nobody, amount |-> 0, total |-> Keep,
          doomed |-> {}, seen |-> Promise!NoRow, balance |-> 0]

Init ==
    /\ Promise!Init
    /\ owner = [row \in Rows |-> Nobody]
    /\ request = [r \in Requests |-> Fresh]

-----------------------------------------------------------------------------
(* Parts of the steps.                                                      *)

At(r, step) == request[r].at = step

Move(r, step) == request' = [request EXCEPT ![r].at = step]

Released(r) == [row \in Rows |-> IF owner[row] = r THEN Nobody ELSE owner[row]]

Commit(r) ==
    /\ request' = [request EXCEPT ![r] = [Fresh EXCEPT !.at = "done"]]
    /\ owner' = Released(r)

RollBack(r) == Commit(r) /\ UNCHANGED <<bill, pay, booked>>

(* FOR UPDATE waits while another request holds the row.                    *)
Free(row) == owner[row] = Nobody

Take(r, row) ==
    /\ Free(row)
    /\ owner' = [owner EXCEPT ![row] = r]

(* The rows a request is waiting for or about to lock.                      *)
Wanted(r) ==
    CASE At(r, "party") -> {Khata}
      [] At(r, "payment")  -> {request[r].payment}
      [] At(r, "bill")     -> {request[r].bill}
      [] At(r, "doomed")   -> request[r].doomed
      [] At(r, "write") /\ r \in Returners -> {Khata}
      [] OTHER             -> {}

Committed == <<bill, pay, booked>>

-----------------------------------------------------------------------------
(* The bounds on the requests.                                              *)
Running(r) == ~At(r, "idle") /\ ~At(r, "done")

(* A settlement arrives only while Payments has an identifier left for it.  *)
UnusedPayments == {p \in Payments : pay[p].state = "unused"}

(* Requests arrive.  PATCH /sales and /purchases load the bill unlocked for *)
(* their cache invalidation, the return tools of the assistant to find out  *)
(* which bill is meant, and the identity map of the session keeps that copy.*)
Arrive(r) ==
    /\ At(r, "idle")
    /\ Cardinality({u \in Requests : ~At(u, "idle")}) < MaxArrivals
    /\ \/ /\ r \in Settlers
          /\ Cardinality(UnusedPayments) > Cardinality({u \in Settlers : Running(u)})
          /\ \E b \in Bills \cup {NoBill}, amount \in Amounts :
                request' = [request EXCEPT ![r] =
                               [Fresh EXCEPT !.at = "party", !.bill = b, !.amount = amount]]
       \/ /\ r \in Voiders
          /\ \E p \in Payments :
                request' = [request EXCEPT ![r] =
                               [Fresh EXCEPT !.at = "payment", !.payment = p]]
       \/ /\ r \in Editors
          /\ \E b \in Bills, total \in Totals \cup {Keep} :
                request' = [request EXCEPT ![r] =
                               [Fresh EXCEPT !.at = "load", !.bill = b, !.total = total]]
       \/ /\ r \in Deleters
          /\ \E b \in Bills :
                request' = [request EXCEPT ![r] = [Fresh EXCEPT !.at = "bill", !.bill = b]]
       \/ /\ r \in Returners
          /\ \E b \in Bills, refund \in Amounts, first \in {"load", "bill"} :
                request' = [request EXCEPT ![r] =
                               [Fresh EXCEPT !.at = first, !.bill = b, !.amount = refund]]
    /\ UNCHANGED <<bill, pay, booked, owner>>

Load(r) ==
    /\ At(r, "load")
    /\ request' = [request EXCEPT ![r].at = "bill", ![r].seen = bill[request[r].bill]]
    /\ UNCHANGED <<bill, pay, booked, owner>>

ReadParty(r) ==
    /\ At(r, "party")
    /\ Move(r, IF request[r].bill = NoBill THEN "bills" ELSE "bill")
    /\ UNCHANGED owner
    /\ UNCHANGED Committed

(* _get_customer, _get_supplier(for_update=True)                            *)
LockParty(r) ==
    /\ At(r, "party")
    /\ Take(r, Khata)
    /\ Move(r, IF request[r].bill = NoBill THEN "bills" ELSE "bill")
    /\ UNCHANGED Committed

(* The payment of a void, found or gone.                                    *)
LockPayment(r) ==
    LET p == request[r].payment
    IN  /\ At(r, "payment")
        /\ Free(p)
        /\ IF pay[p].state # "live" THEN RollBack(r)
           ELSE /\ Take(r, p)
                /\ request' = [request EXCEPT
                                  ![r].at = IF pay[p].bill = NoBill THEN "write" ELSE "bill",
                                  ![r].bill = pay[p].bill]
                /\ UNCHANGED Committed

(* A row that is already in the identity map is locked but not refreshed.   *)
SeenUnderLock(r) ==
    IF request[r].seen.live THEN request[r].seen ELSE bill[request[r].bill]

(* Every service locks the bill before it looks at it.                      *)
LockBill(r) ==
    LET b == request[r].bill
    IN  /\ At(r, "bill")
        /\ Free(b)
        /\ IF ~bill[b].live THEN RollBack(r)
           ELSE /\ Take(r, b)
                /\ request' = [request EXCEPT
                                  ![r].seen = SeenUnderLock(r),
                                  ![r].doomed = IF r \in Deleters THEN Promise!Allocated(b)
                                                ELSE {},
                                  ![r].at = CASE r \in Settlers -> "bills"
                                              [] r \in Deleters -> "doomed"
                                              [] OTHER          -> "write"]
                /\ UNCHANGED Committed

(* DELETE FROM payments takes the locks of the rows, one by one.            *)
LockDoomed(r) ==
    /\ At(r, "doomed")
    /\ IF bill[request[r].bill].refunded > 0 THEN RollBack(r)
       ELSE /\ \/ \E p \in request[r].doomed :
                     Take(r, p) /\ request' = [request EXCEPT ![r].doomed = @ \ {p}]
               \/ request[r].doomed = {} /\ Move(r, "write") /\ UNCHANGED owner
            /\ UNCHANGED Committed

(* _compute_balance, one statement and so one snapshot at a time.           *)
SumBills(r) ==
    /\ At(r, "bills")
    /\ request' = [request EXCEPT ![r].at = "payments",
                      ![r].balance = TallyOf([b \in Bills |-> bill[b].total], Bills)]
    /\ UNCHANGED <<bill, pay, booked, owner>>

LivePayments == {p \in Payments : pay[p].state = "live"}

SumPayments(r) ==
    /\ At(r, "payments")
    /\ request' = [request EXCEPT ![r].at = "returns",
                      ![r].balance = @ - TallyOf(Promise!Amount, LivePayments)]
    /\ UNCHANGED <<bill, pay, booked, owner>>

SumReturns(r) ==
    /\ At(r, "returns")
    /\ request' = [request EXCEPT ![r].at = "write",
                      ![r].balance = @ - TallyOf([b \in Bills |-> bill[b].back], Bills)]
    /\ UNCHANGED <<bill, pay, booked, owner>>

-----------------------------------------------------------------------------
(* The writes.                                                              *)

(* Rules 5 and 6.                                                           *)
Payable(q) ==
    /\ q.amount <= q.balance
    /\ q.bill # NoBill => q.amount <= Promise!Due(q.seen)

WriteSettlement(r) ==
    LET q == request[r]
        b == q.bill
    IN  /\ r \in Settlers /\ At(r, "write")
        /\ IF ~Payable(q)
           THEN RollBack(r)
           ELSE /\ \E p \in Payments :
                      /\ pay[p].state = "unused"
                      /\ pay' = [pay EXCEPT ![p] = [state |-> "live", bill |-> b,
                                                    amount |-> q.amount]]
                /\ bill' = IF b = NoBill THEN bill
                           ELSE LET row == Promise!WithPaid(q.seen, q.seen.paid + q.amount)
                                IN  [bill EXCEPT ![b].paid = row.paid, ![b].status = row.status]
                /\ Commit(r)
                /\ UNCHANGED booked

WriteVoid(r) ==
    LET q    == request[r]
        b    == q.bill
        gone == pay[q.payment].amount
        left == IF q.seen.paid > gone THEN q.seen.paid - gone ELSE 0
        row  == Promise!WithPaid(q.seen, left)
    IN  /\ r \in Voiders /\ At(r, "write")
        /\ pay' = [pay EXCEPT ![q.payment] = Promise!NoPayment("deleted")]
        /\ bill' = IF b = NoBill THEN bill
                   ELSE [bill EXCEPT ![b].paid = row.paid, ![b].status = row.status]
        /\ Commit(r)
        /\ UNCHANGED booked

PostUnbalanced(q, total, inflow) == TRUE

(* post_sale debits the payment rows and the due of the copy it is given;   *)
(* post_purchase posts the total alone.                                     *)
Postable(q, total, inflow) == side = "sale" /\ total > 0 => inflow <= q.seen.paid

(* The flush writes the columns that differ from the copy in the session;   *)
(* the CHECK that paid is not above the total sees the row.                 *)
WriteEdit(r) ==
    LET q     == request[r]
        b     == q.bill
        total == IF q.total = Keep THEN q.seen.total ELSE q.total
        new   == Promise!WithPaid([q.seen EXCEPT !.total = total], q.seen.paid)
        inflow == TallyOf(Promise!Amount, Promise!Allocated(b))
        row   == [bill[b] EXCEPT
                     !.total = IF new.total # q.seen.total THEN new.total ELSE @,
                     !.status = IF new.status # q.seen.status THEN new.status ELSE @]
        ok    == /\ bill[b].refunded = 0
                 /\ q.seen.paid <= total
                 /\ row.paid <= row.total
                 /\ Postable(q, total, inflow)
    IN  /\ r \in Editors /\ At(r, "write")
        /\ IF ~ok THEN RollBack(r)
           ELSE /\ bill' = [bill EXCEPT ![b] = row]
                /\ booked' = [booked EXCEPT ![b] = total]
                /\ Commit(r)
                /\ UNCHANGED pay

WriteDelete(r) ==
    LET b == request[r].bill
    IN  /\ r \in Deleters /\ At(r, "write")
        /\ bill' = [bill EXCEPT ![b] = Promise!NoRow]
        /\ pay' = [p \in Payments |-> IF p \in Promise!Allocated(b)
                                      THEN Promise!NoPayment("deleted") ELSE pay[p]]
        /\ booked' = [booked EXCEPT ![b] = 0]
        /\ Commit(r)

(* The totals and what is due come from the copy, what was returned before  *)
(* from the database.  The foreign key of the return to its party waits for *)
(* a settlement that has the Khata FOR UPDATE.                              *)
WriteReturn(r) ==
    LET q    == request[r]
        b    == q.bill
        back == bill[b].back
    IN  /\ r \in Returners /\ At(r, "write")
        /\ Free(Khata)
        /\ IF q.amount > q.seen.total - bill[b].refunded THEN RollBack(r)
           ELSE /\ bill' = [bill EXCEPT ![b].refunded = @ + q.amount,
                                       ![b].back = @ + Promise!Credited(q.seen, back, q.amount)]
                /\ Commit(r)
                /\ UNCHANGED <<pay, booked>>

-----------------------------------------------------------------------------
(* r waits for a row that another request holds, and so on around.          *)
WaitsFor(r) == {owner[row] : row \in Wanted(r)} \ {Nobody, r}

AheadOf(r) ==
    LET Ahead[n \in 0 .. Cardinality(Requests)] ==
            IF n = 0 THEN WaitsFor(r)
            ELSE Ahead[n - 1] \cup UNION {WaitsFor(u) : u \in Ahead[n - 1]}
    IN  Ahead[Cardinality(Requests)]

Abort(r) == r \in AheadOf(r) /\ RollBack(r)

Work(r) ==
    \/ Load(r) \/ LockParty(r) \/ LockPayment(r) \/ LockBill(r) \/ LockDoomed(r)
    \/ SumBills(r) \/ SumPayments(r) \/ SumReturns(r)
    \/ WriteSettlement(r) \/ WriteVoid(r) \/ WriteEdit(r) \/ WriteDelete(r) \/ WriteReturn(r)

Next ==
    /\ \E r \in Requests : Arrive(r) \/ Work(r) \/ Abort(r)
    /\ UNCHANGED side

Spec == Init /\ [][Next]_vars

-----------------------------------------------------------------------------
(* Properties.                                                              *)

Steps == {"idle", "load", "party", "payment", "bill", "doomed",
          "bills", "payments", "returns", "write", "done"}

BillRow == [live : BOOLEAN, total : 0 .. MaxAmount, paid : 0 .. MaxAmount,
            status : {"partial", "completed"},
            refunded : 0 .. MaxAmount, back : 0 .. MaxAmount]

TypeOK ==
    /\ side \in {"sale", "purchase"}
    /\ bill \in [Bills -> BillRow]
    /\ pay \in [Payments -> [state : {"unused", "live", "deleted"},
                             bill : Bills \cup {NoBill}, amount : 0 .. MaxAmount]]
    /\ booked \in [Bills -> Nat]
    /\ owner \in [Rows -> Requests \cup {Nobody}]
    /\ request \in [Requests ->
          [at : Steps, bill : Bills \cup {NoBill}, payment : Payments \cup {Nobody},
           amount : 0 .. MaxAmount, total : Totals \cup {Keep}, doomed : SUBSET Payments,
           seen : BillRow, balance : Int]]

(* The locks make every settlement, void, edit, void of a bill and return   *)
(* happen as if it ran alone: each commit is one step of SettledBills, its  *)
(* conditions still true of the rows it commits over.  The exceptions are   *)
(* an edit that loaded the bill before a void or another edit of it (one    *)
(* overtaken by a settlement, a return or a delete is refused), and a       *)
(* return of the assistant that found the bill before another request       *)
(* changed its total or what is paid.                                       *)
OutdatedEdit(r) ==
    LET q   == request[r]
        row == bill[q.bill]
    IN  /\ WriteEdit(r)
        /\ \/ q.seen.paid > row.paid
           \/ q.seen.total # row.total
           \/ q.seen.paid = row.paid /\ q.seen.status # row.status

OutdatedReturn(r) ==
    LET q == request[r]
    IN  /\ WriteReturn(r)
        /\ q.seen.paid # bill[q.bill].paid \/ q.seen.total # bill[q.bill].total

SettlesAtomically ==
    Promise!Init /\ [][\/ Promise!Next
                       \/ \E r \in Editors : OutdatedEdit(r)
                       \/ \E r \in Returners : OutdatedReturn(r)]_Committed

(* Settlements of one party are serialised on the row of the party: however *)
(* they overlap, with each other, with voids and with returns, they never   *)
(* take more than its bills come to (rules 1 and 5 of record_customer_      *)
(* payment and record_supplier_payment).  An edit or the void of a bill may *)
(* lower what is owed afterwards.                                           *)
NothingReworked == \A r \in Editors \cup Deleters : At(r, "idle")

KhataCovered ==
    NothingReworked =>
        TallyOf(Promise!Amount, LivePayments)
          <= TallyOf([b \in Bills |-> bill[b].total], Bills)

(* Both, over every interleaving of the locks, reads and commits.           *)
RaceInv == TypeOK /\ KhataCovered
=============================================================================
