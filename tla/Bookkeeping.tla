----------------------------- MODULE Bookkeeping -----------------------------
(***************************************************************************)
(* Requests that write documents and their ledger groups, statement by     *)
(* statement under READ COMMITTED: sales with their invoice numbers        *)
(* (services/sales.py), expenses (services/expenses.py), and the chart of  *)
(* accounts that every posting completes first (services/accounting.py).   *)
(* The lines of a sale are what they come to and what they cost; a sale is *)
(* paid when it is made, by one method, or not at all.  SalesDesk has the  *)
(* rest of a sale, SettlementRace what is paid later.                      *)
(*                                                                         *)
(* What a transaction inserts under a unique key is compared with the      *)
(* committed rows when it commits: PostgreSQL makes the second insert wait *)
(* for the first transaction and then fails it, with the same result.      *)
(***************************************************************************)
EXTENDS Integers, FiniteSets, FiniteSetsExt

CONSTANTS
    Sales, Expenses,   \* identifiers the rows will get
    Categories,        \* expense categories, each with an account of its own
    Amounts,           \* of an expense
    Lines,             \* what the lines of a sale come to and cost
    Discounts,         \* on a sale
    Numbers,           \* invoice numbers people write, as the number they end in
    Tenders,           \* how sales are paid
    Automatic, Unpaid, \* no number given; no payment given
    Same,              \* a field that a PATCH leaves out
    Requests,
    FirstShops,
    MaxArrivals, MaxDay

(* Of the payment methods, cash leaves Cash and every electronic one Bank.  *)
Methods == {"cash", "bank"}

ASSUME BookkeepingAssumption ==
    /\ Sales \cap Expenses = {} /\ IsFiniteSet(Sales \cup Expenses)
    /\ IsFiniteSet(Categories)
    /\ Categories \cap {"cash", "bank", "receivable", "inventory", "sales_revenue", "cogs"} = {}
    /\ Numbers \subseteq Nat \ {0} /\ Automatic \notin Numbers
    /\ Amounts \subseteq Nat \ {0} /\ Discounts \subseteq Nat 
    /\ Tenders \subseteq Methods \cup {Unpaid} /\ Unpaid \notin Methods
    /\ Same \notin Amounts \cup Numbers \cup Discounts /\ Same \notin Lines
    /\ Same \notin Categories \cup Methods /\ Same # Automatic
    /\ \A lines \in Lines : lines.subtotal \in Nat /\ lines.cost \in Nat
    /\ MaxArrivals \in Nat /\ MaxDay \in Nat \ {0}

VARIABLES
    accounts,   \* the chart of accounts of the shop
    document,   \* of each sale and expense: its row
    ledger,     \* of each sale and expense: the entries that refer to it
    day,        \* the UTC day
    request,    \* where each request is
    arrivals    \* requests so far

bookVars == <<accounts, document, ledger, day, request, arrivals>>

Documents == Sales \cup Expenses

Accounts == Methods \cup {"receivable", "inventory", "sales_revenue", "cogs"} \cup Categories

(* A row is new until it is inserted and gone once it is deleted.           *)
NewRow == [status |-> "new"]
GoneRow == [status |-> "gone"]

FigureOf(lines, discount) ==
    [subtotal |-> lines.subtotal, discount |-> discount,
     total |-> lines.subtotal - discount, cost |-> lines.cost]

SaleRow(figure, tender, number, written, on) ==
    [status |-> "there", figure |-> figure, tender |-> tender, number |-> number,
     written |-> written, day |-> on]

ExpenseRow(category, amount, method, on) ==
    [status |-> "there", category |-> category, amount |-> amount, method |-> method, day |-> on]

There(d) == document[d].status = "there"

Idle == [at |-> "idle"]

-----------------------------------------------------------------------------
(* Ledger groups.                                                           *)

Entry(account, side, amount, on) == [account |-> account, side |-> side, amount |-> amount, day |-> on]

(* Nothing is posted for a sale given away, nor for goods that cost nothing;*)
(* what has not been paid is due from the customer.                         *)
post_sale(total, tender, on) ==
    {e \in {Entry(tender.method, "debit", tender.paid, on),
            Entry("receivable", "debit", total - tender.paid, on),
            Entry("sales_revenue", "credit", total, on)} : total # 0 /\ e.amount # 0}

post_cogs(cost, on) ==
    {e \in {Entry("cogs", "debit", cost, on), Entry("inventory", "credit", cost, on)} : cost # 0}

post_expense(row, on) ==
    {Entry(row.category, "debit", row.amount, on), Entry(row.method, "credit", row.amount, on)}

RowTotal(d, row) ==
    IF row.status # "there" THEN 0 ELSE IF d \in Sales THEN row.figure.total ELSE row.amount

(* The cost is summed over the lines in the database, the total is that of  *)
(* the sale in the session.                                                 *)
Posting(d, row, total, on) ==
    IF d \in Sales THEN post_sale(total, row.tender, on) \cup post_cogs(row.figure.cost, on)
    ELSE post_expense(row, on)

(* A shop to begin with: documents of the first day, the accounts of their  *)
(* postings among those it has.                                             *)
FirstRow(d, row) ==
    \/ row = NewRow
    \/ /\ row.status = "there" /\ row.day = 1
       /\ d \in Sales =>
             /\ \E lines \in Lines, discount \in Discounts : row.figure = FigureOf(lines, discount)
             /\ row.tender.paid \in 0 .. row.figure.total /\ row.tender.method \in Methods
             /\ row.number \in Nat \ {0} /\ row.written \in BOOLEAN
       /\ d \in Expenses => row.category \in Categories /\ row.amount \in Amounts /\ row.method \in Methods

(* uq_sales_shop_invoice_number.                                            *)
NumbersDiffer(rows) ==
    \A s, t \in {s \in Sales : rows[s].status = "there"} : rows[s].number = rows[t].number => s = t

ASSUME FirstShopsAssumption ==
    \A shop \in FirstShops :
        /\ shop.accounts \subseteq Accounts
        /\ shop.document = [d \in Documents |-> shop.document[d]]
        /\ \A d \in Documents :
              /\ FirstRow(d, shop.document[d])
              /\ shop.document[d].status = "there" =>
                    {e.account : e \in Posting(d, shop.document[d], RowTotal(d, shop.document[d]), 1)}
                        \subseteq shop.accounts
        /\ NumbersDiffer(shop.document)

-----------------------------------------------------------------------------
(* Requests.                                                                *)

SaleOps(s) ==
    CASE document[s].status = "new" ->
            [do : {"create_sale"}, id : {s}, lines : Lines, discount : Discounts,
             number : Numbers \cup {Automatic}, method : Tenders]
      [] document[s].status = "there" ->
            [do : {"update_sale"}, id : {s}, lines : Lines \cup {Same},
             discount : Discounts \cup {Same}, number : Numbers \cup {Same}]
              \cup [do : {"delete_sale"}, id : {s}]
      [] OTHER -> {}

ExpenseOps(e) ==
    CASE document[e].status = "new" ->
            [do : {"create_expense"}, id : {e}, category : Categories, amount : Amounts,
             method : Methods]
      [] document[e].status = "there" ->
            [do : {"update_expense"}, id : {e}, category : Categories \cup {Same},
             amount : Amounts \cup {Same}, method : Methods \cup {Same}]
              \cup [do : {"delete_expense"}, id : {e}]
      [] OTHER -> {}

Creates(op) == op.do \in {"create_sale", "create_expense"}
Deletes(op) == op.do \in {"delete_sale", "delete_expense"}

At(r, place) == request[r].at = place

Busy(d) == \E r \in Requests : ~At(r, "idle") /\ request[r].op.id = d

(* The transaction of a request begins; now() keeps its day to the end.  A  *)
(* PATCH of a sale loads the row at once, before the service locks it.      *)
Arrive(r) ==
    /\ At(r, "idle")
    /\ arrivals < MaxArrivals
    /\ \E op \in (UNION {SaleOps(s) : s \in Sales}) \cup (UNION {ExpenseOps(e) : e \in Expenses}) :
          /\ Creates(op) => ~Busy(op.id)
          /\ request' = [request EXCEPT ![r] = [at |-> "begin", op |-> op, day |-> day, seen |-> document[op.id]]]
    /\ arrivals' = arrivals + 1
    /\ UNCHANGED <<accounts, document, ledger, day>>

(* What a request locks first: the shop for a number, the row it changes.   *)
LockOf(op) ==
    IF op.do = "create_sale" /\ op.number = Automatic THEN {"shop"}
    ELSE IF Creates(op) THEN {} ELSE {op.id}

(* Numbering sales without waiting for one another. *)
NoWait(r) == TRUE

LockFree(r) ==
    \A other \in Requests \ {r} :
        At(other, "read") \/ At(other, "charted") =>
            LockOf(request[other].op) \cap LockOf(request[r].op) = {}

NumbersInUse == {document[s].number : s \in {s \in Sales : There(s)}}

_allocate_invoice_number == Max(NumbersInUse \cup {0}) + 1

Edited(old, new) == IF new = Same THEN old ELSE new

(* A flush writes the columns in which the copy in the session has changed. *)
Column(row, seen, new) == IF new # seen THEN new ELSE row

(* The figures of the copy after the edit.  No lines given: its subtotal.   *)
EditedFigure(op, seen) ==
    FigureOf(IF op.lines = Same THEN seen ELSE op.lines, Edited(seen.discount, op.discount))

(* Those of the row after the flush.  The lines are rows of their own, so   *)
(* their cost is that of the edit or of whoever wrote them last.            *)
FlushedFigure(op, row, seen) ==
    LET new == EditedFigure(op, seen)
    IN  [subtotal |-> Column(row.subtotal, seen.subtotal, new.subtotal),
         discount |-> Column(row.discount, seen.discount, new.discount),
         total    |-> Column(row.total, seen.total, new.total),
         cost     |-> IF op.lines = Same THEN row.cost ELSE new.cost]

TenderOf(op) ==
    IF op.method = Unpaid THEN [paid |-> 0, method |-> "cash"]
    ELSE [paid |-> FigureOf(op.lines, op.discount).total, method |-> op.method]

(* The row as it will be, from the row under its lock and the copy loaded   *)
(* before.                                                                  *)
Changed(op, row, seen, on) ==
    CASE Deletes(op) -> GoneRow
      [] op.do = "create_sale" ->
            SaleRow(FigureOf(op.lines, op.discount), TenderOf(op),
                    IF op.number = Automatic THEN _allocate_invoice_number ELSE op.number,
                    op.number # Automatic, on)
      [] op.do = "update_sale" ->
            SaleRow(FlushedFigure(op, row.figure, seen.figure), row.tender,
                    Column(row.number, seen.number, Edited(seen.number, op.number)),
                    row.written \/ Edited(seen.number, op.number) # seen.number, row.day)
      [] op.do = "create_expense" -> ExpenseRow(op.category, op.amount, op.method, on)
      [] op.do = "update_expense" ->
            ExpenseRow(Edited(row.category, op.category), Edited(row.amount, op.amount),
                       Edited(row.method, op.method), row.day)

(* The total that is posted: of an edited sale, that of the copy.           *)
TotalToPost(op, row, seen) ==
    IF op.do = "update_sale" THEN EditedFigure(op, seen.figure).total ELSE RowTotal(op.id, row)

(* A number that another sale has is refused before anything is written.    *)
Clashes(op, seen) ==
    /\ op.do = "update_sale" /\ Edited(seen.number, op.number) # seen.number
    /\ \E s \in Sales \ {op.id} : There(s) /\ document[s].number = op.number

(* So is a discount above the lines, and a total below what has been paid;  *)
(* and the checks of the table refuse a row whose columns do not add up     *)
(* (ck_sales_total_matches_subtotal, ck_sales_paid_not_above_total).        *)
AddsUp(figure, paid) ==
    /\ figure.discount <= figure.subtotal /\ figure.total = figure.subtotal - figure.discount
    /\ paid <= figure.total

Refused(op, row, seen) ==
    \/ /\ op.do = "create_sale"
       /\ ~AddsUp(FigureOf(op.lines, op.discount), 0)
    \/ /\ op.do = "update_sale"
       /\ \/ ~AddsUp(EditedFigure(op, seen.figure), seen.tender.paid)
          \/ ~AddsUp(FlushedFigure(op, row.figure, seen.figure), row.tender.paid)

(* SELECT ... FOR UPDATE and what is read under the lock.                   *)
Read(r) ==
    LET op   == request[r].op
        was  == document[op.id]
        seen == request[r].seen
        row  == Changed(op, was, seen, request[r].day)
    IN  /\ At(r, "begin")
        /\ LockFree(r)
        /\ IF (~Creates(op) /\ ~There(op.id)) \/ Clashes(op, seen) \/ Refused(op, was, seen)
           THEN request' = [request EXCEPT ![r] = Idle]
           ELSE request' = [request EXCEPT ![r] =
                   [at |-> "read", op |-> op, day |-> @.day, seen |-> seen, was |-> was,
                    row |-> row, total |-> TotalToPost(op, row, seen)]]
        /\ UNCHANGED <<accounts, document, ledger, day, arrivals>>

(* Posting again only when the figures have changed. *)
RepostsAmount(op, was, row) ==
    CASE op.do = "update_expense" -> was.category # row.category \/ was.amount # row.amount
      [] Deletes(op)              -> FALSE
      [] OTHER                    -> TRUE

(* An expense is posted again when its category, amount or method changes, a *)
(* sale on every edit.                                                       *)
Reposts(op, was, row) ==
    CASE op.do = "update_expense" -> was # row
      [] Deletes(op)              -> FALSE
      [] OTHER                    -> TRUE

Posts(r) == Reposts(request[r].op, request[r].was, request[r].row)

ensure_system_accounts(r) ==
    /\ At(r, "read") /\ Posts(r)
    /\ request' = [request EXCEPT ![r] =
          [at |-> "charted", op |-> @.op, day |-> @.day, seen |-> @.seen, was |-> @.was,
           row |-> @.row, total |-> @.total, missing |-> Accounts \ accounts]]
    /\ UNCHANGED <<accounts, document, ledger, day, arrivals>>

Ready(r) == At(r, "charted") \/ (At(r, "read") /\ ~Posts(r))

(* Posting to a chart taken to be complete. *)
NoneMissing(r) == {}

Missing(r) == IF At(r, "charted") THEN request[r].missing ELSE {}

(* The unique keys: an invoice number in the shop, a code in the chart.     *)
NumberTaken(r) ==
    LET op == request[r].op
    IN  /\ op.id \in Sales /\ ~Deletes(op)
        /\ \E s \in Sales \ {op.id} : There(s) /\ document[s].number = request[r].row.number

Conflicts(r) == NumberTaken(r) \/ Missing(r) \cap accounts # {}

Commit(r) ==
    LET op  == request[r].op
        row == request[r].row
    IN  /\ Ready(r) /\ ~Conflicts(r)
        /\ accounts' = accounts \cup Missing(r)
        /\ document' = [document EXCEPT ![op.id] = row]
        /\ ledger' = [ledger EXCEPT ![op.id] =
              IF Deletes(op) THEN {}
              ELSE IF Posts(r) THEN Posting(op.id, row, request[r].total, request[r].day) ELSE @]
        /\ request' = [request EXCEPT ![r] = Idle]
        /\ UNCHANGED <<day, arrivals>>

(* IntegrityError: everything the request wrote is rolled back.             *)
Conflict(r) ==
    /\ Ready(r) /\ Conflicts(r)
    /\ request' = [request EXCEPT ![r] = Idle]
    /\ UNCHANGED <<accounts, document, ledger, day, arrivals>>

Tomorrow ==
    /\ day < MaxDay
    /\ day' = day + 1
    /\ UNCHANGED <<accounts, document, ledger, request, arrivals>>

BookInit ==
    /\ \E shop \in FirstShops :
          /\ accounts = shop.accounts
          /\ document = shop.document
          /\ ledger = [d \in Documents |->
                IF shop.document[d].status = "there"
                THEN Posting(d, shop.document[d], RowTotal(d, shop.document[d]), 1) ELSE {}]
    /\ day = 1
    /\ request = [r \in Requests |-> Idle]
    /\ arrivals = 0

BookNext ==
    \/ \E r \in Requests :
          Arrive(r) \/ Read(r) \/ ensure_system_accounts(r) \/ Commit(r) \/ Conflict(r)
    \/ Tomorrow

-----------------------------------------------------------------------------
(* Properties.                                                              *)

(* The books are those of the documents: each document that is there has    *)
(* exactly the entries its row calls for, in accounts that exist and of one *)
(* day, and one that is gone has none.                                      *)
Posted(d, total) ==
    /\ There(d) => \E on \in document[d].day .. day : ledger[d] = Posting(d, document[d], total, on)
    /\ ~There(d) => ledger[d] = {}
    /\ \A e \in ledger[d] : e.account \in accounts

Matched(d) == Posted(d, RowTotal(d, document[d]))

(* An edit of a sale whose total somebody changed between its load and its  *)
(* lock.                                                                    *)
OutdatedEdit(r) ==
    /\ Commit(r)
    /\ request[r].op.do = "update_sale"
    /\ request[r].seen.figure.total # request[r].was.figure.total

(* Whatever edits, voids and first postings overlap, a commit that writes a *)
(* document or its entries leaves them matched.  Only an outdated edit of a *)
(* sale does not: it may leave the entries of the total that the edit has   *)
(* computed, with the cost and payment of the row.                          *)
BooksMatchDocuments ==
    /\ \A d \in Documents : Matched(d)
    /\ [][\A d \in Documents :
              \/ Matched(d)'
              \/ UNCHANGED <<document[d], ledger[d]>>
              \/ \E r \in Requests : /\ OutdatedEdit(r) /\ request[r].op.id = d
                                     /\ \E total \in {request[r].total} : Posted(d, total)']_bookVars

(* Two sales that get their number from the shop never collide: a request   *)
(* fails on a unique key only because of a number somebody wrote, or        *)
(* because another posting completed the chart of accounts first.           *)
ConflictsAreExplained ==
    [][\A r \in Requests : Ready(r) /\ Conflicts(r) =>
          \/ Missing(r) \cap accounts # {}
          \/ request[r].row.written
          \/ \E s \in Sales : There(s) /\ document[s].written
                /\ document[s].number = request[r].row.number]_bookVars
=============================================================================
