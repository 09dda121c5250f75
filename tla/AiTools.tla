------------------------------- MODULE AiTools -------------------------------
(***************************************************************************)
(* The seven write tools of the assistant (ai/tools/*_write.py) over a     *)
(* shop that other people change meanwhile.  A call of a tool names its    *)
(* party, document and product by identifier or by words; the words travel *)
(* through the pause for approval as they are and are resolved against the *)
(* rows only when the approved tool runs.                                  *)
(*                                                                         *)
(* A name, an invoice number and a reference are sets of words: ILIKE      *)
(* '%words%' holds when the words are among those of the row.  One line    *)
(* per operation.  The commit of the request is AiApproval's subject: here *)
(* a tool commits when it writes, which is also when the unique key of the *)
(* receipts lets it write.                                                 *)
(***************************************************************************)
EXTENDS Integers, FiniteSets, Sequences

CONSTANTS
    Customers, Suppliers, WalkIn,
    Variants, ProductOf,          \* the product a variant belongs to
    Words, Prices,
    QuantityScale,                \* units of quantity a price is for (the code: 1000)
    PartyNames, ProductNames,     \* names people give
    LineSets,                     \* lines people enter
    Series,                       \* the prefix of generated invoice numbers
    Invoices,                     \* invoice numbers people enter
    Keys, Conversations,          \* the calls the model may make in a conversation
    Requests,
    Unstated,                     \* an argument that is left out
    MaxMatches,                   \* _MAX_MATCHES
    MaxRecords, MaxChanges,       \* bounds: rows ever written, changes by others
    MaxNumber,                    \* bound: the number of a generated invoice
    FirstShops                    \* what the shop may be at the beginning

Tools == {"create_sale", "record_customer_payment", "create_customer_return",
          "create_purchase", "record_supplier_payment", "create_supplier_return",
          "record_expense"}

Parties == Customers \cup Suppliers
Products == {ProductOf[v] : v \in Variants}

Payments == {"record_customer_payment", "record_supplier_payment"}

(* Left out, an identifier, or words to look for: blank ones count as left  *)
(* out.                                                                     *)
IsReference(ref) ==
    \/ ref = Unstated
    \/ ref # Unstated /\ ref.by = "id"
    \/ ref # Unstated /\ ref.by = "words" /\ ref.words # {} /\ IsFiniteSet(ref.words)

(* What the schema of the tools and the checks of their arguments let in.   *)
(* A quantity is a number of QuantityScale-ths; no words: no invoice number.*)
IsCall(op) ==
    /\ op.tool \in Tools /\ op.key \in Keys /\ op.qty \in Nat \ {0}
    /\ IsReference(op.party) /\ IsReference(op.doc) /\ IsReference(op.item)
    /\ op.party # Unstated => op.party.row # WalkIn
    /\ op.item = Unstated <=> op.tool \in Payments
    /\ op.tool = "record_expense" => op.item.by = "words"
    /\ op.price \in Nat \cup {Unstated} /\ op.total \in Nat \cup {Unstated}
    /\ op.tool = "create_purchase" => op.price # Unstated \/ op.total # Unstated
    /\ op.paid \in {"none", "full", "part"}
    /\ op.invoice # {} => op.tool = "create_purchase"

ASSUME ToolsAssumption ==
    /\ WalkIn \notin Parties \cup Products
    /\ Parties \cap Products = {}
    /\ IsFiniteSet(Parties) /\ IsFiniteSet(Variants)
    /\ MaxMatches \in Nat \ {0} /\ MaxChanges \in Nat /\ QuantityScale \in Nat \ {0}
    /\ Prices \subseteq Nat /\ LineSets \subseteq SUBSET Variants
    /\ PartyNames \cup ProductNames \subseteq (SUBSET Words) \ {{}}
    /\ \A op \in UNION Conversations : IsCall(op)

VARIABLES
    name,      \* of each party and product; no words: no such row
    variant,   \* of each variant: its catalog price, whether it is active
    book,      \* sales, purchases, payments, returns and expenses, oldest first
    receipt,   \* of each tool and key: the AI*Receipt row
    calls,     \* what the model may call in this conversation
    request,   \* where each run of a tool is
    changes    \* how often others have changed the shop

vars == <<name, variant, book, receipt, calls, request, changes>>

shop == <<name, variant, book, receipt, calls, changes>>

Slots == Tools \X Keys

Rows == DOMAIN book

(* A receipt points at its record, at nothing once the record is deleted    *)
(* (ON DELETE SET NULL), or is not there.                                   *)
NoReceipt == [claimed |-> FALSE, record |-> 0]
Claimed(i) == [claimed |-> TRUE, record |-> i]

(* A record that no tool made.                                              *)
ByHand == <<"by hand", Unstated>>

Returns == {"create_customer_return", "create_supplier_return"}

(* A sale has a customer or a walk-in, a purchase its supplier; only what   *)
(* was returned belongs to another document.                                *)
IsRow(row) ==
    /\ DOMAIN row = {"kind", "live", "slot", "party", "doc", "items", "invoice", "total", "paid"}
    /\ row.kind \in Tools /\ row.live \in BOOLEAN
    /\ row.party \in Parties \cup {WalkIn}
    /\ row.kind = "create_sale" => row.party \in Customers \cup {WalkIn}
    /\ row.kind = "create_purchase" => row.party \in Suppliers
    /\ row.doc # 0 => row.kind \in Returns
    /\ IsFiniteSet(row.items)

(* The foreign keys of a live row of b: its party has a name in n, what was *)
(* returned belongs to a live document and its line.                        *)
StandsOn(n, b, i) ==
    b[i].live =>
        /\ b[i].party # WalkIn => n[b[i].party] # {}
        /\ b[i].doc # 0 =>
              b[i].doc \in DOMAIN b /\ b[b[i].doc].live /\ b[i].items \subseteq b[b[i].doc].items

(* uq_sales_shop_invoice_number, uq_purchases_shop_invoice_number.          *)
InvoicesDiffer(b) ==
    \A i, j \in DOMAIN b :
        b[i].live /\ b[j].live /\ b[i].kind = b[j].kind /\ b[i].invoice = b[j].invoice =>
            i = j \/ b[i].invoice = {}

ASSUME FirstShopsAssumption ==
    \A first \in FirstShops :
        /\ first.name \in [Parties \cup Products -> SUBSET Words]
        /\ first.variant \in [Variants -> [price : Prices, active : BOOLEAN]]
        /\ \A p \in Products : first.name[p] # {}
        /\ first.book \in Seq({first.book[i] : i \in DOMAIN first.book})
        /\ \A i \in DOMAIN first.book :
              /\ IsRow(first.book[i]) /\ first.book[i].slot = ByHand
              /\ StandsOn(first.name, first.book, i)
        /\ InvoicesDiffer(first.book)

NoReply == [status |-> "none", record |-> 0, duplicate |-> FALSE]

(* op: the call; meant: what the person who approves it has in mind;        *)
(* target: what the words have been resolved to.                            *)
Nowhere == [party |-> WalkIn, doc |-> 0, item |-> Unstated]
Idle == [at |-> "idle", op |-> Unstated, meant |-> Nowhere, target |-> Unstated, reply |-> NoReply]

Init ==
    /\ \E first \in FirstShops :
          name = first.name /\ variant = first.variant /\ book = first.book
    /\ calls \in Conversations
    /\ receipt = [s \in Slots |-> NoReceipt]
    /\ request = [r \in Requests |-> Idle]
    /\ changes = 0

-----------------------------------------------------------------------------
(* References.                                                              *)

Exists(p) == name[p] # {}

(* A walk-in has no row, so no words of its own. *)
Called(row) == IF row = WalkIn THEN {} ELSE name[row]

Fits(ref, row) ==
    \/ ref = Unstated
    \/ ref # Unstated /\ ref.by = "id" /\ ref.row = row
    \/ ref # Unstated /\ ref.by = "words" /\ ref.words \subseteq Called(row)

Named(rows, ref) == {row \in rows : Exists(row) /\ ref # Unstated /\ Fits(ref, row)}

(* Taking any of several matches. *)
FirstOf(S) == IF S = {} THEN {} ELSE {CHOOSE x \in S : TRUE}

(* One match is taken; none is not_found, several are ambiguous.            *)
Only(S) == IF Cardinality(S) = 1 THEN S ELSE {}

resolve_customer(ref) == IF ref = Unstated THEN {WalkIn} ELSE Only(Named(Customers, ref))

resolve_payment_customer(ref) == Only(Named(Customers, ref))

resolve_purchase_supplier(ref) == Only(Named(Suppliers, ref))

resolve_payment_supplier(ref) == Only(Named(Suppliers, ref))

(* By id or SKU a variant, by name the only variant of the only product.    *)
VariantsOf(S) == {v \in Variants : ProductOf[v] \in S}

resolve_variant(ref) ==
    LET sold == {v \in Variants : variant[v].active}
    IN  IF ref.by = "id" THEN {ref.row} \cap sold
        ELSE Only(VariantsOf(Only(Named(Products, ref))) \cap sold)

resolve_purchase_variant(ref) ==
    IF ref.by = "id" THEN {ref.row} \cap Variants
    ELSE Only(VariantsOf(Only(Named(Products, ref))))

-----------------------------------------------------------------------------
(* Documents.                                                               *)

Documents(kind) == {i \in Rows : book[i].live /\ book[i].kind = kind}

Newest(S) == {i \in S : Cardinality({j \in S : j > i}) <= MaxMatches}

WithFragment(kind, words) == {i \in Documents(kind) : words \subseteq book[i].invoice}

Of(parties, S) == {i \in S : book[i].party \in parties}

sales_for_customer(c) == Newest(Of({c}, Documents("create_sale")))

purchases_for_supplier(s) == Newest(Of({s}, Documents("create_purchase")))

(* The filter by party.  No party stated: everybody's documents.            *)
Owners(parties, owner) ==
    IF owner = Unstated THEN parties \cup {WalkIn} ELSE Only(Named(parties, owner))

(* The newest rows with the fragment are cut off before the filter is       *)
(* applied to them.                                                         *)
FragmentFilter(kind, words, mine) == Of(mine, Newest(WithFragment(kind, words)))

(* By invoice number: the exact one, else the only one with the fragment.   *)
ByInvoice(kind, words, mine) ==
    LET exact == {i \in Documents(kind) : book[i].invoice = words}
    IN  IF exact # {} THEN Of(mine, exact) ELSE Only(FragmentFilter(kind, words, mine))

(* A reference that is no invoice may hold the name of a party.             *)
Hinted(parties, words) == Only({p \in parties : words \cap name[p] # {}})

sale_of(customers) == Only(UNION {sales_for_customer(c) : c \in customers})

purchase_of(suppliers) == Only(UNION {purchases_for_supplier(s) : s \in suppliers})

resolve_customer_sale(ref, owner) ==
    LET mine == Owners(Customers, owner)
    IN  CASE ref = Unstated /\ owner = Unstated -> {}
          [] ref = Unstated /\ owner # Unstated -> sale_of(mine)
          [] ref # Unstated ->
                IF ref.by = "id" THEN Of(mine, Documents("create_sale") \cap {ref.row})
                ELSE IF WithFragment("create_sale", ref.words) # {}
                THEN ByInvoice("create_sale", ref.words, mine)
                ELSE IF owner = Unstated THEN sale_of(Hinted(Customers, ref.words)) ELSE {}

resolve_supplier_purchase(ref, owner) ==
    LET mine == Owners(Suppliers, owner)
    IN  CASE ref = Unstated /\ owner = Unstated -> {}
          [] ref = Unstated /\ owner # Unstated -> purchase_of(mine)
          [] ref # Unstated ->
                IF ref.by = "id" THEN Of(mine, Documents("create_purchase") \cap {ref.row})
                ELSE IF WithFragment("create_purchase", ref.words) # {}
                THEN ByInvoice("create_purchase", ref.words, mine)
                ELSE IF owner = Unstated THEN purchase_of(Hinted(Suppliers, ref.words)) ELSE {}

(* The line of a document: by variant or SKU, or by the product's name,     *)
(* which may also be part of the words.                                     *)
Alike(ref, v) ==
    IF ref.by = "id" THEN ref.row = v
    ELSE \/ ref.words \subseteq name[ProductOf[v]]
         \/ name[ProductOf[v]] \subseteq ref.words

resolve_sale_item(i, ref) == Only({v \in book[i].items : Alike(ref, v)})

resolve_purchase_item(i, ref) == Only({v \in book[i].items : Alike(ref, v)})

-----------------------------------------------------------------------------
(* Amounts, in the smallest unit of money.                                  *)

(* What is paid with the document: all, nothing, or an amount within it.    *)
build_payments(op, total) ==
    CASE op.paid = "none" \/ total = 0 -> {0}
      [] op.paid = "full" /\ total > 0 -> {total}
      [] op.paid = "part" /\ total > 0 -> {op.part} \cap 1 .. total

paid_amount(op, total) ==
    CASE op.paid = "none" -> {0}
      [] op.paid = "full" -> {total}
      [] op.paid = "part" -> {op.part} \cap 0 .. total

(* Dropping the fraction of a unit of money. *)
Truncated(n, d) == n \div d

HalfUp(n, d) == (2 * n + d) \div (2 * d)

(* quantity * price, rounded to money.                                      *)
Valued(qty, price) == HalfUp(qty * price, QuantityScale)

(* A unit cost, a total from which one is derived, or both when they agree  *)
(* to the last digit but one.                                               *)
unit_cost(op) ==
    IF op.total = Unstated THEN {op.price}
    ELSE IF op.price = Unstated THEN {HalfUp(op.total * QuantityScale, op.qty)}
    ELSE {price \in {op.price} : Valued(op.qty, price) - op.total \in -1 .. 1}

-----------------------------------------------------------------------------
(* What each tool prepares: the set has one target, or none when the tool   *)
(* answers ambiguous, not_found or error.                                   *)

Target(party, doc, item, total, paid) ==
    [party |-> party, doc |-> doc, item |-> item, total |-> total, paid |-> paid]

create_sale(op) ==
    LET Sold(c, v) ==
            LET total == Valued(op.qty, IF op.price = Unstated THEN variant[v].price ELSE op.price)
            IN  {Target(c, 0, v, total, paid) : paid \in build_payments(op, total)}
    IN  UNION {Sold(c, v) : c \in resolve_customer(op.party), v \in resolve_variant(op.item)}

record_customer_payment(op) ==
    {Target(c, 0, Unstated, op.total, op.total) : c \in resolve_payment_customer(op.party)}

create_customer_return(op) ==
    UNION {{Target(book[i].party, i, v, 0, 0) : v \in resolve_sale_item(i, op.item)} :
               i \in resolve_customer_sale(op.doc, op.party)}

create_purchase(op) ==
    LET Expected(price) ==
            IF op.price # Unstated /\ op.total # Unstated THEN op.total ELSE Valued(op.qty, price)
        Bought(s, v, price) ==
            {Target(s, 0, v, Valued(op.qty, price), paid) : paid \in paid_amount(op, Expected(price))}
    IN  UNION {Bought(s, v, price) : s \in resolve_purchase_supplier(op.party),
                                     v \in resolve_purchase_variant(op.item),
                                     price \in unit_cost(op)}

record_supplier_payment(op) ==
    {Target(s, 0, Unstated, op.total, op.total) : s \in resolve_payment_supplier(op.party)}

create_supplier_return(op) ==
    UNION {{Target(book[i].party, i, v, 0, 0) : v \in resolve_purchase_item(i, op.item)} :
               i \in resolve_supplier_purchase(op.doc, op.party)}

(* The words of an expense are the categories whose aliases they contain.   *)
record_expense(op) ==
    {Target(WalkIn, 0, category, op.total, op.total) : category \in Only(op.item.words)}

Prepared(op) ==
    CASE op.tool = "create_sale"             -> create_sale(op)
      [] op.tool = "record_customer_payment" -> record_customer_payment(op)
      [] op.tool = "create_customer_return"  -> create_customer_return(op)
      [] op.tool = "create_purchase"         -> create_purchase(op)
      [] op.tool = "record_supplier_payment" -> record_supplier_payment(op)
      [] op.tool = "create_supplier_return"  -> create_supplier_return(op)
      [] op.tool = "record_expense"          -> record_expense(op)

-----------------------------------------------------------------------------
(* A run of a tool.                                                         *)

At(r, place) == request[r].at = place

Slot(op) == <<op.tool, op.key>>

Told(r, reply) ==
    request' = [request EXCEPT ![r] =
        [Idle EXCEPT !.at = "told", !.op = request[r].op, !.reply = reply]]

Refused == [NoReply EXCEPT !.status = "refused"]

(* How near a document comes to the call: 3 its id or invoice number, 2 a   *)
(* fragment of it, 1 only its party, 0 not at all.                          *)
Returned(tool) == IF tool = "create_customer_return" THEN "create_sale" ELSE "create_purchase"

Nearness(op, i) ==
    IF i \notin Documents(Returned(op.tool)) \/ ~Fits(op.party, book[i].party) THEN 0
    ELSE IF op.doc = Unstated THEN 1
    ELSE IF op.doc.by = "id" THEN IF op.doc.row = i THEN 3 ELSE 0
    ELSE IF book[i].invoice = op.doc.words THEN 3
    ELSE IF op.doc.words \subseteq book[i].invoice THEN 2
    ELSE IF op.party = Unstated /\ op.doc.words \cap Called(book[i].party) # {} THEN 1 ELSE 0

PartiesOf(tool) ==
    CASE tool = "create_sale" -> Customers \cup {WalkIn}
      [] tool \in {"record_customer_payment"} -> Customers
      [] tool \in {"create_purchase", "record_supplier_payment"} -> Suppliers
      [] OTHER -> {WalkIn}

(* What a call may mean: rows that fit its words.                           *)
MeansParty(op, p) ==
    \/ p = WalkIn /\ op.party = Unstated
    \/ p # WalkIn /\ op.party # Unstated /\ Exists(p) /\ Fits(op.party, p)

MeansItem(op, v) ==
    CASE op.item = Unstated -> v = Unstated
      [] op.tool = "record_expense" -> v \in op.item.words
      [] op.tool \in Returns -> v \in Variants /\ Alike(op.item, v)
      [] OTHER -> /\ v \in Variants
                  /\ IF op.item.by = "id" THEN op.item.row = v
                     ELSE op.item.words \subseteq name[ProductOf[v]]
                  /\ op.tool = "create_sale" => variant[v].active

Items(op) == IF op.item = Unstated THEN {Unstated}
             ELSE IF op.tool = "record_expense" THEN op.item.words ELSE Variants

Meanings(op) ==
    IF op.tool \in Returns
    THEN {m \in [party : {WalkIn}, doc : Rows, item : Variants] :
             Nearness(op, m.doc) > 0 /\ m.item \in book[m.doc].items /\ MeansItem(op, m.item)}
    ELSE {m \in [party : PartiesOf(op.tool), doc : {0}, item : Items(op)] :
             MeansParty(op, m.party) /\ MeansItem(op, m.item)}

(* The model calls a tool; the call waits for a person, who has in mind     *)
(* something that fits its words, and may edit it.                          *)
Propose(r, op) ==
    /\ At(r, "idle") \/ At(r, "told") \/ At(r, "paused")
    /\ \E meant \in Meanings(op) :
          request' = [request EXCEPT ![r] =
              [at |-> "paused", op |-> op, meant |-> meant, target |-> Unstated, reply |-> NoReply]]
    /\ UNCHANGED shop

AnswerAgain(s, unless) ==
    IF receipt[s].record # 0
    THEN [status |-> "completed", record |-> receipt[s].record, duplicate |-> TRUE]
    ELSE [NoReply EXCEPT !.status = unless]

(* Asking for the record instead of the receipt. *)
Unrecorded(s) == receipt[s].record = 0

Unclaimed(s) == ~receipt[s].claimed

(* Approved: the tool looks for the receipt of its key before it does       *)
(* anything.                                                                *)
FindReceipt(r) ==
    LET s == Slot(request[r].op)
    IN  /\ At(r, "paused")
        /\ IF Unclaimed(s) THEN request' = [request EXCEPT ![r].at = "resolve"]
           ELSE Told(r, AnswerAgain(s, "already_processed"))
        /\ UNCHANGED shop

Resolve(r) ==
    /\ At(r, "resolve")
    /\ IF Prepared(request[r].op) = {} THEN Told(r, Refused)
       ELSE \E target \in Prepared(request[r].op) :
              request' = [request EXCEPT ![r].at = "write", ![r].target = target]
    /\ UNCHANGED shop

(* Trusting what was resolved. *)
AsResolved(target) == TRUE

(* The service reads the rows it is given again: a party or document that   *)
(* is gone, a line no longer in it.                                         *)
StillThere(target) ==
    /\ target.party # WalkIn => Exists(target.party)
    /\ target.doc # 0 => book[target.doc].live /\ target.item \in book[target.doc].items

Overpaid(target) == target.paid > target.total

(* One more than the largest number of the series in use.                   *)
Taken(n) == \E i \in Documents("create_sale") : book[i].invoice = {Series, n}

NextNumber ==
    {n \in 1 .. MaxNumber : (n = 1 \/ Taken(n - 1)) /\ \A k \in n .. MaxNumber : ~Taken(k)}

(* A sale gets the next number of its series, a purchase the stated one.    *)
Invoice(op) == IF op.tool = "create_sale" THEN {{Series, n} : n \in NextNumber} ELSE {op.invoice}

Collides(op) == op.invoice # {} /\ \E i \in Documents(op.tool) : book[i].invoice = op.invoice

Recorded(op, target, invoice) ==
    [kind |-> op.tool, live |-> TRUE, slot |-> Slot(op), party |-> target.party,
     doc |-> target.doc, items |-> {target.item} \ {Unstated},
     invoice |-> invoice,
     total |-> target.total, paid |-> target.paid]

(* The service and the receipt in one savepoint.  A key claimed meanwhile,  *)
(* or an invoice number in use, makes an insert fail and discards both.     *)
Write(r) ==
    LET op == request[r].op
        s  == Slot(op)
        i  == Len(book) + 1
    IN  /\ At(r, "write")
        /\ IF ~StillThere(request[r].target) \/ Overpaid(request[r].target) THEN Told(r, Refused) /\ UNCHANGED <<book, receipt>>
           ELSE IF ~Unclaimed(s) \/ Collides(op) THEN Told(r, AnswerAgain(s, "conflict")) /\ UNCHANGED <<book, receipt>>
           ELSE /\ i <= MaxRecords
                /\ \E invoice \in Invoice(op) :
                      book' = Append(book, Recorded(op, request[r].target, invoice))
                /\ receipt' = [receipt EXCEPT ![s] = Claimed(i)]
                /\ Told(r, [status |-> "completed", record |-> i, duplicate |-> FALSE])
        /\ UNCHANGED <<name, variant, calls, changes>>

(* The service refuses: stock, balance, remaining quantity, frozen document.*)
Refuse(r) ==
    /\ At(r, "write")
    /\ Told(r, Refused)
    /\ UNCHANGED shop

-----------------------------------------------------------------------------
(* What others do to the shop meanwhile, each a committed request.          *)

Change == changes < MaxChanges /\ changes' = changes + 1 /\ UNCHANGED <<calls, request>>

Live(i) == i \in Rows /\ book[i].live

HasHistory(p) == \E i \in Rows : Live(i) /\ book[i].party = p

HasReturns(i) == \E j \in Rows : Live(j) /\ book[j].doc = i

(* Create or rename a party or a product; delete a party without documents and payments.     *)
Christen(row, words) ==
    /\ Change
    /\ name' = [name EXCEPT ![row] = words]
    /\ UNCHANGED <<variant, book, receipt>>

DeleteParty(p) ==
    /\ Change
    /\ Exists(p) /\ ~HasHistory(p)
    /\ name' = [name EXCEPT ![p] = {}]
    /\ UNCHANGED <<variant, book, receipt>>

EditVariant(v, price, active) ==
    /\ Change
    /\ variant' = [variant EXCEPT ![v] = [price |-> price, active |-> active]]
    /\ UNCHANGED <<name, book, receipt>>

(* A sale at the till, a purchase in the back office.                       *)
EnterDocument(kind, p, invoice, items) ==
    /\ Change
    /\ Len(book) < MaxRecords
    /\ p # WalkIn => Exists(p)
    /\ invoice # {} => \A i \in Documents(kind) : book[i].invoice # invoice
    /\ book' = Append(book, [kind |-> kind, live |-> TRUE, slot |-> ByHand, party |-> p, doc |-> 0,
                             items |-> items, invoice |-> invoice, total |-> 0, paid |-> 0])
    /\ UNCHANGED <<name, variant, receipt>>

(* update_sale, update_purchase: other lines, while nothing was returned.   *)
EditLines(i, items) ==
    /\ Change
    /\ Live(i) /\ book[i].kind \in {"create_sale", "create_purchase"} /\ ~HasReturns(i)
    /\ book' = [book EXCEPT ![i].items = items]
    /\ UNCHANGED <<name, variant, receipt>>

Forget(i) == [s \in Slots |-> IF receipt[s].record = i THEN [receipt[s] EXCEPT !.record = 0]
                              ELSE receipt[s]]

(* Void of a document or a payment, delete of an expense.                   *)
Void(i) ==
    /\ Change
    /\ Live(i) /\ book[i].kind \notin Returns /\ ~HasReturns(i)
    /\ book' = [book EXCEPT ![i].live = FALSE]
    /\ receipt' = Forget(i)
    /\ UNCHANGED <<name, variant>>

Run(r) == FindReceipt(r) \/ Resolve(r) \/ Write(r) \/ Refuse(r)

Others ==
    \/ \E p \in Parties : DeleteParty(p)
    \/ \E row \in Parties, words \in PartyNames : Christen(row, words)
    \/ \E row \in Products, words \in ProductNames : Christen(row, words)
    \/ \E v \in Variants, price \in Prices, active \in BOOLEAN : EditVariant(v, price, active)
    \/ \E i \in Rows : Void(i) \/ \E items \in LineSets : EditLines(i, items)
    \/ \E items \in LineSets, invoice \in Invoices :
          \/ \E c \in Customers \cup {WalkIn} : EnterDocument("create_sale", c, invoice, items)
          \/ \E s \in Suppliers : EnterDocument("create_purchase", s, invoice, items)

Next ==
    \/ \E r \in Requests : Run(r) \/ \E op \in calls : Propose(r, op)
    \/ Others

Spec == Init /\ [][Next]_vars

-----------------------------------------------------------------------------
(* Properties.                                                              *)

TypeOK ==
    /\ name \in [Parties \cup Products -> SUBSET Words]
    /\ variant \in [Variants -> [price : Prices, active : BOOLEAN]]
    /\ \A i \in Rows : IsRow(book[i])
    /\ \A s \in Slots : receipt[s].record \in Rows \cup {0}
    /\ \A r \in Requests : request[r].at \in {"idle", "paused", "resolve", "write", "told"}
    /\ changes \in 0 .. MaxChanges

(* The tools keep the promise of OncePerKey: however calls are retried,     *)
(* overlap or reuse a key, and whatever is voided in between, the operation *)
(* of a tool and key is recorded at most once, and a voided one stays void. *)
SlotState ==
    [s \in Slots |-> IF ~receipt[s].claimed THEN "free"
                     ELSE IF receipt[s].record = 0 THEN "undone" ELSE "used"]

Effects == [s \in Slots |-> Cardinality({i \in Rows : Live(i) /\ book[i].slot = s})]

Once == INSTANCE OncePerKey WITH slot <- SlotState, effects <- Effects

OncePerToolAndKey == Once!Spec

(* A tool acts on the row the person meant, however much the shop changes   *)
(* during the pause, unless the row no longer fits the words, a document    *)
(* nearer to the words has turned up, or more documents share the fragment  *)
(* than are read before the filter by party.                                *)
CutOff(op) ==
    /\ op.party # Unstated /\ op.doc # Unstated
    /\ op.doc.by = "words"
    /\ Cardinality(WithFragment(Returned(op.tool), op.doc.words)) > MaxMatches + 1

DocumentAsMeant(op, meant, i) ==
    i # meant => \/ Nearness(op, meant) = 0
                 \/ Nearness(op, i) > Nearness(op, meant)
                 \/ CutOff(op)

AsMeant(op, meant, target) ==
    /\ IF target.doc # 0 THEN DocumentAsMeant(op, meant.doc, target.doc)
       ELSE target.party # meant.party => ~MeansParty(op, meant.party)
    /\ target.doc = meant.doc /\ target.item # meant.item =>
          ~MeansItem(op, meant.item) \/ (meant.doc # 0 /\ meant.item \notin book[meant.doc].items)

NeverGuesses ==
    [][\A r \in Requests : At(r, "resolve") /\ At(r, "write")' =>
          AsMeant(request[r].op, request[r].meant, request'[r].target)]_vars

(* Every record stands on rows that are there: its party has not been       *)
(* deleted, what was returned belongs to a live document and its line,      *)
(* although all of them were read before the write.                         *)
RecordsStandOnLiveRows ==
    /\ TypeOK
    /\ \A i \in Rows : StandsOn(name, book, i)

(* A completed call answers with the record of its own key, and one that    *)
(* was not a duplicate was charged as it was approved: within half a unit   *)
(* of money of the quantity at the stated price; the whole or the stated    *)
(* amount paid (nothing for a bill of nothing), to the unit of money by     *)
(* which a stated total may differ from the stated price; and for a         *)
(* purchase stated by its total, whose unit cost and line total are both    *)
(* rounded, within half a unit of money for each whole of the quantity and  *)
(* one half more.                                                           *)
Deviation(a, b) == IF a > b THEN a - b ELSE b - a

Slack(op) == IF op.price # Unstated /\ op.total # Unstated THEN 1 ELSE 0

ChargedAsApproved(op, record) ==
    /\ op.paid = "full" => Deviation(record.paid, record.total) <= Slack(op)
    /\ op.paid = "none" => record.paid = 0
    /\ op.paid = "part" => record.paid = op.part \/ (record.total = 0 /\ record.paid = 0)
    /\ op.price # Unstated =>
          2 * Deviation(op.qty * op.price, QuantityScale * record.total) <= QuantityScale
    /\ op.tool = "create_purchase" /\ op.price = Unstated =>
          2 * QuantityScale * Deviation(op.total, record.total) <= op.qty + QuantityScale

AnswersAreTrue ==
    \A r \in Requests : request[r].reply.status = "completed" =>
        LET op     == request[r].op
            record == book[request[r].reply.record]
        IN  /\ record.slot = Slot(op)
            /\ ~request[r].reply.duplicate /\ op.tool \in {"create_sale", "create_purchase"} =>
                  ChargedAsApproved(op, record)
=============================================================================
