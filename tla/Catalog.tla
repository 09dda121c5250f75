------------------------------ MODULE Catalog ------------------------------
(***************************************************************************)
(* The variants of one shop, the rows that refer to them, and the requests *)
(* that race over both: POST /opening-inventory, create_purchase and the   *)
(* deletes of api/products.py.  A posting locks the shop row and then the  *)
(* inventory rows of its lines; a delete reads, without a lock, what refers*)
(* to its variants, and what refers to them when it deletes goes with them *)
(* (ON DELETE CASCADE).                                                    *)
(*                                                                         *)
(* A line is one unit at some cost.  The lock of an inventory row stands   *)
(* for that of its variant too: whoever adds stock holds both to the end   *)
(* (FOR UPDATE, and the key share of the movement's foreign key).  A write *)
(* and its commit are one step, since nobody sees the one without the      *)
(* other.  Documents stand for purchases; a sale line refers to its variant*)
(* in the same way.                                                        *)
(***************************************************************************)
EXTENDS Integers, FiniteSets

CONSTANTS
    Variants, Costs, Keys,
    Requested,                   \* the payloads of the postings
    Documents,                   \* bounds the purchases
    Posters, Buyers, Cleaners,   \* the requests, by endpoint
    Shop,                        \* the shop row
    Nobody, NoKey,
    MaxArrivals                  \* bound on the requests that arrive

Payloads == UNION {[S -> Costs] : S \in (SUBSET Variants) \ {{}}}

ASSUME CatalogAssumption ==
    /\ Shop \notin Variants
    /\ Requested \subseteq Payloads
    /\ Nobody \notin Posters \cup Buyers \cup Cleaners
    /\ Posters \cap Buyers = {} /\ Posters \cap Cleaners = {} /\ Buyers \cap Cleaners = {}
    /\ NoKey \notin Keys
    /\ Keys \cap Documents = {}
    /\ MaxArrivals \in Nat

VARIABLES
    variants,    \* the product_variants rows
    batch,       \* by key, what a posted batch was made of and its entries
    document,    \* what a document bills and the lines it has
    moved,       \* the movements of a variant, by the row they refer to
    owner,       \* which request holds the lock of a row
    request      \* where each request is and what it has read

rows == <<variants, batch, document, moved>>

vars == <<variants, batch, document, moved, owner, request>>

Requests == Posters \cup Buyers \cup Cleaners

Nothing == [v \in {} |-> 0]

NoBatch == [payload |-> Nothing, entries |-> {}]

NoDocument == [billed |-> {}, lines |-> {}]

(* todo: the variants still to be counted for or locked.  counted: the one a*)
(* delete is counting for.  saw: the rows its counts have found.  again: an *)
(* IntegrityError has been retried.                                         *)
Fresh == [at |-> "idle", key |-> NoKey, payload |-> Nothing, targets |-> {}, todo |-> {},
          counted |-> Nobody, saw |-> {}, force |-> FALSE, again |-> FALSE, answer |-> "none"]

Init ==
    /\ variants = Variants
    /\ batch = [k \in Keys |-> NoBatch]
    /\ document = [d \in Documents |-> NoDocument]
    /\ moved = [v \in Variants |-> {}]
    /\ owner = [row \in Variants \cup {Shop} |-> Nobody]
    /\ request = [r \in Requests |-> Fresh]

-----------------------------------------------------------------------------
At(r, step) == request[r].at = step

Goes(r, change) == request' = [request EXCEPT ![r] = change]

Move(r, step) == Goes(r, [request[r] EXCEPT !.at = step])

Running(r) == ~At(r, "idle") /\ ~At(r, "done")

OnlyReads == UNCHANGED <<variants, batch, document, moved, owner>>

LocksKept(r) == owner

Released(r) == [row \in DOMAIN owner |-> IF owner[row] = r THEN Nobody ELSE owner[row]]

End(r, answer) ==
    /\ Goes(r, [Fresh EXCEPT !.at = "done", !.answer = answer])
    /\ owner' = Released(r)

RollBack(r, answer) == End(r, answer) /\ UNCHANGED rows

Free(row) == owner[row] = Nobody

Take(r, row) == Free(row) /\ owner' = [owner EXCEPT ![row] = r]

Posted == {k \in Keys : batch[k].payload # Nothing}

NothingOpened == {}

Opened == UNION {batch[k].entries : k \in Keys}

Unused == {d \in Documents : document[d] = NoDocument}

Arrive(r) ==
    /\ At(r, "idle")
    /\ Cardinality({u \in Requests : ~At(u, "idle")}) < MaxArrivals
    /\ \/ /\ r \in Posters
          /\ \E k \in Keys, payload \in Requested :
                Goes(r, [Fresh EXCEPT !.at = "shop", !.key = k, !.payload = payload])
       \/ /\ r \in Buyers
          /\ Cardinality(Unused) > Cardinality({u \in Buyers : Running(u)})
          /\ \E lines \in (SUBSET Variants) \ {{}} :
                Goes(r, [Fresh EXCEPT !.at = "variants", !.targets = lines])
       \/ /\ r \in Cleaners
          /\ \E doomed \in (SUBSET variants) \ {{}}, force \in BOOLEAN :
                Goes(r, [Fresh EXCEPT !.at = IF force THEN "documents" ELSE "movements",
                                      !.targets = doomed, !.todo = doomed, !.force = force])
    /\ OnlyReads

-----------------------------------------------------------------------------
(* post_opening_inventory.                                                  *)
LockShop(r) ==
    /\ At(r, "shop")
    /\ Take(r, Shop)
    /\ Move(r, "batch")
    /\ UNCHANGED rows

(* Only the variants and not their costs are compared.                      *)
MatchesVariants(b, payload) == b.entries = DOMAIN payload

(* _batch_matches: the entries the batch has now.                           *)
Matches(b, payload) ==
    /\ b.entries = DOMAIN payload
    /\ \A v \in b.entries : b.payload[v] = payload[v]

FindBatch(r) ==
    LET q == request[r]
    IN  /\ At(r, "batch")
        /\ IF q.key \notin Posted THEN Move(r, "variants") /\ OnlyReads
           ELSE RollBack(r, IF Matches(batch[q.key], q.payload) THEN "returned"
                            ELSE "conflict")

Lines(r) == IF r \in Posters THEN DOMAIN request[r].payload ELSE request[r].targets

(* _load_variants and _validate_variants.                                   *)
LoadVariants(r) ==
    /\ At(r, "variants")
    /\ IF ~(Lines(r) \subseteq variants) THEN RollBack(r, "missing")
       ELSE /\ Goes(r, [request[r] EXCEPT !.at = IF r \in Posters THEN "openings" ELSE "stock",
                                          !.todo = Lines(r)])
            /\ OnlyReads

LoadOpenings(r) ==
    /\ At(r, "openings")
    /\ IF Lines(r) \cap Opened # {} THEN RollBack(r, "opened")
       ELSE Move(r, "stock") /\ OnlyReads

(* add_stock, line by line.  A variant deleted since is missed either by    *)
(* _get_variant or, deleted after that, by the foreign key; the route of the*)
(* opening inventory tries an IntegrityError once more from the start.      *)
StockLine(r) ==
    /\ At(r, "stock")
    /\ \E v \in request[r].todo :
          /\ Free(v)
          /\ IF v \in variants
             THEN /\ Take(r, v)
                  /\ Goes(r, [request[r] EXCEPT !.todo = @ \ {v}])
                  /\ UNCHANGED rows
             ELSE \/ RollBack(r, "failed")
                  \/ /\ r \in Posters /\ ~request[r].again
                     /\ Goes(r, [request[r] EXCEPT !.at = "shop", !.again = TRUE, !.todo = {}])
                     /\ owner' = Released(r)
                     /\ UNCHANGED rows

Stocked(r) == At(r, "stock") /\ request[r].todo = {}

MovedBy(reference, lines) ==
    [v \in Variants |-> IF v \in lines THEN moved[v] \cup {reference} ELSE moved[v]]

WriteOpening(r) ==
    LET q == request[r]
    IN  /\ r \in Posters /\ Stocked(r)
        /\ batch' = [batch EXCEPT ![q.key] =
                        [payload |-> q.payload, entries |-> DOMAIN q.payload]]
        /\ moved' = MovedBy(q.key, DOMAIN q.payload)
        /\ End(r, "posted")
        /\ UNCHANGED <<variants, document>>

(* create_purchase.                                                         *)
WritePurchase(r) ==
    LET lines == request[r].targets
    IN  /\ r \in Buyers /\ Stocked(r)
        /\ \E d \in Unused :
              /\ document' = [document EXCEPT ![d] = [billed |-> lines, lines |-> lines]]
              /\ moved' = MovedBy(d, lines)
        /\ End(r, "posted")
        /\ UNCHANGED <<variants, batch>>

-----------------------------------------------------------------------------
(* delete_variant, delete_product: without force the history of every       *)
(* variant, with force only the documents that refer to it; then the delete.*)
NoneFound(v) == {}

MovementsOf(v) == moved[v]

DocumentsOf(v) == {d \in Documents : v \in document[d].lines}

(* Stock on hand, which here never comes without a movement.                *)
InStock(v) == MovementsOf(v) # {}

CountMovements(r) ==
    /\ At(r, "movements")
    /\ \E v \in request[r].todo :
          IF MovementsOf(v) # {} THEN RollBack(r, "refused")
          ELSE /\ Goes(r, [request[r] EXCEPT !.at = "documents", !.counted = v,
                                             !.saw = @ \cup moved[v]])
               /\ OnlyReads

CountDocuments(r) ==
    LET q == request[r]
    IN  /\ At(r, "documents")
        /\ \E v \in IF q.force THEN q.todo ELSE {q.counted} :
              IF DocumentsOf(v) # {} \/ (~q.force /\ InStock(v)) THEN RollBack(r, "refused")
              ELSE /\ Goes(r, [q EXCEPT !.todo = @ \ {v}, !.counted = Nobody,
                                        !.saw = @ \cup (moved[v] \cap Documents),
                                        !.at = CASE q.todo = {v} -> "delete"
                                                 [] q.force -> "documents"
                                                 [] OTHER -> "movements"])
                   /\ OnlyReads

(* A row that is gone already is not missed: the DELETE of it only warns.    *)
LockVariant(r) ==
    /\ At(r, "delete")
    /\ \E v \in request[r].targets \cap variants :
          /\ owner[v] # r
          /\ Take(r, v)
    /\ UNCHANGED <<rows, request>>

WriteDelete(r) ==
    LET doomed == request[r].targets
    IN  /\ At(r, "delete")
        /\ \A v \in doomed \cap variants : owner[v] = r
        /\ variants' = variants \ doomed
        /\ batch' = [k \in Keys |-> [batch[k] EXCEPT !.entries = @ \ doomed]]
        /\ document' = [d \in Documents |-> [document[d] EXCEPT !.lines = @ \ doomed]]
        /\ moved' = [v \in Variants |-> IF v \in doomed THEN {} ELSE moved[v]]
        /\ End(r, "deleted")

-----------------------------------------------------------------------------
(* A request dies with its process or connection.                           *)
Die(r) == Running(r) /\ RollBack(r, "failed")

(* The rows a request may be waiting for.                                   *)
Wanted(r) ==
    CASE At(r, "shop")   -> {Shop}
      [] At(r, "stock")  -> request[r].todo
      [] At(r, "delete") -> request[r].targets \cap variants
      [] OTHER           -> {}

WaitsFor(r) == {owner[row] : row \in Wanted(r)} \ {Nobody, r}

AheadOf(r) ==
    LET Ahead[n \in 0 .. Cardinality(Requests)] ==
            IF n = 0 THEN WaitsFor(r)
            ELSE Ahead[n - 1] \cup UNION {WaitsFor(u) : u \in Ahead[n - 1]}
    IN  Ahead[Cardinality(Requests)]

(* PostgreSQL aborts one request of a circle of waiting ones.               *)
Abort(r) == r \in AheadOf(r) /\ RollBack(r, "failed")

Work(r) ==
    \/ LockShop(r) \/ FindBatch(r) \/ LoadVariants(r) \/ LoadOpenings(r) \/ StockLine(r)
    \/ WriteOpening(r) \/ WritePurchase(r)
    \/ CountMovements(r) \/ CountDocuments(r) \/ LockVariant(r) \/ WriteDelete(r)

Next == \E r \in Requests : Arrive(r) \/ Work(r) \/ Abort(r) \/ Die(r)

Spec == Init /\ [][Next]_vars

(* Some request that can go on does, and the database breaks the circles.   *)
FairSpec == Spec /\ WF_vars(\E r \in Requests : Work(r) \/ Abort(r))

-----------------------------------------------------------------------------
(* Properties.                                                              *)

Answers == {"none", "posted", "returned", "conflict", "missing", "opened", "refused",
            "deleted", "failed"}

(* Types; a variant has one opening, by the checks under the lock of the    *)
(* shop alone (uq_opening_inventory_entries_shop_variant never has to       *)
(* refuse one); whatever refers to a variant refers to one that exists.     *)
TypeOK ==
    /\ variants \subseteq Variants
    /\ \A k \in Keys :
          /\ batch[k].payload \in Payloads \cup {Nothing}
          /\ batch[k].entries \subseteq DOMAIN batch[k].payload \cap variants
    /\ \A j, k \in Keys : j # k => batch[j].entries \cap batch[k].entries = {}
    /\ \A d \in Documents :
          /\ document[d].billed \subseteq Variants
          /\ document[d].lines \subseteq document[d].billed \cap variants
    /\ moved \in [Variants -> SUBSET (Keys \cup Documents)]
    /\ \A v \in Variants : v \notin variants => moved[v] = {}
    /\ owner \in [Variants \cup {Shop} -> Requests \cup {Nobody}]
    /\ request \in [Requests ->
          [at : {"idle", "shop", "batch", "variants", "openings", "stock", "movements",
                 "documents", "delete", "done"},
           key : Keys \cup {NoKey}, payload : Payloads \cup {Nothing},
           targets : SUBSET Variants, todo : SUBSET Variants, counted : Variants \cup {Nobody},
           saw : SUBSET (Keys \cup Documents), force : BOOLEAN, again : BOOLEAN,
           answer : Answers]]

(* "Resubmitting the same key and payload returns the committed batch;      *)
(* reusing a key with a different payload is a 409" (api/opening_inventory),*)
(* however the first answer was lost, unless a delete has taken entries of  *)
(* the batch since.                                                         *)
RetriesAreRecognised ==
    [][\A r \in Posters :
          LET q == request[r]
              b == batch[q.key]
          IN  Running(r) /\ request'[r].at = "done" /\ b.entries = DOMAIN b.payload =>
                /\ request'[r].answer \in {"posted", "returned"} =>
                      batch'[q.key].payload = q.payload
                /\ request'[r].answer \in {"conflict", "missing", "opened"} =>
                      b.payload # q.payload]_vars

Deletes(r) == At(r, "delete") /\ request'[r].answer = "deleted"

(* A delete never "silently strips lines out of that sale/purchase"         *)
(* (_variant_document_refs), unless the document was committed after it had *)
(* counted; nor entries out of a posted opening, unless that was posted     *)
(* after it had counted or the delete is forced.                            *)
DeletesSpareWhatTheySaw ==
    [][/\ \A d \in Documents :
             ~(document[d].lines \subseteq document'[d].lines) =>
                 \E r \in Cleaners : Deletes(r) /\ d \notin request[r].saw
       /\ \A k \in Keys :
             ~(batch[k].entries \subseteq batch'[k].entries) =>
                 \E r \in Cleaners :
                     Deletes(r) /\ (request[r].force \/ k \notin request[r].saw)]_vars

(* Postings, purchases and deletes lock the same rows in different orders;  *)
(* every one of them is answered in the end.                                *)
EveryRequestIsAnswered == <>[](\A r \in Requests : ~Running(r))
=============================================================================
