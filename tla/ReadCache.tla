----------------------------- MODULE ReadCache ------------------------------
(***************************************************************************)
(* The read cache of a shop: read-through copies of what PostgreSQL holds, *)
(* evicted by every write after its commit and dropped when their time is  *)
(* up.  One Redis serves every process, or, without one, each process has  *)
(* a store of its own that no other process can evict from.                *)
(*                                                                         *)
(* No step relates two keys, so the model follows one key, whichever it    *)
(* is, through the stores.  It keeps what a copy is worth, not the copy:   *)
(*   "current"    what the committed rows say                              *)
(*   "behind"     a commit has changed them, its eviction is on the way    *)
(*   "late"       read before a commit, stored after it                    *)
(*   "missed"     the eviction failed or its process died                  *)
(*   "elsewhere"  the commit was made by a process with another store      *)
(*   "phantom"    read from rows no transaction has committed              *)
(***************************************************************************)
EXTENDS FiniteSets, Naturals, SequencesExt

CONSTANTS
    Customers, Suppliers, Variants, NoParty,
    Stores,      \* {the Redis}, or the processes
    Requests,
    Operations,  \* which groups of endpoints are in use
    Faulty       \* whether Redis may fail and processes die

ASSUME CacheAssumption ==
    /\ IsFiniteSet(Variants)
    /\ NoParty \notin Customers \cup Suppliers
    /\ Operations \subseteq {"books", "stock", "names", "catalog", "assistant"}
    /\ Faulty \in BOOLEAN

VARIABLES
    key,      \* the key the behaviour follows
    entry,    \* of each store: what its copy of the key is worth
    request   \* where each request is, what it has read, flushed or to evict

vars == <<key, entry, request>>

-----------------------------------------------------------------------------
(* The keys, a family with one entry per set of filters counting as one,   *)
(* and the facts their loaders read.                                        *)

Whole(family) == <<family, NoParty>>

Keys ==
    {Whole(family) : family \in {"dashboard", "financial", "inventories", "product", "products",
                                 "sales", "purchases", "expenses"}}
    \cup {<<"customer", c>> : c \in Customers}
    \cup {<<"supplier", s>> : s \in Suppliers}
    \cup {<<family, v>> : family \in {"inventory", "variant"}, v \in Variants}

Facts(names, ids) == {<<name, id>> : name \in names, id \in ids}

All(name) ==
    Facts({name}, CASE name \in {"khata", "customer name"}   -> Customers
                    [] name \in {"payable", "supplier name"} -> Suppliers
                    [] name \in {"stock", "variant"}         -> Variants
                    [] OTHER                                 -> {NoParty})

AllOf(names) == UNION {All(name) : name \in names}

(* What each loader reads.                                                  *)
DashboardReads == AllOf({"sales", "purchases", "ledger", "stock", "khata", "payable"})

FinancialReads == AllOf({"ledger", "khata", "payable"})

CustomerReads(c) == Facts({"khata", "customer name"}, {c})

SupplierReads(s) == Facts({"payable", "supplier name"}, {s})

InventoryReads(v) == Facts({"stock", "variant"}, {v}) \cup AllOf({"product", "classification"})

InventoryListReads == AllOf({"stock", "variant", "product", "classification"})

VariantReads(v) == Facts({"variant"}, {v})

ProductReads == AllOf({"product", "variant", "classification"})

ProductListReads == AllOf({"product", "variant", "classification"})

SalesReads == AllOf({"sales", "customer name"})

PurchasesReads == AllOf({"purchases", "supplier name"})

ExpensesReads == All("expenses")

Reads(k) ==
    CASE k[1] = "dashboard"   -> DashboardReads
      [] k[1] = "financial"   -> FinancialReads
      [] k[1] = "customer"    -> CustomerReads(k[2])
      [] k[1] = "supplier"    -> SupplierReads(k[2])
      [] k[1] = "inventory"   -> InventoryReads(k[2])
      [] k[1] = "inventories" -> InventoryListReads
      [] k[1] = "variant"     -> VariantReads(k[2])
      [] k[1] = "product"     -> ProductReads
      [] k[1] = "products"    -> ProductListReads
      [] k[1] = "sales"       -> SalesReads
      [] k[1] = "purchases"   -> PurchasesReads
      [] k[1] = "expenses"    -> ExpensesReads

Affects(facts) == facts \cap Reads(key) # {}

-----------------------------------------------------------------------------
(* What is evicted after a commit, in the order of the code.                *)

InSomeOrder(S) == FoldSet(LAMBDA x, seq : Append(seq, x), <<>>, S)

Summaries == <<Whole("dashboard"), Whole("financial")>>

(* Each variant's key, then the lists, when there is a variant at all.      *)
StockKeys(vs) ==
    IF vs = {} THEN <<>>
    ELSE InSomeOrder({<<"inventory", v>> : v \in vs}) \o <<Whole("inventories")>>

PartyKey(family, party) == IF party = NoParty THEN <<>> ELSE <<<<family, party>>>>


PreviousKey(family, before, after) ==
    IF before = after THEN <<>> ELSE PartyKey(family, before)

AfterSale(c, vs) == PartyKey("customer", c) \o StockKeys(vs) \o Summaries \o <<Whole("sales")>>

AfterPurchase(s, vs) ==
    PartyKey("supplier", s) \o StockKeys(vs) \o Summaries \o <<Whole("purchases")>>

AfterCustomerPayment(c) == PartyKey("customer", c) \o Summaries \o <<Whole("sales")>>

AfterSupplierPayment(s) == PartyKey("supplier", s) \o Summaries \o <<Whole("purchases")>>

AfterPaymentVoid(c, s) ==
    (IF c = NoParty THEN <<>> ELSE <<<<"customer", c>>, Whole("sales")>>)
    \o (IF s = NoParty THEN <<>> ELSE <<<<"supplier", s>>, Whole("purchases")>>)
    \o Summaries

AfterExpense == <<Whole("expenses")>> \o Summaries

ProductLists == <<Whole("products")>>

AfterVariant(v) ==
    <<Whole("product"), <<"variant", v>>>> \o ProductLists
    \o <<<<"inventory", v>>, Whole("inventories")>>

(* invalidate_shop_reads: every key of the shop.                            *)
ShopReads == InSomeOrder(Keys)

-----------------------------------------------------------------------------
Idle == [at |-> "idle", store |-> CHOOSE st \in Stores : TRUE,
         copy |-> "none", flushed |-> {}, evict |-> <<>>]

Init ==
    /\ key \in Keys
    /\ entry = [st \in Stores |-> "none"]
    /\ request = [r \in Requests |-> Idle]

At(r, place) == request[r].at = place

Become(r, record) == request' = [request EXCEPT ![r] = record]

(* A commit of these facts: copies of the key, stored or on the way to be,  *)
(* no longer say what the rows say.                                         *)
Outdated(facts, store) ==
    entry' = [st \in Stores |->
                 IF entry[st] = "none" \/ ~Affects(facts) THEN entry[st]
                 ELSE IF st = store THEN "behind" ELSE "elsewhere"]

Overtaken(facts, u) ==
    IF At(u, "loaded") /\ Affects(facts) THEN [request[u] EXCEPT !.copy = "late"] ELSE request[u]

(* db.commit, then the evictions.                                           *)
CommitThenEvict(r, store, facts, keys) ==
    /\ Outdated(facts, store)
    /\ request' = [u \in Requests |->
                      IF u = r THEN [Idle EXCEPT !.at = "evicting", !.store = store, !.evict = keys]
                      ELSE Overtaken(facts, u)]
    /\ UNCHANGED key

-----------------------------------------------------------------------------
(* Reading: get_json, the loader, set_json.  A hit changes nothing.         *)

AlwaysIdle(r) == "idle"

(* A read is over; the request of an assistant still has its transaction.   *)
Rest(r) == IF request[r].flushed = {} THEN "idle" ELSE "open"

Done(r) == Become(r, [request[r] EXCEPT !.at = Rest(r), !.copy = "none"])

Get(r, st) ==
    /\ At(r, "idle") \/ (At(r, "open") /\ st = request[r].store)
    /\ entry[st] = "none" \/ Faulty
    /\ Become(r, [request[r] EXCEPT !.at = "missed", !.store = st])
    /\ UNCHANGED <<key, entry>>

(* The committed rows and what the transaction itself has flushed.          *)
Load(r) ==
    /\ At(r, "missed")
    /\ Become(r, [request[r] EXCEPT !.at = "loaded",
                     !.copy = IF Affects(request[r].flushed) THEN "phantom" ELSE "current"])
    /\ UNCHANGED <<key, entry>>

Store(r) ==
    /\ At(r, "loaded")
    /\ entry' = [entry EXCEPT ![request[r].store] = request[r].copy]
    /\ Done(r)
    /\ UNCHANGED key

StoreFails(r) ==
    /\ Faulty
    /\ At(r, "loaded")
    /\ Done(r)
    /\ UNCHANGED <<key, entry>>

KeptForever(st) == FALSE

(* ex=ttl in Redis, expires_at in the memory store.                         *)
HasExpiry(st) == entry[st] # "none"

Expire(st) ==
    /\ HasExpiry(st)
    /\ entry' = [entry EXCEPT ![st] = "none"]
    /\ UNCHANGED <<key, request>>

-----------------------------------------------------------------------------
(* Writing.  Each endpoint commits its facts and evicts its keys.           *)

Write(r, facts, keys) ==
    /\ At(r, "idle")
    /\ \E st \in Stores : CommitThenEvict(r, st, facts, keys)

Stock(vs) == Facts({"stock"}, vs)

Of(name, party) == IF party = NoParty THEN {} ELSE {<<name, party>>}

SaleFacts(c, vs) == Of("khata", c) \cup Stock(vs) \cup AllOf({"sales", "ledger"})

PurchaseFacts(s, vs) == Of("payable", s) \cup Stock(vs) \cup AllOf({"purchases", "ledger"})

(* create_sale, delete_sale, create_sale_return                             *)
SaleCommitted(r, c, vs) == Write(r, SaleFacts(c, vs), AfterSale(c, vs))

(* update_sale: the customer and the items before and after.                *)
SaleUpdated(r, before, c, vs) ==
    Write(r, SaleFacts(before, vs) \cup SaleFacts(c, vs),
          AfterSale(c, vs) \o PreviousKey("customer", before, c))

PurchaseCommitted(r, s, vs) == Write(r, PurchaseFacts(s, vs), AfterPurchase(s, vs))

PurchaseUpdated(r, before, s, vs) ==
    Write(r, PurchaseFacts(before, vs) \cup PurchaseFacts(s, vs),
          AfterPurchase(s, vs) \o PreviousKey("supplier", before, s))

CustomerPaid(r, c) == Write(r, SaleFacts(c, {}), AfterCustomerPayment(c))

SupplierPaid(r, s) == Write(r, PurchaseFacts(s, {}), AfterSupplierPayment(s))

PaymentVoided(r, c, s) ==
    Write(r, (IF c = NoParty THEN {} ELSE SaleFacts(c, {}))
             \cup (IF s = NoParty THEN {} ELSE PurchaseFacts(s, {})),
          AfterPaymentVoid(c, s))

ExpenseCommitted(r) == Write(r, AllOf({"expenses", "ledger"}), AfterExpense)

StockAdjusted(r, v) ==
    Write(r, Stock({v}), <<<<"inventory", v>>, Whole("inventories")>> \o Summaries)

OpeningPosted(r, vs) == Write(r, Stock(vs) \cup All("ledger"), StockKeys(vs) \o Summaries)

VariantSaved(r, v) == Write(r, Facts({"variant"}, {v}), AfterVariant(v))

CustomerRenamed(r, c) == Write(r, Facts({"customer name"}, {c}), PartyKey("customer", c))

SupplierRenamed(r, s) == Write(r, Facts({"supplier name"}, {s}), PartyKey("supplier", s))

(* Forced deletes: the stock rows go with the variant.                      *)
VariantDeleted(r, v) == Write(r, Facts({"variant", "stock"}, {v}), AfterVariant(v))

(* PATCH and forced DELETE of a product; the delete cascades to variants.   *)
ProductSaved(r) == Write(r, All("product"), <<Whole("product")>> \o ProductLists)

ProductDeleted(r) ==
    Write(r, AllOf({"product", "variant", "stock"}), <<Whole("product")>> \o ProductLists)

(* Categories, brands and attributes: invalidate_product without a product. *)
ClassificationSaved(r) == Write(r, All("classification"), ProductLists)

(* The forced delete of a category takes its products, and theirs, along.   *)
CategoryDeleted(r) ==
    Write(r, AllOf({"classification", "product", "variant", "stock"}), ProductLists)

WriteBooks(r) ==
    \/ \E c \in Customers \cup {NoParty}, vs \in (SUBSET Variants) \ {{}} :
          SaleCommitted(r, c, vs) \/ \E before \in Customers \cup {NoParty} : SaleUpdated(r, before, c, vs)
    \/ \E s \in Suppliers \cup {NoParty}, vs \in (SUBSET Variants) \ {{}} :
          PurchaseCommitted(r, s, vs) \/ \E before \in Suppliers \cup {NoParty} : PurchaseUpdated(r, before, s, vs)
    \/ \E c \in Customers : CustomerPaid(r, c) \/ PaymentVoided(r, c, NoParty)
    \/ \E s \in Suppliers : SupplierPaid(r, s) \/ PaymentVoided(r, NoParty, s)
    \/ ExpenseCommitted(r)

WriteStock(r) ==
    \/ \E v \in Variants : StockAdjusted(r, v) \/ VariantSaved(r, v)
    \/ \E vs \in (SUBSET Variants) \ {{}} : OpeningPosted(r, vs)

WriteNames(r) ==
    \/ \E c \in Customers : CustomerRenamed(r, c)
    \/ \E s \in Suppliers : SupplierRenamed(r, s)

WriteCatalog(r) ==
    \/ \E v \in Variants : VariantDeleted(r, v)
    \/ ProductSaved(r)
    \/ ProductDeleted(r)
    \/ ClassificationSaved(r)
    \/ CategoryDeleted(r)

(* An approved tool of the assistant flushes into the transaction of its    *)
(* request, which goes on reading through the cache.                        *)
Flush(r, facts) ==
    /\ At(r, "idle") \/ At(r, "open")
    /\ Become(r, [request[r] EXCEPT !.at = "open", !.flushed = @ \cup facts])
    /\ UNCHANGED <<key, entry>>

AssistantFlushes(r) ==
    \/ \E c \in Customers : Flush(r, SaleFacts(c, Variants))
    \/ \E s \in Suppliers : Flush(r, PurchaseFacts(s, Variants))
    \/ Flush(r, AllOf({"expenses", "ledger"}))

AssistantCommits(r) ==
    /\ At(r, "open")
    /\ CommitThenEvict(r, request[r].store, request[r].flushed, ShopReads)

(* An error of the provider, or a resume that pauses again: nothing evicted.*)
AssistantRollsBack(r) ==
    /\ At(r, "open")
    /\ Become(r, Idle)
    /\ UNCHANGED <<key, entry>>

-----------------------------------------------------------------------------
(* Evictions, one call after the other.                                     *)

Evicted(r) ==
    LET rest == Tail(request[r].evict)
    IN  Become(r, IF rest = <<>> THEN Idle ELSE [request[r] EXCEPT !.evict = rest])

Delete(r) ==
    /\ At(r, "evicting")
    /\ entry' = [entry EXCEPT ![request[r].store] =
                    IF Head(request[r].evict) = key THEN "none" ELSE @]
    /\ Evicted(r)
    /\ UNCHANGED key

Unevicted(st, keys) ==
    entry' = [entry EXCEPT ![st] = IF @ = "behind" /\ key \in ToSet(keys) THEN "missed" ELSE @]

DeleteFails(r) ==
    /\ Faulty
    /\ At(r, "evicting")
    /\ Unevicted(request[r].store, <<Head(request[r].evict)>>)
    /\ Evicted(r)
    /\ UNCHANGED key

(* The process dies between its commit and its last eviction.               *)
Die(r) ==
    /\ Faulty
    /\ At(r, "evicting")
    /\ Unevicted(request[r].store, request[r].evict)
    /\ Become(r, Idle)
    /\ UNCHANGED key

-----------------------------------------------------------------------------
Read(r) == (\E st \in Stores : Get(r, st)) \/ Load(r) \/ Store(r) \/ StoreFails(r)

Evict(r) == Delete(r) \/ DeleteFails(r) \/ Die(r)

Assist(r) == AssistantFlushes(r) \/ AssistantCommits(r) \/ AssistantRollsBack(r)

Next ==
    \/ \E r \in Requests :
          \/ Read(r)
          \/ Evict(r)
          \/ "books" \in Operations /\ WriteBooks(r)
          \/ "stock" \in Operations /\ WriteStock(r)
          \/ "names" \in Operations /\ WriteNames(r)
          \/ "catalog" \in Operations /\ WriteCatalog(r)
          \/ "assistant" \in Operations /\ Assist(r)
    \/ \E st \in Stores : Expire(st)

(* A request goes on; Redis and the clock expire what has a time to live.   *)
Fairness ==
    /\ \A r \in Requests : WF_vars(Load(r) \/ Store(r) \/ StoreFails(r))
    /\ \A st \in Stores : WF_vars(Expire(st))

Spec == Init /\ [][Next]_vars

FairSpec == Spec /\ Fairness

-----------------------------------------------------------------------------
(* Properties.                                                              *)

Worth == {"none", "current", "behind", "late", "missed", "elsewhere", "phantom"}

TypeOK ==
    /\ key \in Keys
    /\ entry \in [Stores -> Worth]
    /\ \A r \in Requests :
          /\ At(r, "loaded") <=> request[r].copy \in {"current", "late", "phantom"}
          /\ At(r, "evicting") <=> request[r].evict # <<>>
          /\ At(r, "idle") \/ At(r, "evicting") => request[r].flushed = {}
          /\ At(r, "open") => request[r].flushed # {}
          /\ request[r].store \in Stores

ToBeEvicted(st) == \E r \in Requests : request[r].store = st /\ key \in ToSet(request[r].evict)

(* Every write evicts, from the store of its process, every key whose       *)
(* loader reads what it changed, but for these, the only ways an outdated   *)
(* copy is not about to be evicted:                                         *)
(*   a party renamed          the lists of sales or of purchases            *)
(*   a product saved          its stock keys, which show its name           *)
(*   a classification saved   the stock keys and the product                *)
(*   a variant deleted        the dashboard, which counts its stock         *)
(*   a product deleted        the stock keys, its variants', the dashboard  *)
(*   a category deleted       these and the product: all but the lists      *)
Forgotten(st) == entry[st] = "behind" /\ ~ToBeEvicted(st)

StockViews == {"inventory", "inventories"}

OneOf(families) == key[1] \in families


(* A rolled-back write leaves nothing in the cache (service.py: it "only    *)
(* over-evicts"): a copy of uncommitted rows goes with their transaction.   *)
NothingRolledBackStays ==
    \A st \in Stores :
        entry[st] = "phantom" => \E r \in Requests : Affects(request[r].flushed)

(* Once the writes stop, whatever went wrong before, every store comes to   *)
(* hold nothing but current copies.                                         *)
Still == \A r \in Requests : request[r].flushed = {} /\ ~At(r, "evicting")

UpToDate == \A st \in Stores : entry[st] \in {"none", "current"}

Settles == (<>[]Still) => <>[]UpToDate
=============================================================================
