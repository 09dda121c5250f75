------------------------------ MODULE RowLocks ------------------------------
(***************************************************************************)
(* The row locks of every endpoint that writes the books of a shop, in the *)
(* order in which its service takes them.  Every lock is held to the end   *)
(* of the transaction.  SELECT ... FOR UPDATE and DELETE exclude every     *)
(* other lock; the foreign key of an inserted row takes FOR KEY SHARE on   *)
(* the row it refers to, which excludes only the former.  What the requests*)
(* read and write is in the other modules.                                 *)
(*                                                                         *)
(* One sale and one purchase stand for all: no request locks two documents.*)
(***************************************************************************)
EXTENDS Integers, Sequences, SequencesExt, FiniteSets

CONSTANTS
    Shop, Expense,    \* the shop row, an expenses row
    Variants,         \* the inventory rows, by their identifiers
    Sale, Purchase,   \* a document, its payment, its party and another party
    MaxArrivals       \* bound on the requests

ASSUME LocksAssumption ==
    /\ Variants \subseteq Nat
    /\ MaxArrivals \in Nat
    /\ DOMAIN Sale = {"document", "payment", "party", "other"}
    /\ DOMAIN Purchase = DOMAIN Sale

VARIABLE request   \* by order of arrival: the locks held and those to come

Sides     == {Sale, Purchase}
Documents == {side.document : side \in Sides}
Payments  == {side.payment : side \in Sides}
Parties   == {side.party : side \in Sides} \cup {side.other : side \in Sides}

Update(row) == <<[row |-> row, mode |-> "update"]>>
Share(row)  == <<[row |-> row, mode |-> "share"]>>

-----------------------------------------------------------------------------
(* The locks of each endpoint, as a set of sequences.                       *)

Optional(locks) == {<<>>, locks}

(* a \o b for every a of the one set and b of the other.                    *)
Then(first, second) == {a \o b : a \in first, b \in second}

(* A request names its variants in any order, and _combine_items keeps it.  *)
Listings == UNION {SetToSeqs(S) : S \in (SUBSET Variants) \ {{}}}

Stock(lines) == FlattenSeq([i \in DOMAIN lines |-> Update(lines[i])])

(* The first movement is flushed before the next row is locked: between the *)
(* two come the foreign keys of whatever is flushed with it.                *)
Moves(lines, flushed) == Update(Head(lines)) \o flushed \o Stock(Tail(lines))

(* A number of its own takes no lock on the shop.                           *)
CreateSale ==
    UNION {{Update(Shop) \o Moves(lines, buyer), Moves(lines, Share(Shop) \o buyer)} :
               lines \in Listings, buyer \in Optional(Share(Sale.party))}

CreatePurchase ==
    {Share(Shop) \o Share(Purchase.party) \o Stock(lines) : lines \in Listings}

(* The deltas, in the order of the identifiers.                             *)
Deltas(changed) ==
    IF changed = {} THEN <<>> ELSE Moves(SetToSortSeq(changed, <), Share(Shop))

(* A change of party repoints the payments of the document.                 *)
Repointed(side) == Optional(Share(side.other) \o Update(side.payment))

(* The cost snapshot locks all the new lines, the unchanged ones among them *)
(* for the first time and in the order of the request.                      *)
Snapshot(lines, changed) == Stock(SelectSeq(lines, LAMBDA v : v \notin changed))

UpdateSale ==
    {Update(Sale.document) \o Deltas(changed) \o Snapshot(lines, changed)
        \o repointed \o Share(Shop) :
        changed \in SUBSET Variants, lines \in Listings \cup {<<>>}, repointed \in Repointed(Sale)}

UpdatePurchase ==
    {Update(Purchase.document) \o Deltas(changed) \o repointed \o Share(Shop) :
        changed \in SUBSET Variants, repointed \in Repointed(Purchase)}

DeleteDocument(side) ==
    {Update(side.document) \o Moves(lines, Share(Shop)) \o paid :
        lines \in Listings, paid \in Optional(Update(side.payment))}

(* The document is compared with the party only under its lock.             *)
RecordPayment(side) ==
    {Update(party) \o allocated \o Share(Shop) :
        party \in {side.party, side.other}, allocated \in Optional(Update(side.document))}

VoidPayment(side) ==
    {Update(side.payment) \o allocated : allocated \in Optional(Update(side.document))}

StockBeforeDocument(side) ==
    {Stock(lines) \o Update(side.document) \o Share(Shop) \o Share(side.party) : lines \in Listings}

CreateReturn(side) ==
    {Update(side.document) \o Share(Shop) \o party \o Stock(lines) :
        party \in Optional(Share(side.party)), lines \in Listings}

AdjustStock == {Moves(<<v>>, Share(Shop)) : v \in Variants}

PostOpeningInventory == {Update(Shop) \o Stock(lines) : lines \in Listings}

SaveExpense == {Share(Shop), Update(Expense), Update(Expense) \o Share(Shop)}

Endpoints ==
    CreateSale \cup CreatePurchase \cup UpdateSale \cup UpdatePurchase
    \cup AdjustStock \cup PostOpeningInventory \cup SaveExpense
    \cup UNION {DeleteDocument(side) \cup RecordPayment(side)
                \cup VoidPayment(side) \cup CreateReturn(side) : side \in Sides}

-----------------------------------------------------------------------------
(* The transactions.                                                        *)
Requests == 1 .. MaxArrivals

Fresh == [at |-> "idle", held |-> {}, todo |-> <<>>]

Init == request = [r \in Requests |-> Fresh]

Running(r) == request[r].at = "running"

Arrive(r) ==
    /\ request[r].at = "idle"
    /\ \A u \in 1 .. r - 1 : request[u].at # "idle"
    /\ \E locks \in Endpoints :
          request' = [request EXCEPT ![r] = [at |-> "running", held |-> {}, todo |-> locks]]

Conflict(held, wanted) ==
    held.row = wanted.row /\ "update" \in {held.mode, wanted.mode}

(* The requests whose locks r waits for.                                    *)
WaitsFor(r) ==
    {u \in Requests \ {r} :
        /\ request[r].todo # <<>>
        /\ \E held \in request[u].held : Conflict(held, Head(request[r].todo))}

Lock(r) ==
    /\ request[r].todo # <<>>
    /\ WaitsFor(r) = {}
    /\ request' = [request EXCEPT ![r].held = @ \cup {Head(request[r].todo)},
                                  ![r].todo = Tail(@)]

LocksKept(r) == [request EXCEPT ![r].at = "done"]

(* COMMIT or ROLLBACK releases every lock.                                  *)
Release(r) == [request EXCEPT ![r] = [Fresh EXCEPT !.at = "done"]]

Commit(r) == Running(r) /\ request[r].todo = <<>> /\ request' = Release(r)

(* A check that fails between two locks, or a client that goes away.        *)
GiveUp(r) == Running(r) /\ request' = Release(r)

AheadOf(r) ==
    LET Ahead[n \in 0 .. MaxArrivals] ==
            IF n = 0 THEN WaitsFor(r)
            ELSE Ahead[n - 1] \cup UNION {WaitsFor(u) : u \in Ahead[n - 1]}
    IN  Ahead[MaxArrivals]

(* PostgreSQL aborts one request of a circle of waiting ones.               *)
Abort(r) == r \in AheadOf(r) /\ request' = Release(r)

Next == \E r \in Requests : Arrive(r) \/ Lock(r) \/ Commit(r) \/ GiveUp(r) \/ Abort(r)

Spec == Init /\ [][Next]_request

(* The database serves every request that can go on and finds every circle. *)
FairSpec ==
    /\ Spec
    /\ \A r \in Requests : WF_request(Lock(r) \/ Commit(r) \/ Abort(r))

-----------------------------------------------------------------------------
(* Properties.                                                              *)

TypeOK ==
    LET Locks == [row : {Shop, Expense} \cup Variants \cup Documents \cup Payments \cup Parties,
                  mode : {"update", "share"}]
    IN  \A r \in Requests :
           /\ request[r].at \in {"idle", "running", "done"}
           /\ request[r].held \subseteq Locks
           /\ Range(request[r].todo) \subseteq Locks

(* Every request is answered, though rows are locked in opposite orders.    *)
EveryRequestEnds == \A r \in Requests : Running(r) ~> request[r].at = "done"

(* Two requests wait for each other only over a payment that is voided while*)
(* its document is deleted or given to another party; over a party that     *)
(* settles a document while a return or an edit of it refers to the party;  *)
(* over the shop, held by a sale for its number or by an opening, and stock *)
(* or the customer; and over two lists of lines in different orders.  So a  *)
(* document never waits for stock that waits for it, and neither settlements*)
(* nor voids meet stock at all.                                             *)
Wanted(r) == Head(request[r].todo).row

Circles ==
    {{side.document, side.payment} : side \in Sides}
    \cup UNION {{{side.document, side.party}, {side.document, side.other}} : side \in Sides}
    \cup {{Shop, row} : row \in Variants \cup {Sale.party}}
    \cup {{v, w} : v, w \in Variants}

CirclesAreKnown ==
    \A r, u \in Requests : u \in WaitsFor(r) /\ r \in WaitsFor(u) =>
                              {Wanted(r), Wanted(u)} \in Circles

LocksInv == TypeOK /\ CirclesAreKnown
=============================================================================
