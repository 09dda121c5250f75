--------------------------- MODULE CatalogProofs ---------------------------
(***************************************************************************)
(* Proofs about the catalog: a variant is opened once, a repeated posting  *)
(* is recognised, and a delete spares what its counts have found.          *)
(***************************************************************************)
EXTENDS Catalog, TLAPS

Steps == {"idle", "shop", "batch", "variants", "openings", "stock", "movements",
          "documents", "delete", "done"}

RequestRows ==
    [at : Steps, key : Keys \cup {NoKey}, payload : Payloads \cup {Nothing},
     targets : SUBSET Variants, todo : SUBSET Variants, counted : Variants \cup {Nobody},
     saw : SUBSET (Keys \cup Documents), force : BOOLEAN, again : BOOLEAN, answer : Answers]

Types ==
    /\ variants \in SUBSET Variants
    /\ batch \in [Keys -> [payload : Payloads \cup {Nothing}, entries : SUBSET Variants]]
    /\ document \in [Documents -> [billed : SUBSET Variants, lines : SUBSET Variants]]
    /\ moved \in [Variants -> SUBSET (Keys \cup Documents)]
    /\ owner \in [Variants \cup {Shop} -> Requests \cup {Nobody}]
    /\ request \in [Requests -> RequestRows]

(* What refers to a variant refers to one that exists.                      *)
NothingDangles ==
    /\ \A k \in Keys : batch[k].entries \subseteq DOMAIN batch[k].payload \cap variants
    /\ \A d \in Documents : document[d].lines \subseteq document[d].billed \cap variants
    /\ \A v \in Variants : v \notin variants => moved[v] = {}

OpenedOnce == \A j, k \in Keys : j # k => batch[j].entries \cap batch[k].entries = {}

(* Whatever a document has moved it still has a line for.                   *)
MovesHaveLines == \A v \in Variants : moved[v] \cap Documents \subseteq DocumentsOf(v)

RowsInv == Types /\ NothingDangles /\ OpenedOnce /\ MovesHaveLines

(* Where a request of each endpoint can be.                                 *)
PlaceInv(r) ==
    /\ request[r].at \in {"shop", "batch", "openings"} => r \in Posters
    /\ request[r].at \in {"variants", "stock"} => r \in Posters \cup Buyers
    /\ request[r].at \in {"movements", "documents", "delete"} => r \in Cleaners
    /\ r \in Posters /\ Running(r) => request[r].key \in Keys /\ request[r].payload \in Payloads

(* What a posting has read is so while it holds the row of the shop.        *)
PostingInv(r) ==
    r \in Posters =>
        /\ request[r].at \in {"batch", "variants", "openings", "stock"} => owner[Shop] = r
        /\ request[r].at \in {"variants", "openings", "stock"} => request[r].key \notin Posted
        /\ At(r, "stock") => Lines(r) \cap Opened = {}

(* A variant whose row is locked stays.                                     *)
LinesInv(r) ==
    request[r].at \in {"openings", "stock"} =>
        \A v \in Lines(r) \ request[r].todo : owner[v] = r /\ v \in variants

(* A count that finds something refuses, so a delete goes on having found   *)
(* nothing.                                                                 *)
CountInv(r) ==
    /\ request[r].saw = {}
    /\ At(r, "documents") /\ ~request[r].force => request[r].counted \in Variants

RequestInv(r) == PlaceInv(r) /\ PostingInv(r) /\ LinesInv(r) /\ CountInv(r)

CatalogInv == RowsInv /\ \A r \in Requests : RequestInv(r)

(* What a step of r leaves to the others.                                   *)
Spares(r) ==
    /\ \A u \in Requests : u # r => request'[u] = request[u]
    /\ \A row \in Variants \cup {Shop} :
          owner[row] \notin {Nobody, r} => owner'[row] = owner[row]
    /\ owner[Shop] # r =>
          \A k \in Keys : /\ batch'[k].payload = batch[k].payload
                          /\ batch'[k].entries \subseteq batch[k].entries
    /\ \A v \in variants : owner[v] # r => v \in variants'

KeptBy(r) == RowsInv' /\ RequestInv(r)' /\ Spares(r)

-----------------------------------------------------------------------------
(* The pieces of a step.                                                    *)

(* The payload of a posting is not that of no posting.                      *)
LEMMA PayloadsHaveLines ==
    ASSUME NEW p \in Payloads
    PROVE  /\ DOMAIN p \in (SUBSET Variants) \ {{}}
           /\ p \in [DOMAIN p -> Costs]
           /\ p # Nothing
<1>1. PICK S \in (SUBSET Variants) \ {{}} : p \in [S -> Costs]
  BY DEF Payloads
<1>2. DOMAIN p = S
  BY <1>1
<1>3. DOMAIN Nothing = {}
  BY DEF Nothing
<1> QED
  BY <1>1, <1>2, <1>3

(* What is read of a request and of a batch.                                *)
LEMMA RequestType ==
    ASSUME Types, NEW r \in Requests
    PROVE  request[r] \in RequestRows
BY DEF Types

(* The rows are as well as they were when none of them is written.          *)
LEMMA UnwrittenRows ==
    ASSUME RowsInv, UNCHANGED rows,
           owner' \in [Variants \cup {Shop} -> Requests \cup {Nobody}],
           request' \in [Requests -> RequestRows]
    PROVE  RowsInv'
<1>1. Types'
  BY DEF RowsInv, Types, rows
<1>2. NothingDangles' /\ OpenedOnce'
  BY DEF RowsInv, NothingDangles, OpenedOnce, rows
<1>3. MovesHaveLines'
  BY DEF RowsInv, MovesHaveLines, DocumentsOf, rows
<1> QED
  BY <1>1, <1>2, <1>3 DEF RowsInv

(* A request writes its own row of the table of requests.                   *)
LEMMA GoesType ==
    ASSUME Types, NEW r \in Requests, NEW change \in RequestRows, Goes(r, change)
    PROVE  /\ request' \in [Requests -> RequestRows]
           /\ request'[r] = change
           /\ \A u \in Requests : u # r => request'[u] = request[u]
BY DEF Types, Goes

(* A request at its end holds nothing and remembers nothing.                *)
LEMMA FreshType ==
    ASSUME NEW step \in Steps, NEW answer \in Answers
    PROVE  [Fresh EXCEPT !.at = step, !.answer = answer] \in RequestRows
BY DEF Fresh, RequestRows, Steps, Answers

(* The locks of a request go when it ends, and only they.                   *)
LEMMA ReleasedType ==
    ASSUME Types, NEW r \in Requests
    PROVE  /\ Released(r) \in [Variants \cup {Shop} -> Requests \cup {Nobody}]
           /\ \A row \in Variants \cup {Shop} : owner[row] # r => Released(r)[row] = owner[row]
BY DEF Types, Released

(* What a request that ends is asked for.                                   *)
LEMMA EndKeeps ==
    ASSUME Types, NEW r \in Requests, NEW answer \in Answers, End(r, answer)
    PROVE  /\ owner' \in [Variants \cup {Shop} -> Requests \cup {Nobody}]
           /\ request' \in [Requests -> RequestRows]
           /\ request'[r].at = "done" /\ request'[r].answer = answer
           /\ RequestInv(r)'
           /\ \A u \in Requests : u # r => request'[u] = request[u]
           /\ \A row \in Variants \cup {Shop} :
                 owner[row] \notin {Nobody, r} => owner'[row] = owner[row]
<1> DEFINE last == [Fresh EXCEPT !.at = "done", !.answer = answer]
<1>1. last \in RequestRows
  BY FreshType DEF Steps
<1>2. last.at = "done" /\ last.answer = answer /\ last.saw = {}
  BY DEF Fresh
<1>3. Goes(r, last) /\ owner' = Released(r)
  BY DEF End
<1> HIDE DEF last
<1>4. /\ request' \in [Requests -> RequestRows]
      /\ request'[r] = last
      /\ \A u \in Requests : u # r => request'[u] = request[u]
  BY <1>1, <1>3, GoesType
<1>5. RequestInv(r)'
  BY <1>2, <1>4 DEF RequestInv, PlaceInv, PostingInv, LinesInv, CountInv, At, Running
<1> QED
  BY <1>2, <1>3, <1>4, <1>5, ReleasedType

(* A request that is rolled back.                                           *)
LEMMA RollBackKeeps ==
    ASSUME RowsInv, NEW r \in Requests, NEW answer \in Answers, RollBack(r, answer)
    PROVE  KeptBy(r)
<1>1. End(r, answer) /\ UNCHANGED rows
  BY DEF RollBack
<1>2. Types
  BY DEF RowsInv
<1>3. RowsInv'
  BY <1>1, <1>2, EndKeeps, UnwrittenRows
<1>4. Spares(r)
  BY <1>1, <1>2, EndKeeps DEF Spares, rows
<1> QED
  BY <1>1, <1>2, <1>3, <1>4, EndKeeps DEF KeptBy

(* A request that reads, or takes the lock of one row.                      *)
LEMMA ReadKeeps ==
    ASSUME RowsInv, NEW r \in Requests, NEW change \in RequestRows, Goes(r, change),
           UNCHANGED rows, RequestInv(r)',
           owner' = owner \/ \E row \in Variants \cup {Shop} : Take(r, row)
    PROVE  KeptBy(r)
<1>1. Types
  BY DEF RowsInv
<1>2. owner' \in [Variants \cup {Shop} -> Requests \cup {Nobody}]
  BY <1>1 DEF Types, Take
<1>3. \A row \in Variants \cup {Shop} : owner[row] \notin {Nobody, r} => owner'[row] = owner[row]
  BY <1>1 DEF Types, Take, Free
<1>4. RowsInv'
  BY <1>1, <1>2, GoesType, UnwrittenRows
<1>5. Spares(r)
  BY <1>1, <1>3, GoesType DEF Spares, rows
<1> QED
  BY <1>4, <1>5 DEF KeptBy

(* The others still know what they knew.                                    *)
LEMMA OthersKeep ==
    ASSUME CatalogInv, NEW r \in Requests, Spares(r), RowsInv', NEW u \in Requests, u # r
    PROVE  RequestInv(u)'
<1>1. request'[u] = request[u] /\ RequestInv(u) /\ u # Nobody /\ Types /\ Types'
  BY CatalogAssumption DEF CatalogInv, Spares, RowsInv, Requests
<1>2. PlaceInv(u)' /\ CountInv(u)'
  BY <1>1 DEF RequestInv, PlaceInv, CountInv, Running, At
<1>3. LinesInv(u)'
  <2>1. SUFFICES ASSUME request'[u].at \in {"openings", "stock"},
                        NEW v \in Lines(u)' \ request'[u].todo
                 PROVE  owner'[v] = u /\ v \in variants'
    BY DEF LinesInv
  <2>2. Lines(u)' = Lines(u)
    BY <1>1 DEF Lines
  <2>3. owner[v] = u /\ v \in variants
    BY <1>1, <2>1, <2>2 DEF RequestInv, LinesInv, At
  <2>4. v \in Variants
    BY <1>1, <2>3 DEF Types
  <2> QED
    BY <1>1, <2>3, <2>4 DEF Spares
<1>4. PostingInv(u)'
  <2>1. SUFFICES ASSUME u \in Posters, request[u].at \in {"batch", "variants", "openings", "stock"}
                 PROVE  PostingInv(u)'
    BY <1>1 DEF PostingInv, At
  <2>2. owner[Shop] = u
    BY <1>1, <2>1 DEF RequestInv, PostingInv
  <2>3. owner'[Shop] = u
    BY <1>1, <2>2 DEF Spares
  <2>4. \A k \in Keys : /\ batch'[k].payload = batch[k].payload
                        /\ batch'[k].entries \subseteq batch[k].entries
    BY <2>2 DEF Spares
  <2>5. Posted' = Posted /\ Opened' \subseteq Opened
    BY <2>4 DEF Posted, Opened
  <2>6. Lines(u)' = Lines(u)
    BY <1>1 DEF Lines
  <2> QED
    BY <1>1, <2>3, <2>5, <2>6 DEF RequestInv, PostingInv, At
<1> QED
  BY <1>2, <1>3, <1>4 DEF RequestInv

-----------------------------------------------------------------------------
(* What each step keeps.                                                    *)

(* The facts a step of r starts from.                                       *)
LEMMA AtHome ==
    ASSUME CatalogInv, NEW r \in Requests
    PROVE  /\ RowsInv /\ Types /\ request[r] \in RequestRows
           /\ PlaceInv(r) /\ PostingInv(r) /\ LinesInv(r) /\ CountInv(r)
BY RequestType DEF CatalogInv, RowsInv, RequestInv

(* A request arrives having read nothing.                                   *)
LEMMA ArriveKeeps ==
    ASSUME CatalogInv, NEW r \in Requests, Arrive(r)
    PROVE  KeptBy(r)
<1>1. RowsInv /\ Types /\ OnlyReads
  BY AtHome DEF Arrive
<1>2. UNCHANGED rows /\ owner' = owner
  BY <1>1 DEF OnlyReads, rows
<1>3. CASE r \in Posters /\ \E k \in Keys, payload \in Requested :
               Goes(r, [Fresh EXCEPT !.at = "shop", !.key = k, !.payload = payload])
  <2>1. PICK k \in Keys, payload \in Requested :
            Goes(r, [Fresh EXCEPT !.at = "shop", !.key = k, !.payload = payload])
    BY <1>3
  <2> DEFINE come == [Fresh EXCEPT !.at = "shop", !.key = k, !.payload = payload]
  <2>2. payload \in Payloads /\ come \in RequestRows
    BY CatalogAssumption DEF Fresh, RequestRows, Steps, Answers
  <2>3. come.at = "shop" /\ come.key = k /\ come.payload = payload /\ come.saw = {}
    BY DEF Fresh
  <2> HIDE DEF come
  <2>4. request'[r] = come
    BY <1>1, <2>1, <2>2, GoesType DEF come
  <2>5. RequestInv(r)'
    BY <1>3, <2>2, <2>3, <2>4 DEF RequestInv, PlaceInv, PostingInv, LinesInv, CountInv, At, Running
  <2> QED
    BY <1>1, <1>2, <2>1, <2>2, <2>5, ReadKeeps DEF come
<1>4. CASE r \in Buyers /\ \E lines \in (SUBSET Variants) \ {{}} :
               Goes(r, [Fresh EXCEPT !.at = "variants", !.targets = lines])
  <2>1. PICK lines \in (SUBSET Variants) \ {{}} :
            Goes(r, [Fresh EXCEPT !.at = "variants", !.targets = lines])
    BY <1>4
  <2> DEFINE come == [Fresh EXCEPT !.at = "variants", !.targets = lines]
  <2>2. come \in RequestRows
    BY DEF Fresh, RequestRows, Steps, Answers
  <2>3. come.at = "variants" /\ come.saw = {}
    BY DEF Fresh
  <2> HIDE DEF come
  <2>4. request'[r] = come
    BY <1>1, <2>1, <2>2, GoesType DEF come
  <2>5. r \notin Posters
    BY <1>4, CatalogAssumption
  <2>6. RequestInv(r)'
    BY <1>4, <2>3, <2>4, <2>5 DEF RequestInv, PlaceInv, PostingInv, LinesInv, CountInv, At, Running
  <2> QED
    BY <1>1, <1>2, <2>1, <2>2, <2>6, ReadKeeps DEF come
<1>5. CASE r \in Cleaners /\ \E doomed \in (SUBSET variants) \ {{}}, force \in BOOLEAN :
               Goes(r, [Fresh EXCEPT !.at = IF force THEN "documents" ELSE "movements",
                                     !.targets = doomed, !.todo = doomed, !.force = force])
  <2>1. PICK doomed \in (SUBSET variants) \ {{}}, force \in BOOLEAN :
            Goes(r, [Fresh EXCEPT !.at = IF force THEN "documents" ELSE "movements",
                                  !.targets = doomed, !.todo = doomed, !.force = force])
    BY <1>5
  <2> DEFINE come == [Fresh EXCEPT !.at = IF force THEN "documents" ELSE "movements",
                                   !.targets = doomed, !.todo = doomed, !.force = force]
  <2>2. doomed \subseteq Variants
    BY <1>1 DEF Types
  <2>3. come \in RequestRows
    BY <2>2 DEF Fresh, RequestRows, Steps, Answers
  <2>4. /\ come.at = IF force THEN "documents" ELSE "movements"
        /\ come.force = force /\ come.saw = {}
    BY DEF Fresh
  <2> HIDE DEF come
  <2>5. request'[r] = come
    BY <1>1, <2>1, <2>3, GoesType DEF come
  <2>6. r \notin Posters
    BY <1>5, CatalogAssumption
  <2>7. RequestInv(r)'
    BY <1>5, <2>4, <2>5, <2>6 DEF RequestInv, PlaceInv, PostingInv, LinesInv, CountInv, At, Running
  <2> QED
    BY <1>1, <1>2, <2>1, <2>3, <2>7, ReadKeeps DEF come
<1> QED
  BY <1>3, <1>4, <1>5 DEF Arrive

(* A request that only moves on keeps its row of the table well typed.      *)
LEMMA MoveType ==
    ASSUME Types, NEW r \in Requests, NEW step \in Steps, Move(r, step)
    PROVE  /\ request' \in [Requests -> RequestRows]
           /\ request'[r] = [request[r] EXCEPT !.at = step]
           /\ request'[r].at = step
           /\ request'[r].key = request[r].key /\ request'[r].payload = request[r].payload
           /\ request'[r].targets = request[r].targets /\ request'[r].todo = request[r].todo
           /\ request'[r].counted = request[r].counted /\ request'[r].saw = request[r].saw
           /\ request'[r].force = request[r].force
           /\ [request[r] EXCEPT !.at = step] \in RequestRows
           /\ Goes(r, [request[r] EXCEPT !.at = step])
<1>1. request[r] \in RequestRows
  BY RequestType
<1> DEFINE change == [request[r] EXCEPT !.at = step]
<1>2. /\ change \in RequestRows
      /\ change.at = step
      /\ change.key = request[r].key /\ change.payload = request[r].payload
      /\ change.targets = request[r].targets /\ change.todo = request[r].todo
      /\ change.counted = request[r].counted /\ change.saw = request[r].saw
      /\ change.force = request[r].force
  BY <1>1 DEF RequestRows
<1>3. Goes(r, change)
  BY DEF Move
<1> HIDE DEF change
<1>4. request' \in [Requests -> RequestRows] /\ request'[r] = change
  BY <1>2, <1>3, GoesType
<1> QED
  BY <1>2, <1>3, <1>4 DEF change

(* The shop row is locked before anything is read.                          *)
LEMMA LockShopKeeps ==
    ASSUME CatalogInv, NEW r \in Requests, LockShop(r)
    PROVE  KeptBy(r)
<1>1. /\ RowsInv /\ Types /\ PlaceInv(r) /\ CountInv(r)
      /\ At(r, "shop") /\ Take(r, Shop) /\ Move(r, "batch") /\ UNCHANGED rows
  BY AtHome DEF LockShop
<1>2. r \in Posters /\ request[r].key \in Keys /\ request[r].payload \in Payloads
  BY <1>1 DEF PlaceInv, At, Running
<1>3. owner'[Shop] = r
  BY <1>1 DEF Take, Types
<1>4. "batch" \in Steps
  BY DEF Steps
<1>5. /\ request'[r].at = "batch" /\ request'[r].key = request[r].key
      /\ request'[r].payload = request[r].payload /\ request'[r].saw = request[r].saw
  BY <1>1, <1>4, MoveType
<1>6. RequestInv(r)'
  BY <1>1, <1>2, <1>3, <1>5
     DEF RequestInv, PlaceInv, PostingInv, LinesInv, CountInv, At, Running
<1> QED
  BY <1>1, <1>4, <1>6, MoveType, ReadKeeps

(* The batch of a key is looked for under the lock of the shop.             *)
LEMMA FindBatchKeeps ==
    ASSUME CatalogInv, NEW r \in Requests, FindBatch(r)
    PROVE  KeptBy(r)
<1>1. /\ RowsInv /\ Types /\ PlaceInv(r) /\ PostingInv(r) /\ CountInv(r) /\ At(r, "batch")
  BY AtHome DEF FindBatch
<1>2. CASE request[r].key \in Posted
  <2>1. RollBack(r, "returned") \/ RollBack(r, "conflict")
    BY <1>2 DEF FindBatch
  <2>2. {"returned", "conflict"} \subseteq Answers
    BY DEF Answers
  <2> QED
    BY <1>1, <2>1, <2>2, RollBackKeeps
<1>3. CASE request[r].key \notin Posted
  <2>1. Move(r, "variants") /\ UNCHANGED rows /\ owner' = owner /\ batch' = batch
    BY <1>3 DEF FindBatch, OnlyReads, rows
  <2>2. /\ r \in Posters /\ request[r].key \in Keys /\ request[r].payload \in Payloads
        /\ owner[Shop] = r
    BY <1>1 DEF PlaceInv, PostingInv, At, Running
  <2>3. "variants" \in Steps
    BY DEF Steps
  <2>4. /\ request'[r].at = "variants" /\ request'[r].key = request[r].key
        /\ request'[r].payload = request[r].payload /\ request'[r].saw = request[r].saw
    BY <1>1, <2>1, <2>3, MoveType
  <2>5. Posted' = Posted
    BY <2>1 DEF Posted
  <2>6. RequestInv(r)'
    BY <1>1, <1>3, <2>1, <2>2, <2>4, <2>5
       DEF RequestInv, PlaceInv, PostingInv, LinesInv, CountInv, At, Running
  <2> QED
    BY <1>1, <2>1, <2>3, <2>6, MoveType, ReadKeeps
<1> QED
  BY <1>2, <1>3

(* The variants of the lines are loaded.                                    *)
LEMMA LoadVariantsKeeps ==
    ASSUME CatalogInv, NEW r \in Requests, LoadVariants(r)
    PROVE  KeptBy(r)
<1>1. /\ RowsInv /\ Types /\ request[r] \in RequestRows
      /\ PlaceInv(r) /\ PostingInv(r) /\ CountInv(r) /\ At(r, "variants")
  BY AtHome DEF LoadVariants
<1>2. CASE ~(Lines(r) \subseteq variants)
  <2>1. RollBack(r, "missing") /\ "missing" \in Answers
    BY <1>2 DEF LoadVariants, Answers
  <2> QED
    BY <1>1, <2>1, RollBackKeeps
<1>3. CASE Lines(r) \subseteq variants
  <2> DEFINE step == IF r \in Posters THEN "openings" ELSE "stock"
             change == [request[r] EXCEPT !.at = step, !.todo = Lines(r)]
  <2>1. Goes(r, change) /\ UNCHANGED rows /\ owner' = owner /\ batch' = batch
    BY <1>3 DEF LoadVariants, OnlyReads, rows
  <2>2. Lines(r) \in SUBSET Variants
    BY <1>1, <1>3 DEF Types
  <2>3. change \in RequestRows
    BY <1>1, <2>2 DEF RequestRows, Steps
  <2>4. /\ change.at = step /\ change.todo = Lines(r) /\ change.key = request[r].key
        /\ change.payload = request[r].payload /\ change.targets = request[r].targets
        /\ change.saw = request[r].saw
    BY <1>1, <2>2 DEF RequestRows
  <2> HIDE DEF change
  <2>5. request'[r] = change
    BY <1>1, <2>1, <2>3, GoesType
  <2>6. Lines(r)' = Lines(r)
    BY <2>4, <2>5 DEF Lines
  <2>7. Posted' = Posted
    BY <2>1 DEF Posted
  <2>8. PlaceInv(r)' /\ LinesInv(r)' /\ CountInv(r)'
    BY <1>1, <2>4, <2>5, <2>6 DEF PlaceInv, LinesInv, CountInv, At, Running
  <2>9. PostingInv(r)'
    BY <1>1, <2>1, <2>4, <2>5, <2>7 DEF PostingInv, At
  <2> QED
    BY <1>1, <2>1, <2>3, <2>8, <2>9, ReadKeeps DEF RequestInv
<1> QED
  BY <1>2, <1>3

(* The openings the lines have already are loaded.                          *)
LEMMA LoadOpeningsKeeps ==
    ASSUME CatalogInv, NEW r \in Requests, LoadOpenings(r)
    PROVE  KeptBy(r)
<1>1. /\ RowsInv /\ Types /\ request[r] \in RequestRows
      /\ PlaceInv(r) /\ PostingInv(r) /\ LinesInv(r) /\ CountInv(r) /\ At(r, "openings")
  BY AtHome DEF LoadOpenings
<1>2. CASE Lines(r) \cap Opened # {}
  <2>1. RollBack(r, "opened") /\ "opened" \in Answers
    BY <1>2 DEF LoadOpenings, Answers
  <2> QED
    BY <1>1, <2>1, RollBackKeeps
<1>3. CASE Lines(r) \cap Opened = {}
  <2>1. Move(r, "stock") /\ UNCHANGED rows /\ owner' = owner /\ batch' = batch
    BY <1>3 DEF LoadOpenings, OnlyReads, rows
  <2>2. /\ r \in Posters /\ request[r].key \in Keys /\ request[r].payload \in Payloads
        /\ owner[Shop] = r /\ request[r].key \notin Posted
    BY <1>1 DEF PlaceInv, PostingInv, At, Running
  <2>3. "stock" \in Steps
    BY DEF Steps
  <2>4. /\ request'[r].at = "stock" /\ request'[r].key = request[r].key
        /\ request'[r].payload = request[r].payload /\ request'[r].todo = request[r].todo
        /\ request'[r].targets = request[r].targets /\ request'[r].saw = request[r].saw
    BY <1>1, <2>1, <2>3, MoveType
  <2>5. Posted' = Posted /\ Opened' = Opened
    BY <2>1 DEF Posted, Opened
  <2>6. Lines(r)' = Lines(r)
    BY <2>4 DEF Lines
  <2>7. variants' = variants
    BY <2>1 DEF rows
  <2>8. PlaceInv(r)' /\ CountInv(r)'
    BY <1>1, <2>2, <2>4 DEF PlaceInv, CountInv, At, Running
  <2>9. PostingInv(r)'
    BY <1>3, <2>1, <2>2, <2>4, <2>5, <2>6 DEF PostingInv, At
  <2>10. LinesInv(r)'
    BY <1>1, <2>1, <2>4, <2>6, <2>7 DEF LinesInv, At
  <2> QED
    BY <1>1, <2>1, <2>3, <2>8, <2>9, <2>10, MoveType, ReadKeeps DEF RequestInv
<1> QED
  BY <1>2, <1>3

(* One more line gets its stock: both row locks are held to the end.        *)
LEMMA StockLineKeeps ==
    ASSUME CatalogInv, NEW r \in Requests, StockLine(r)
    PROVE  KeptBy(r)
<1>1. /\ RowsInv /\ Types /\ request[r] \in RequestRows
      /\ PlaceInv(r) /\ PostingInv(r) /\ LinesInv(r) /\ CountInv(r) /\ At(r, "stock")
  BY AtHome DEF StockLine
<1>2. PICK v \in request[r].todo :
          /\ Free(v)
          /\ IF v \in variants
             THEN /\ Take(r, v)
                  /\ Goes(r, [request[r] EXCEPT !.todo = @ \ {v}])
                  /\ UNCHANGED rows
             ELSE \/ RollBack(r, "failed")
                  \/ /\ r \in Posters /\ ~request[r].again
                     /\ Goes(r, [request[r] EXCEPT !.at = "shop", !.again = TRUE, !.todo = {}])
                     /\ owner' = Released(r)
                     /\ UNCHANGED rows
  BY DEF StockLine
<1>3. v \in Variants /\ v # Shop
  BY <1>1, CatalogAssumption DEF RequestRows
<1>4. CASE v \in variants
  <2> DEFINE change == [request[r] EXCEPT !.todo = @ \ {v}]
  <2>1. Take(r, v) /\ Goes(r, change) /\ UNCHANGED rows /\ variants' = variants /\ batch' = batch
    BY <1>2, <1>4 DEF rows
  <2>2. /\ change \in RequestRows
        /\ change.at = "stock" /\ change.todo = request[r].todo \ {v}
        /\ change.key = request[r].key /\ change.payload = request[r].payload
        /\ change.targets = request[r].targets /\ change.saw = request[r].saw
    BY <1>1 DEF RequestRows, At
  <2> HIDE DEF change
  <2>3. request'[r] = change
    BY <1>1, <2>1, <2>2, GoesType
  <2>4. \A row \in Variants \cup {Shop} : owner'[row] = IF row = v THEN r ELSE owner[row]
    BY <1>1, <1>3, <2>1 DEF Take, Types
  <2>5. Lines(r)' = Lines(r) /\ Posted' = Posted /\ Opened' = Opened
    BY <2>1, <2>2, <2>3 DEF Lines, Posted, Opened
  <2>6. PlaceInv(r)' /\ CountInv(r)'
    BY <1>1, <2>2, <2>3 DEF PlaceInv, CountInv, At, Running
  <2>7. PostingInv(r)'
    BY <1>1, <1>3, <2>2, <2>3, <2>4, <2>5 DEF PostingInv, At
  <2>8. LinesInv(r)'
    BY <1>1, <1>4, <2>1, <2>2, <2>3, <2>4, <2>5 DEF LinesInv, At, Types
  <2> QED
    BY <1>1, <1>3, <2>1, <2>2, <2>6, <2>7, <2>8, ReadKeeps DEF RequestInv
<1>5. CASE v \notin variants /\ RollBack(r, "failed")
  <2>1. "failed" \in Answers
    BY DEF Answers
  <2> QED
    BY <1>1, <1>5, <2>1, RollBackKeeps
<1>6. CASE /\ r \in Posters
           /\ Goes(r, [request[r] EXCEPT !.at = "shop", !.again = TRUE, !.todo = {}])
           /\ owner' = Released(r)
           /\ UNCHANGED rows
  <2> DEFINE change == [request[r] EXCEPT !.at = "shop", !.again = TRUE, !.todo = {}]
  <2>1. /\ change \in RequestRows
        /\ change.at = "shop" /\ change.key = request[r].key
        /\ change.payload = request[r].payload /\ change.saw = request[r].saw
    BY <1>1 DEF RequestRows, Steps
  <2>2. Goes(r, change)
    BY <1>6
  <2> HIDE DEF change
  <2>3. /\ request' \in [Requests -> RequestRows] /\ request'[r] = change
        /\ \A u \in Requests : u # r => request'[u] = request[u]
    BY <1>1, <2>1, <2>2, GoesType
  <2>4. RequestInv(r)'
    BY <1>1, <1>6, <2>1, <2>3
       DEF RequestInv, PlaceInv, PostingInv, LinesInv, CountInv, At, Running
  <2>5. RowsInv'
    BY <1>1, <1>6, <2>3, ReleasedType, UnwrittenRows
  <2>6. Spares(r)
    BY <1>1, <1>6, <2>3, ReleasedType DEF Spares, rows
  <2> QED
    BY <2>4, <2>5, <2>6 DEF KeptBy
<1> QED
  BY <1>2, <1>4, <1>5, <1>6

(* The references that are added are to the lines of what is written.       *)
LEMMA MovedByType ==
    ASSUME Types, NEW reference \in Keys \cup Documents, NEW lines \in SUBSET Variants
    PROVE  /\ MovedBy(reference, lines) \in [Variants -> SUBSET (Keys \cup Documents)]
           /\ \A v \in Variants :
                 MovedBy(reference, lines)[v] =
                     IF v \in lines THEN moved[v] \cup {reference} ELSE moved[v]
BY DEF Types, MovedBy

(* A posting writes a batch whose key and whose variants were not posted:   *)
(* the row of the shop has been held since both were read.                  *)
LEMMA WriteOpeningKeeps ==
    ASSUME CatalogInv, NEW r \in Requests, WriteOpening(r)
    PROVE  KeptBy(r)
<1> DEFINE key == request[r].key
           payload == request[r].payload
           new == [payload |-> payload, entries |-> DOMAIN payload]
<1>1. /\ RowsInv /\ Types /\ request[r] \in RequestRows /\ PlaceInv(r) /\ PostingInv(r)
      /\ LinesInv(r) /\ At(r, "stock") /\ r \in Posters /\ request[r].todo = {}
      /\ batch' = [batch EXCEPT ![key] = new]
      /\ moved' = MovedBy(key, DOMAIN payload)
      /\ End(r, "posted") /\ variants' = variants /\ document' = document
  BY AtHome DEF WriteOpening, Stocked
<1>2. /\ key \in Keys /\ payload \in Payloads /\ owner[Shop] = r /\ key \notin Posted
      /\ Lines(r) = DOMAIN payload /\ Lines(r) \cap Opened = {}
  BY <1>1 DEF PlaceInv, PostingInv, At, Running, Lines
<1>3. DOMAIN payload \subseteq variants
  BY <1>1, <1>2 DEF LinesInv, At
<1>4. DOMAIN payload \in SUBSET Variants /\ key \notin Documents
  BY <1>1, <1>2, <1>3, CatalogAssumption DEF Types
<1> HIDE DEF key, payload
<1>5. new \in [payload : Payloads \cup {Nothing}, entries : SUBSET Variants]
  BY <1>2, <1>4
<1>6. /\ batch' \in [Keys -> [payload : Payloads \cup {Nothing}, entries : SUBSET Variants]]
      /\ \A k \in Keys : batch'[k] = IF k = key THEN new ELSE batch[k]
  BY <1>1, <1>2, <1>5 DEF Types
<1>7. /\ moved' \in [Variants -> SUBSET (Keys \cup Documents)]
      /\ \A v \in Variants :
            moved'[v] = IF v \in DOMAIN payload THEN moved[v] \cup {key} ELSE moved[v]
  <2> DEFINE lines == DOMAIN payload
  <2>1. Types /\ key \in Keys \cup Documents /\ lines \in SUBSET Variants
    BY <1>1, <1>2, <1>4
  <2>2. moved' = MovedBy(key, lines)
    BY <1>1
  <2> HIDE DEF lines
  <2>3. /\ moved' \in [Variants -> SUBSET (Keys \cup Documents)]
        /\ \A v \in Variants :
              moved'[v] = IF v \in lines THEN moved[v] \cup {key} ELSE moved[v]
    BY <2>1, <2>2, MovedByType
  <2> QED
    BY <2>3 DEF lines
<1>8. "posted" \in Answers
  BY DEF Answers
<1>9. /\ owner' \in [Variants \cup {Shop} -> Requests \cup {Nobody}]
      /\ request' \in [Requests -> RequestRows]
      /\ RequestInv(r)'
      /\ \A u \in Requests : u # r => request'[u] = request[u]
      /\ \A row \in Variants \cup {Shop} :
            owner[row] \notin {Nobody, r} => owner'[row] = owner[row]
  BY <1>1, <1>8, EndKeeps
<1>10. Types'
  BY <1>1, <1>6, <1>7, <1>9 DEF Types
<1>11. NothingDangles'
  BY <1>1, <1>3, <1>6, <1>7 DEF RowsInv, NothingDangles
<1>12. OpenedOnce'
  BY <1>1, <1>2, <1>6 DEF RowsInv, OpenedOnce, Opened
<1>13. MovesHaveLines'
  BY <1>1, <1>4, <1>7 DEF RowsInv, MovesHaveLines, DocumentsOf
<1>14. Spares(r)
  BY <1>1, <1>2, <1>9 DEF Spares
<1> QED
  BY <1>9, <1>10, <1>11, <1>12, <1>13, <1>14 DEF KeptBy, RowsInv

(* A purchase writes a document that had no lines.                          *)
LEMMA WritePurchaseKeeps ==
    ASSUME CatalogInv, NEW r \in Requests, WritePurchase(r)
    PROVE  KeptBy(r)
<1> DEFINE lines == request[r].targets
           new == [billed |-> lines, lines |-> lines]
<1>1. /\ RowsInv /\ Types /\ request[r] \in RequestRows /\ LinesInv(r) /\ At(r, "stock")
      /\ r \in Buyers /\ request[r].todo = {}
      /\ End(r, "posted") /\ variants' = variants /\ batch' = batch
  BY AtHome DEF WritePurchase, Stocked
<1>2. PICK d \in Unused : document' = [document EXCEPT ![d] = new] /\ moved' = MovedBy(d, lines)
  BY DEF WritePurchase
<1>3. d \in Documents /\ document[d].lines = {} /\ d \notin Keys
  BY CatalogAssumption DEF Unused, NoDocument
<1>4. Lines(r) = lines
  BY <1>1, CatalogAssumption DEF Lines
<1>5. lines \subseteq variants /\ lines \in SUBSET Variants
  BY <1>1, <1>4 DEF LinesInv, At, RequestRows
<1> HIDE DEF lines
<1>6. /\ document' \in [Documents -> [billed : SUBSET Variants, lines : SUBSET Variants]]
      /\ \A c \in Documents : document'[c] = IF c = d THEN new ELSE document[c]
  BY <1>1, <1>2, <1>3, <1>5 DEF Types
<1>7. /\ moved' \in [Variants -> SUBSET (Keys \cup Documents)]
      /\ \A v \in Variants : moved'[v] = IF v \in lines THEN moved[v] \cup {d} ELSE moved[v]
  <2>1. Types /\ d \in Keys \cup Documents /\ lines \in SUBSET Variants
    BY <1>1, <1>3, <1>5
  <2>2. moved' = MovedBy(d, lines)
    BY <1>2
  <2> QED
    BY <2>1, <2>2, MovedByType
<1>8. "posted" \in Answers
  BY DEF Answers
<1>9. /\ owner' \in [Variants \cup {Shop} -> Requests \cup {Nobody}]
      /\ request' \in [Requests -> RequestRows]
      /\ RequestInv(r)'
      /\ \A u \in Requests : u # r => request'[u] = request[u]
      /\ \A row \in Variants \cup {Shop} :
            owner[row] \notin {Nobody, r} => owner'[row] = owner[row]
  BY <1>1, <1>8, EndKeeps
<1>10. Types'
  BY <1>1, <1>6, <1>7, <1>9 DEF Types
<1>11. NothingDangles'
  BY <1>1, <1>5, <1>6, <1>7 DEF RowsInv, NothingDangles
<1>12. OpenedOnce'
  BY <1>1 DEF RowsInv, OpenedOnce
<1>13. MovesHaveLines'
  BY <1>1, <1>3, <1>6, <1>7 DEF RowsInv, MovesHaveLines, DocumentsOf
<1>14. Spares(r)
  BY <1>1, <1>9 DEF Spares
<1> QED
  BY <1>9, <1>10, <1>11, <1>12, <1>13, <1>14 DEF KeptBy, RowsInv

(* A count of movements goes on when there are none.                        *)
LEMMA CountMovementsKeeps ==
    ASSUME CatalogInv, NEW r \in Requests, CountMovements(r)
    PROVE  KeptBy(r)
<1>1. /\ RowsInv /\ Types /\ request[r] \in RequestRows
      /\ PlaceInv(r) /\ CountInv(r) /\ At(r, "movements")
  BY AtHome DEF CountMovements
<1>2. PICK v \in request[r].todo :
          IF MovementsOf(v) # {} THEN RollBack(r, "refused")
          ELSE /\ Goes(r, [request[r] EXCEPT !.at = "documents", !.counted = v,
                                             !.saw = @ \cup moved[v]])
               /\ OnlyReads
  BY DEF CountMovements
<1>3. v \in Variants /\ r \in Cleaners /\ r \notin Posters
  BY <1>1, CatalogAssumption DEF RequestRows, PlaceInv, At
<1>4. CASE MovementsOf(v) # {}
  <2>1. RollBack(r, "refused") /\ "refused" \in Answers
    BY <1>2, <1>4 DEF Answers
  <2> QED
    BY <1>1, <2>1, RollBackKeeps
<1>5. CASE MovementsOf(v) = {}
  <2> DEFINE change == [request[r] EXCEPT !.at = "documents", !.counted = v,
                                          !.saw = @ \cup moved[v]]
  <2>1. moved[v] = {}
    BY <1>5 DEF MovementsOf
  <2>2. Goes(r, change) /\ UNCHANGED rows /\ owner' = owner
    BY <1>2, <1>5 DEF OnlyReads, rows
  <2>3. /\ change \in RequestRows
        /\ change.at = "documents" /\ change.counted = v /\ change.saw = {}
    BY <1>1, <1>3, <2>1 DEF RequestRows, Steps, CountInv
  <2> HIDE DEF change
  <2>4. request'[r] = change
    BY <1>1, <2>2, <2>3, GoesType
  <2>5. RequestInv(r)'
    BY <1>3, <2>3, <2>4 DEF RequestInv, PlaceInv, PostingInv, LinesInv, CountInv, At, Running
  <2> QED
    BY <1>1, <2>2, <2>3, <2>5, ReadKeeps
<1> QED
  BY <1>4, <1>5

(* A count of documents goes on when there are none.                        *)
LEMMA CountDocumentsKeeps ==
    ASSUME CatalogInv, NEW r \in Requests, CountDocuments(r)
    PROVE  KeptBy(r)
<1> DEFINE q == request[r]
           change(v) == [q EXCEPT !.todo = @ \ {v}, !.counted = Nobody,
                                  !.saw = @ \cup (moved[v] \cap Documents),
                                  !.at = CASE q.todo = {v} -> "delete"
                                           [] q.force -> "documents"
                                           [] OTHER -> "movements"]
<1>1. /\ RowsInv /\ Types /\ q \in RequestRows
      /\ PlaceInv(r) /\ CountInv(r) /\ At(r, "documents")
  BY AtHome DEF CountDocuments
<1>2. PICK v \in IF q.force THEN q.todo ELSE {q.counted} :
          IF DocumentsOf(v) # {} \/ (~q.force /\ InStock(v)) THEN RollBack(r, "refused")
          ELSE Goes(r, change(v)) /\ OnlyReads
  BY DEF CountDocuments
<1>3. v \in Variants /\ r \in Cleaners /\ r \notin Posters
  BY <1>1, <1>2, CatalogAssumption DEF RequestRows, PlaceInv, CountInv, At
<1>4. CASE DocumentsOf(v) # {} \/ (~q.force /\ InStock(v))
  <2>1. RollBack(r, "refused") /\ "refused" \in Answers
    BY <1>2, <1>4 DEF Answers
  <2> QED
    BY <1>1, <2>1, RollBackKeeps
<1>5. CASE ~(DocumentsOf(v) # {} \/ (~q.force /\ InStock(v)))
  <2>1. moved[v] \cap Documents = {}
    BY <1>1, <1>3, <1>5 DEF RowsInv, MovesHaveLines
  <2>2. Goes(r, change(v)) /\ UNCHANGED rows /\ owner' = owner
    BY <1>2, <1>5 DEF OnlyReads, rows
  <2> DEFINE next == CASE q.todo = {v} -> "delete"
                       [] q.force -> "documents"
                       [] OTHER -> "movements"
  <2>3. /\ next \in {"delete", "documents", "movements"}
        /\ next = "documents" => q.force
    BY <1>1 DEF RequestRows
  <2>4. change(v) = [q EXCEPT !.todo = @ \ {v}, !.counted = Nobody,
                              !.saw = @ \cup (moved[v] \cap Documents), !.at = next]
    OBVIOUS
  <2> HIDE DEF next
  <2>5. /\ change(v) \in RequestRows
        /\ change(v).at = next /\ change(v).force = q.force /\ change(v).saw = {}
    <3> DEFINE late == [q EXCEPT !.todo = @ \ {v}, !.counted = Nobody,
                                 !.saw = @ \cup (moved[v] \cap Documents), !.at = next]
    <3>1. q.saw \cup (moved[v] \cap Documents) = {} /\ next \in Steps
      BY <1>1, <2>1, <2>3 DEF CountInv, Steps
    <3>2. late \in RequestRows /\ late.at = next /\ late.force = q.force /\ late.saw = {}
      BY <1>1, <3>1 DEF RequestRows
    <3> QED
      BY <2>4, <3>2
  <2> HIDE DEF change
  <2>6. request'[r] = change(v)
    BY <1>1, <2>2, <2>5, GoesType
  <2>7. RequestInv(r)'
    BY <1>3, <2>3, <2>5, <2>6
       DEF RequestInv, PlaceInv, PostingInv, LinesInv, CountInv, At, Running
  <2> QED
    BY <1>1, <2>2, <2>5, <2>7, ReadKeeps
<1> QED
  BY <1>4, <1>5

(* A delete locks the rows it takes away.                                   *)
LEMMA LockVariantKeeps ==
    ASSUME CatalogInv, NEW r \in Requests, LockVariant(r)
    PROVE  KeptBy(r)
<1>1. /\ RowsInv /\ Types /\ request[r] \in RequestRows
      /\ PlaceInv(r) /\ CountInv(r) /\ At(r, "delete")
      /\ UNCHANGED rows /\ request' = request
  BY AtHome DEF LockVariant
<1>2. PICK v \in request[r].targets \cap variants : Take(r, v)
  BY DEF LockVariant
<1>3. v \in Variants /\ r \in Cleaners /\ r \notin Posters
  BY <1>1, CatalogAssumption DEF RequestRows, PlaceInv, At
<1>4. Goes(r, request[r])
  BY <1>1 DEF Goes, Types
<1>5. RequestInv(r)'
  BY <1>1, <1>3 DEF RequestInv, PlaceInv, PostingInv, LinesInv, CountInv, At, Running
<1> QED
  BY <1>1, <1>2, <1>3, <1>4, <1>5, ReadKeeps

(* A delete takes away its variants and all that refers to them.            *)
LEMMA WriteDeleteKeeps ==
    ASSUME CatalogInv, NEW r \in Requests, WriteDelete(r)
    PROVE  KeptBy(r)
<1> DEFINE doomed == request[r].targets
<1>1. /\ RowsInv /\ Types /\ request[r] \in RequestRows /\ At(r, "delete")
      /\ \A v \in doomed \cap variants : owner[v] = r
      /\ variants' = variants \ doomed
      /\ batch' = [k \in Keys |-> [batch[k] EXCEPT !.entries = @ \ doomed]]
      /\ document' = [d \in Documents |-> [document[d] EXCEPT !.lines = @ \ doomed]]
      /\ moved' = [v \in Variants |-> IF v \in doomed THEN {} ELSE moved[v]]
      /\ End(r, "deleted")
  BY AtHome DEF WriteDelete
<1> HIDE DEF doomed
<1>2. /\ batch' \in [Keys -> [payload : Payloads \cup {Nothing}, entries : SUBSET Variants]]
      /\ \A k \in Keys : /\ batch'[k].payload = batch[k].payload
                         /\ batch'[k].entries = batch[k].entries \ doomed
  BY <1>1 DEF Types
<1>3. /\ document' \in [Documents -> [billed : SUBSET Variants, lines : SUBSET Variants]]
      /\ \A d \in Documents : /\ document'[d].billed = document[d].billed
                              /\ document'[d].lines = document[d].lines \ doomed
  BY <1>1 DEF Types
<1>4. /\ moved' \in [Variants -> SUBSET (Keys \cup Documents)]
      /\ \A v \in Variants : moved'[v] = IF v \in doomed THEN {} ELSE moved[v]
  BY <1>1 DEF Types
<1>5. "deleted" \in Answers
  BY DEF Answers
<1>6. /\ owner' \in [Variants \cup {Shop} -> Requests \cup {Nobody}]
      /\ request' \in [Requests -> RequestRows]
      /\ RequestInv(r)'
      /\ \A u \in Requests : u # r => request'[u] = request[u]
      /\ \A row \in Variants \cup {Shop} :
            owner[row] \notin {Nobody, r} => owner'[row] = owner[row]
  BY <1>1, <1>5, EndKeeps
<1>7. Types'
  BY <1>1, <1>2, <1>3, <1>4, <1>6 DEF Types
<1>8. NothingDangles'
  BY <1>1, <1>2, <1>3, <1>4 DEF RowsInv, NothingDangles
<1>9. OpenedOnce'
  BY <1>1, <1>2 DEF RowsInv, OpenedOnce
<1>10. MovesHaveLines'
  BY <1>1, <1>3, <1>4 DEF RowsInv, MovesHaveLines, DocumentsOf
<1>11. Spares(r)
  BY <1>1, <1>2, <1>6 DEF Spares
<1> QED
  BY <1>6, <1>7, <1>8, <1>9, <1>10, <1>11 DEF KeptBy, RowsInv

(* Every step of a request keeps the rows and what the request knows, and   *)
(* spares the others.                                                       *)
LEMMA StepKeeps ==
    ASSUME CatalogInv, NEW r \in Requests, Arrive(r) \/ Work(r) \/ Abort(r) \/ Die(r)
    PROVE  KeptBy(r)
<1>1. RowsInv /\ "failed" \in Answers
  BY AtHome DEF Answers
<1>2. CASE Abort(r) \/ Die(r)
  <2>1. RollBack(r, "failed")
    BY <1>2 DEF Abort, Die
  <2> QED
    BY <1>1, <2>1, RollBackKeeps
<1>3. CASE Arrive(r)
  BY <1>3, ArriveKeeps
<1>4. CASE Work(r)
  BY <1>4, LockShopKeeps, FindBatchKeeps, LoadVariantsKeeps, LoadOpeningsKeeps, StockLineKeeps,
     WriteOpeningKeeps, WritePurchaseKeeps, CountMovementsKeeps, CountDocumentsKeeps,
     LockVariantKeeps, WriteDeleteKeeps DEF Work
<1> QED
  BY <1>2, <1>3, <1>4

(* The catalog begins well.                                                 *)
LEMMA InitCatalog == Init => CatalogInv
<1> SUFFICES ASSUME Init PROVE CatalogInv
  OBVIOUS
<1>1. Nothing \in Payloads \cup {Nothing} /\ DOMAIN Nothing = {}
  BY DEF Nothing
<1>2. Fresh \in RequestRows /\ Fresh.at = "idle" /\ Fresh.saw = {}
  BY DEF Fresh, RequestRows, Steps, Answers
<1>3. NoBatch \in [payload : Payloads \cup {Nothing}, entries : SUBSET Variants]
  BY <1>1 DEF NoBatch
<1>4. NoDocument \in [billed : SUBSET Variants, lines : SUBSET Variants]
  BY DEF NoDocument
<1>5. Types
  BY <1>2, <1>3, <1>4 DEF Init, Types
<1>6. \A k \in Keys : batch[k].entries = {}
  BY DEF Init, NoBatch
<1>7. \A d \in Documents : document[d].lines = {}
  BY DEF Init, NoDocument
<1>8. NothingDangles /\ OpenedOnce /\ MovesHaveLines
  BY <1>6, <1>7 DEF Init, NothingDangles, OpenedOnce, MovesHaveLines
<1>9. ASSUME NEW r \in Requests PROVE RequestInv(r)
  <2>1. request[r].at = "idle" /\ request[r].saw = {}
    BY <1>2 DEF Init
  <2> QED
    BY <2>1 DEF RequestInv, PlaceInv, PostingInv, LinesInv, CountInv, At, Running
<1> QED
  BY <1>5, <1>8, <1>9 DEF CatalogInv, RowsInv

(* The invariant is inductive.                                              *)
LEMMA NextCatalog == CatalogInv /\ [Next]_vars => CatalogInv'
<1> SUFFICES ASSUME CatalogInv, [Next]_vars PROVE CatalogInv'
  OBVIOUS
<1>1. CASE UNCHANGED vars
  <2>1. Types'
    BY <1>1 DEF CatalogInv, RowsInv, Types, vars
  <2>2. NothingDangles' /\ OpenedOnce' /\ MovesHaveLines'
    BY <1>1 DEF CatalogInv, RowsInv, NothingDangles, OpenedOnce, MovesHaveLines, DocumentsOf, vars
  <2>3. ASSUME NEW r \in Requests PROVE RequestInv(r)'
    BY <1>1 DEF CatalogInv, RequestInv, PlaceInv, PostingInv, LinesInv, CountInv,
       At, Running, Lines, Posted, Opened, vars
  <2> QED
    BY <2>1, <2>2, <2>3 DEF CatalogInv, RowsInv
<1>2. CASE Next
  <2>1. PICK r \in Requests : Arrive(r) \/ Work(r) \/ Abort(r) \/ Die(r)
    BY <1>2 DEF Next
  <2>2. KeptBy(r)
    BY <2>1, StepKeeps
  <2>3. ASSUME NEW u \in Requests PROVE RequestInv(u)'
    BY <2>2, OthersKeep DEF KeptBy
  <2> QED
    BY <2>2, <2>3 DEF KeptBy, CatalogInv
<1> QED
  BY <1>1, <1>2

LEMMA CatalogHolds == Spec => []CatalogInv
BY InitCatalog, NextCatalog, PTL DEF Spec

(* Types; a variant is in the opening of one batch at most, by the checks   *)
(* made under the lock of the shop alone; and whatever refers to a variant  *)
(* refers to one that exists.                                               *)
THEOREM VariantsAreOpenedOnce == Spec => []TypeOK
<1>1. CatalogInv => TypeOK
  <2> SUFFICES ASSUME CatalogInv PROVE TypeOK
    OBVIOUS
  <2>1. Types /\ NothingDangles /\ OpenedOnce
    BY DEF CatalogInv, RowsInv
  <2>2. /\ \A k \in Keys : batch[k].payload \in Payloads \cup {Nothing}
        /\ \A d \in Documents : document[d].billed \subseteq Variants
    BY <2>1 DEF Types
  <2> QED
    BY <2>1, <2>2 DEF TypeOK, Types, NothingDangles, OpenedOnce, RequestRows, Steps
<1> QED
  BY <1>1, CatalogHolds, PTL

-----------------------------------------------------------------------------
(* What the answers to a posting say.                                       *)
Recognised(r) ==
    LET q == request[r]
        b == batch[q.key]
    IN  Running(r) /\ request'[r].at = "done" /\ b.entries = DOMAIN b.payload =>
          /\ request'[r].answer \in {"posted", "returned"} => batch'[q.key].payload = q.payload
          /\ request'[r].answer \in {"conflict", "missing", "opened"} => b.payload # q.payload

(* A rolled back request answers what it is rolled back with.               *)
LEMMA RolledBack ==
    ASSUME Types, NEW r \in Requests, NEW answer \in Answers, RollBack(r, answer)
    PROVE  request'[r].answer = answer /\ batch' = batch
BY EndKeeps DEF RollBack, rows

(* A batch that has all its entries is the payload exactly when it matches. *)
LEMMA MatchesMeans ==
    ASSUME Types, NEW k \in Keys, batch[k].entries = DOMAIN batch[k].payload,
           NEW payload \in Payloads, k \in Posted
    PROVE  Matches(batch[k], payload) <=> batch[k].payload = payload
<1>1. batch[k].payload \in Payloads
  BY DEF Types, Posted
<1> DEFINE p == batch[k].payload
<1>2. p \in [DOMAIN p -> Costs] /\ payload \in [DOMAIN payload -> Costs]
  BY <1>1, PayloadsHaveLines
<1> HIDE DEF p
<1>3. (DOMAIN p = DOMAIN payload /\ \A v \in DOMAIN p : p[v] = payload[v]) <=> p = payload
  BY <1>2
<1> QED
  BY <1>3 DEF Matches, p

(* The answer of a posting tells its payload from that of its key.          *)
LEMMA PostingRecognised ==
    ASSUME CatalogInv, NEW r \in Posters, Arrive(r) \/ Work(r) \/ Abort(r) \/ Die(r)
    PROVE  Recognised(r)
<1> DEFINE q == request[r]
           b == batch[q.key]
<1>1. r \in Requests /\ r \notin Buyers /\ r \notin Cleaners
  BY CatalogAssumption DEF Requests
<1>2. Types /\ q \in RequestRows /\ PlaceInv(r) /\ PostingInv(r)
  BY <1>1, AtHome
<1>3. SUFFICES ASSUME Running(r), request'[r].at = "done", b.entries = DOMAIN b.payload
               PROVE  /\ request'[r].answer \in {"posted", "returned"} =>
                             batch'[q.key].payload = q.payload
                      /\ request'[r].answer \in {"conflict", "missing", "opened"} =>
                             b.payload # q.payload
  BY DEF Recognised
<1>4. q.key \in Keys /\ q.payload \in Payloads
  BY <1>2, <1>3 DEF PlaceInv
<1>5. ~Arrive(r)
  BY <1>3 DEF Arrive, At, Running
<1>6. \A answer \in Answers : RollBack(r, answer) => request'[r].answer = answer /\ batch' = batch
  BY <1>1, <1>2, RolledBack
<1>7. {"failed", "returned", "conflict", "missing", "opened", "posted"} \subseteq Answers
  BY DEF Answers
<1>8. q.key \notin Posted => b.payload # q.payload
  BY <1>4, PayloadsHaveLines DEF Posted
<1>9. ~At(r, "movements") /\ ~At(r, "documents") /\ ~At(r, "delete")
  BY <1>1, <1>2 DEF PlaceInv, At
<1>10. \A step \in Steps : Move(r, step) => request'[r].at = step
  BY <1>1, <1>2, MoveType
<1>11. {"batch", "variants", "openings", "stock"} \subseteq Steps
  BY DEF Steps
<1>12. CASE RollBack(r, "failed")
  BY <1>6, <1>7, <1>12
<1>13. CASE LockShop(r)
  BY <1>3, <1>10, <1>11, <1>13 DEF LockShop
<1>14. CASE FindBatch(r)
  <2>1. q.key \in Posted
    BY <1>3, <1>10, <1>11, <1>14 DEF FindBatch
  <2>2. RollBack(r, IF Matches(b, q.payload) THEN "returned" ELSE "conflict")
    BY <1>14, <2>1 DEF FindBatch
  <2>3. Matches(b, q.payload) <=> b.payload = q.payload
    BY <1>2, <1>3, <1>4, <2>1, MatchesMeans
  <2> QED
    BY <1>6, <1>7, <2>2, <2>3
<1>15. CASE LoadVariants(r)
  <2>1. q.key \notin Posted
    BY <1>2, <1>15 DEF LoadVariants, PostingInv, At
  <2>2. CASE RollBack(r, "missing")
    BY <1>6, <1>7, <1>8, <2>1, <2>2
  <2>3. CASE Goes(r, [q EXCEPT !.at = "openings", !.todo = Lines(r)])
    <3>1. request'[r] = [q EXCEPT !.at = "openings", !.todo = Lines(r)]
      BY <1>1, <1>2, <2>3 DEF Goes, Types
    <3>2. request'[r].at = "openings"
      BY <1>2, <3>1 DEF RequestRows
    <3> QED
      BY <1>3, <3>2
  <2> QED
    BY <1>15, <2>2, <2>3 DEF LoadVariants
<1>16. CASE LoadOpenings(r)
  <2>1. q.key \notin Posted
    BY <1>2, <1>16 DEF LoadOpenings, PostingInv, At
  <2>2. ~Move(r, "stock")
    BY <1>3, <1>10, <1>11
  <2>3. RollBack(r, "opened")
    BY <1>16, <2>2 DEF LoadOpenings
  <2> QED
    BY <1>6, <1>7, <1>8, <2>1, <2>3
<1>17. CASE StockLine(r)
  <2>1. PICK v \in q.todo :
            \/ RollBack(r, "failed")
            \/ Goes(r, [q EXCEPT !.todo = @ \ {v}])
            \/ Goes(r, [q EXCEPT !.at = "shop", !.again = TRUE, !.todo = {}])
    BY <1>17 DEF StockLine
  <2>2. ~Goes(r, [q EXCEPT !.todo = @ \ {v}])
    BY <1>1, <1>2, <1>3 DEF Goes, Types, RequestRows, Running, At
  <2>3. ~Goes(r, [q EXCEPT !.at = "shop", !.again = TRUE, !.todo = {}])
    <3>1. SUFFICES ASSUME Goes(r, [q EXCEPT !.at = "shop", !.again = TRUE, !.todo = {}])
                   PROVE  FALSE
      OBVIOUS
    <3>2. request'[r] = [q EXCEPT !.at = "shop", !.again = TRUE, !.todo = {}]
      BY <1>1, <1>2, <3>1 DEF Goes, Types
    <3>3. request'[r].at = "shop"
      BY <1>2, <3>2 DEF RequestRows
    <3> QED
      BY <1>3, <3>3
  <2> QED
    BY <1>12, <2>1, <2>2, <2>3
<1>18. CASE WriteOpening(r)
  <2>1. /\ batch' = [batch EXCEPT ![q.key] = [payload |-> q.payload, entries |-> DOMAIN q.payload]]
        /\ End(r, "posted")
    BY <1>18 DEF WriteOpening
  <2>2. request'[r].answer = "posted"
    BY <1>1, <1>2, <1>7, <2>1, EndKeeps
  <2>3. batch'[q.key].payload = q.payload
    BY <1>2, <1>4, <2>1 DEF Types
  <2> QED
    BY <2>2, <2>3
<1>19. /\ ~WritePurchase(r) /\ ~CountMovements(r) /\ ~CountDocuments(r)
       /\ ~LockVariant(r) /\ ~WriteDelete(r)
  BY <1>1, <1>9 DEF WritePurchase, CountMovements, CountDocuments, LockVariant, WriteDelete
<1> QED
  BY <1>5, <1>12, <1>13, <1>14, <1>15, <1>16, <1>17, <1>18, <1>19 DEF Work, Abort, Die

(* A repeated posting is recognised: it returns the committed batch when    *)
(* its payload is that of the batch, and is refused as a conflict, for a    *)
(* missing variant or an existing opening only when it is not, however the  *)
(* first answer was lost, until a delete takes entries of the batch.        *)
THEOREM RepeatedPostingsAreRecognised == Spec => RetriesAreRecognised
<1>1. CatalogInv /\ [Next]_vars => [\A r \in Posters : Recognised(r)]_vars
  <2> SUFFICES ASSUME CatalogInv, Next, NEW r \in Posters PROVE Recognised(r)
    OBVIOUS
  <2>1. PICK u \in Requests : Arrive(u) \/ Work(u) \/ Abort(u) \/ Die(u)
    BY DEF Next
  <2>2. CASE u = r
    BY <2>1, <2>2, PostingRecognised
  <2>3. CASE u # r
    <3>1. request'[r] = request[r]
      BY <2>1, <2>3, StepKeeps DEF KeptBy, Spares, Requests
    <3> QED
      BY <3>1 DEF Recognised, Running, At
  <2> QED
    BY <2>2, <2>3
<1> QED
  BY <1>1, CatalogHolds, PTL DEF Spec, RetriesAreRecognised, Recognised

-----------------------------------------------------------------------------
(* What a step takes away.                                                  *)
Spared ==
    /\ \A d \in Documents :
          ~(document[d].lines \subseteq document'[d].lines) =>
              \E r \in Cleaners : Deletes(r) /\ d \notin request[r].saw
    /\ \A k \in Keys :
          ~(batch[k].entries \subseteq batch'[k].entries) =>
              \E r \in Cleaners : Deletes(r) /\ (request[r].force \/ k \notin request[r].saw)

(* Every step but a delete leaves the lines and the entries there are.      *)
LEMMA StepSpares ==
    ASSUME CatalogInv, NEW r \in Requests, Arrive(r) \/ Work(r) \/ Abort(r) \/ Die(r)
    PROVE  Spared
<1>1. Types /\ NothingDangles /\ PlaceInv(r) /\ PostingInv(r) /\ CountInv(r)
  BY AtHome DEF RowsInv
<1>2. CASE document' = document /\ batch' = batch
  BY <1>2 DEF Spared
<1>3. CASE WriteOpening(r)
  <2> DEFINE key == request[r].key
             payload == request[r].payload
  <2>1. /\ document' = document /\ r \in Posters /\ At(r, "stock")
        /\ batch' = [batch EXCEPT ![key] = [payload |-> payload, entries |-> DOMAIN payload]]
    BY <1>3 DEF WriteOpening, Stocked
  <2>2. key \in Keys /\ key \notin Posted
    BY <1>1, <2>1 DEF PlaceInv, PostingInv, At, Running
  <2>3. batch[key].entries \subseteq DOMAIN Nothing
    BY <1>1, <2>2 DEF NothingDangles, Posted
  <2>4. DOMAIN Nothing = {}
    BY DEF Nothing
  <2> HIDE DEF key, payload
  <2>5. \A k \in Keys : batch[k].entries \subseteq batch'[k].entries
    BY <1>1, <2>1, <2>2, <2>3, <2>4 DEF Types
  <2> QED
    BY <2>1, <2>5 DEF Spared
<1>4. CASE WritePurchase(r)
  <2> DEFINE lines == request[r].targets
  <2>1. PICK d \in Unused : document' = [document EXCEPT ![d] = [billed |-> lines, lines |-> lines]]
    BY <1>4 DEF WritePurchase
  <2>2. batch' = batch
    BY <1>4 DEF WritePurchase
  <2>3. d \in Documents /\ document[d].lines = {}
    BY DEF Unused, NoDocument
  <2> HIDE DEF lines
  <2>4. \A c \in Documents : document[c].lines \subseteq document'[c].lines
    BY <1>1, <2>1, <2>3 DEF Types
  <2> QED
    BY <2>2, <2>4 DEF Spared
<1>5. CASE WriteDelete(r)
  <2>1. At(r, "delete") /\ End(r, "deleted") /\ "deleted" \in Answers
    BY <1>5 DEF WriteDelete, Answers
  <2>2. r \in Cleaners /\ request[r].saw = {}
    BY <1>1, <2>1 DEF PlaceInv, CountInv, At
  <2>3. Deletes(r)
    BY <1>1, <2>1, EndKeeps DEF Deletes
  <2> QED
    BY <2>2, <2>3 DEF Spared
<1>6. CASE \/ LockShop(r) \/ FindBatch(r) \/ LoadVariants(r) \/ LoadOpenings(r) \/ StockLine(r)
           \/ CountMovements(r) \/ CountDocuments(r) \/ LockVariant(r)
  <2>1. document' = document /\ batch' = batch
    BY <1>6 DEF LockShop, FindBatch, LoadVariants, LoadOpenings, StockLine, CountMovements,
       CountDocuments, LockVariant, RollBack, OnlyReads, rows
  <2> QED
    BY <1>2, <2>1
<1>7. CASE Arrive(r) \/ Abort(r) \/ Die(r)
  BY <1>2, <1>7 DEF Arrive, Abort, Die, RollBack, OnlyReads, rows
<1> QED
  BY <1>3, <1>4, <1>5, <1>6, <1>7 DEF Work

(* Lines and entries go only with a delete, and none that its counts had    *)
(* found: a document that loses a line was committed after the count, and so*)
(* was an opening that loses an entry, unless the delete is forced.         *)
THEOREM DeletesSpare == Spec => DeletesSpareWhatTheySaw
<1>1. CatalogInv /\ [Next]_vars => [Spared]_vars
  BY StepSpares DEF Next
<1> QED
  BY <1>1, CatalogHolds, PTL DEF Spec, DeletesSpareWhatTheySaw, Spared
=============================================================================
