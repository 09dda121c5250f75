---------------------------- MODULE AiToolsProofs ----------------------------
(***************************************************************************)
(* The write tools, for any shop, conversations and number of requests.    *)
(* They implement OncePerKey: receipts and records point at each other, so *)
(* the operation of a tool and key is recorded at most once.  Records stand *)
(* on rows that are there, completed calls answer truly, and a tool acts   *)
(* on the row that was meant: what a run carries through its pauses fits   *)
(* the shop when it was read and is checked again when it is written.      *)
(***************************************************************************)
EXTENDS AiTools, FiniteSetTheorems, WellFoundedInduction, TLAPS

IsSequence(b) == \E S : b \in Seq(S)

HasFields(b) == \A i \in DOMAIN b : {"live", "slot"} \subseteq DOMAIN b[i]

(* A receipt with a record names a live record of its slot; a live record   *)
(* of a slot is the one its receipt names.                                  *)
ReceiptsNameRecords ==
    \A s \in Slots :
        /\ ~receipt[s].claimed => receipt[s].record = 0
        /\ receipt[s].record # 0 => Live(receipt[s].record) /\ book[receipt[s].record].slot = s

RecordsHaveReceipts ==
    \A i \in Rows : Live(i) /\ book[i].slot \in Slots => receipt[book[i].slot].record = i

CallsNameSlots ==
    \A r \in Requests : ~At(r, "idle") => Slot(request[r].op) \in Slots

OnceInv ==
    /\ calls \in Conversations
    /\ IsSequence(book) /\ HasFields(book)
    /\ receipt \in [Slots -> [claimed : BOOLEAN, record : Nat]]
    /\ request = [r \in Requests |-> request[r]]
    /\ CallsNameSlots
    /\ ReceiptsNameRecords
    /\ RecordsHaveReceipts

-----------------------------------------------------------------------------
(* What the sequence operators do to a book.                                *)
LEMMA AppendedBook ==
    ASSUME NEW b, IsSequence(b), NEW row
    PROVE  /\ IsSequence(Append(b, row))
           /\ DOMAIN b = 1 .. Len(b) /\ Len(b) \in Nat
           /\ DOMAIN Append(b, row) = 1 .. Len(b) + 1
           /\ \A i \in DOMAIN b : Append(b, row)[i] = b[i]
           /\ Append(b, row)[Len(b) + 1] = row
<1>1. PICK S : b \in Seq(S)
  BY DEF IsSequence
<1>2. b \in Seq(S \cup {row}) /\ row \in S \cup {row}
  BY <1>1
<1>3. Append(b, row) \in Seq(S \cup {row})
  BY <1>2
<1> QED
  BY <1>2, <1>3 DEF IsSequence

(* What a rewritten row does to a book.                                     *)
LEMMA RevisedBook ==
    ASSUME NEW b, IsSequence(b), NEW i \in DOMAIN b, NEW row
    PROVE  /\ IsSequence([b EXCEPT ![i] = row])
           /\ DOMAIN [b EXCEPT ![i] = row] = DOMAIN b
<1>1. PICK S : b \in Seq(S)
  BY DEF IsSequence
<1>2. b \in Seq(S \cup {row}) /\ row \in S \cup {row}
  BY <1>1
<1>3. [b EXCEPT ![i] = row] \in Seq(S \cup {row})
  BY <1>2
<1> QED
  BY <1>3 DEF IsSequence

(* Records made by hand answer to no tool and key.                          *)
LEMMA ByHandIsNoSlot == ByHand \notin Slots
BY DEF ByHand, Slots, Tools

-----------------------------------------------------------------------------
(* The invariant holds at first and every step keeps it.                    *)
LEMMA InitOnce == Init => OnceInv
<1> SUFFICES ASSUME Init PROVE OnceInv
  OBVIOUS
<1>1. PICK first \in FirstShops : book = first.book
  BY DEF Init
<1>2. IsSequence(book) /\ HasFields(book) /\ \A i \in Rows : book[i].slot = ByHand
  BY <1>1, FirstShopsAssumption DEF IsSequence, HasFields, Rows, IsRow
<1>3. receipt = [s \in Slots |-> NoReceipt] /\ request = [r \in Requests |-> Idle]
  BY DEF Init
<1> QED
  BY <1>2, <1>3, ByHandIsNoSlot DEF Init, OnceInv, CallsNameSlots, ReceiptsNameRecords,
     RecordsHaveReceipts, NoReceipt, Idle, At

(* A step of a request keeps its slot.                                      *)
LEMMA ToldKeepsSlots ==
    ASSUME OnceInv, NEW r \in Requests, NEW reply, ~At(r, "idle"), Told(r, reply)
    PROVE  request' = [u \in Requests |-> request'[u]] /\ CallsNameSlots'
BY DEF OnceInv, Told, Idle, At, Slot, CallsNameSlots

(* Steps that touch neither book nor receipts.                              *)
LEMMA ShopKept ==
    ASSUME OnceInv, UNCHANGED <<book, receipt, calls>>,
           request' = [u \in Requests |-> request'[u]], CallsNameSlots'
    PROVE  OnceInv'
BY DEF OnceInv, ReceiptsNameRecords, RecordsHaveReceipts, Live, Rows

(* A proposal records nothing.                                              *)
LEMMA ProposeOnce ==
    ASSUME OnceInv, NEW r \in Requests, NEW op \in calls, Propose(r, op)
    PROVE  OnceInv' /\ UNCHANGED <<book, receipt>>
<1>1. op.tool \in Tools /\ op.key \in Keys
  BY ToolsAssumption DEF OnceInv, IsCall
<1>2. PICK meant : request' = [request EXCEPT ![r] =
              [at |-> "paused", op |-> op, meant |-> meant, target |-> Unstated, reply |-> NoReply]]
  BY DEF Propose
<1>3. request' = [u \in Requests |-> request'[u]] /\ CallsNameSlots'
  BY <1>1, <1>2 DEF OnceInv, CallsNameSlots, At, Slot, Slots
<1> QED
  BY <1>3, ShopKept DEF Propose, shop

(* Nor does the search for a receipt.                                       *)
LEMMA FindOnce ==
    ASSUME OnceInv, NEW r \in Requests, FindReceipt(r)
    PROVE  OnceInv' /\ UNCHANGED <<book, receipt>>
<1>1. ~At(r, "idle") /\ UNCHANGED <<book, receipt, calls>>
  BY DEF FindReceipt, At, shop
<1>2. CASE request' = [request EXCEPT ![r].at = "resolve"]
  <2>1. request' = [u \in Requests |-> request'[u]] /\ CallsNameSlots'
    BY SMTT(40), <1>1, <1>2 DEF OnceInv, CallsNameSlots, At, Slot
  <2> QED
    BY <1>1, <2>1, ShopKept
<1>3. CASE \E reply : Told(r, reply)
  BY <1>1, <1>3, ToldKeepsSlots, ShopKept
<1> QED
  BY <1>1, <1>2, <1>3 DEF FindReceipt

(* Nor does the resolution of names.                                        *)
LEMMA ResolveOnce ==
    ASSUME OnceInv, NEW r \in Requests, Resolve(r)
    PROVE  OnceInv' /\ UNCHANGED <<book, receipt>>
<1>1. ~At(r, "idle") /\ UNCHANGED <<book, receipt, calls>>
  BY DEF Resolve, At, shop
<1>2. CASE \E target : request' = [request EXCEPT ![r].at = "write", ![r].target = target]
  <2>1. request' = [u \in Requests |-> request'[u]] /\ CallsNameSlots'
    BY <1>1, <1>2 DEF OnceInv, CallsNameSlots, At, Slot
  <2> QED
    BY <1>1, <2>1, ShopKept
<1>3. CASE \E reply : Told(r, reply)
  BY <1>1, <1>3, ToldKeepsSlots, ShopKept
<1> QED
  BY <1>1, <1>2, <1>3 DEF Resolve

(* Nor does a refusal.                                                      *)
LEMMA RefuseOnce ==
    ASSUME OnceInv, NEW r \in Requests, Refuse(r)
    PROVE  OnceInv' /\ UNCHANGED <<book, receipt>>
<1>1. ~At(r, "idle") /\ UNCHANGED <<book, receipt, calls>> /\ Told(r, Refused)
  BY DEF Refuse, At, shop
<1> QED
  BY <1>1, ToldKeepsSlots, ShopKept

(* A record is made under a free slot, which is then claimed.               *)
Records(s, i) ==
    /\ ~receipt[s].claimed
    /\ receipt' = [receipt EXCEPT ![s] = Claimed(i)]

(* A write claims its key and records under it, or answers the record.      *)
LEMMA WriteOnce ==
    ASSUME OnceInv, NEW r \in Requests, Write(r)
    PROVE  OnceInv' /\ (UNCHANGED receipt \/ \E s \in Slots, i \in Nat \ {0} : Records(s, i))
<1> DEFINE op == request[r].op
           s  == Slot(op)
           i  == Len(book) + 1
<1>1. ~At(r, "idle") /\ UNCHANGED calls /\ s \in Slots
  BY DEF Write, At, OnceInv, CallsNameSlots
<1>2. \E reply : Told(r, reply)
  BY DEF Write
<1>3. request' = [u \in Requests |-> request'[u]] /\ CallsNameSlots'
  BY <1>1, <1>2, ToldKeepsSlots
<1>4. CASE UNCHANGED <<book, receipt>>
  BY <1>1, <1>3, <1>4, ShopKept
<1>5. CASE /\ Unclaimed(s)
           /\ \E invoice \in Invoice(op) :
                 book' = Append(book, Recorded(op, request[r].target, invoice))
           /\ receipt' = [receipt EXCEPT ![s] = Claimed(i)]
  <2>0. PICK invoice \in Invoice(op) :
               book' = Append(book, Recorded(op, request[r].target, invoice))
    BY <1>5
  <2> DEFINE row == Recorded(op, request[r].target, invoice)
  <2>1. row.live = TRUE /\ row.slot = s /\ {"live", "slot"} \subseteq DOMAIN row
    BY DEF Recorded
  <2>10. book' = Append(book, row)
    BY <2>0
  <2> HIDE DEF row
  <2>2. IsSequence(book)
    BY DEF OnceInv
  <2>3. /\ IsSequence(book')
        /\ Rows = 1 .. Len(book) /\ Len(book) \in Nat
        /\ Rows' = 1 .. Len(book) + 1
        /\ \A j \in Rows : book'[j] = book[j]
        /\ book'[i] = row
    BY <2>10, <2>2, AppendedBook DEF Rows
  <2>4. /\ receipt' \in [Slots -> [claimed : BOOLEAN, record : Nat]]
        /\ receipt'[s] = [claimed |-> TRUE, record |-> i]
        /\ \A z \in Slots \ {s} : receipt'[z] = receipt[z]
    BY <1>1, <1>5, <2>3 DEF OnceInv, Claimed
  <2>5. receipt[s].record = 0 /\ ~receipt[s].claimed
    BY <1>1, <1>5 DEF OnceInv, ReceiptsNameRecords, Unclaimed
  <2>6. ReceiptsNameRecords'
    BY <2>1, <2>3, <2>4 DEF OnceInv, ReceiptsNameRecords, Live
  <2>7. RecordsHaveReceipts'
    <3> SUFFICES ASSUME NEW j \in Rows', Live(j)', book'[j].slot \in Slots
                 PROVE  receipt'[book'[j].slot].record = j
      BY DEF RecordsHaveReceipts
    <3>1. CASE j = i
      BY <2>1, <2>3, <2>4, <3>1
    <3>2. CASE j \in Rows
      <4>1. receipt[book[j].slot].record = j /\ j # 0
        BY <2>3, <3>2 DEF OnceInv, RecordsHaveReceipts, Live
      <4> QED
        BY <2>3, <2>4, <2>5, <3>2, <4>1
    <3> QED
      BY <2>3, <3>1, <3>2
  <2>8. i \in Nat \ {0}
    BY <2>3
  <2>9. HasFields(book')
    BY <2>1, <2>3 DEF HasFields, OnceInv, Rows
  <2> QED
    BY <1>1, <1>3, <1>5, <2>3, <2>4, <2>5, <2>6, <2>7, <2>8, <2>9 DEF OnceInv, Records
<1> QED
  BY <1>4, <1>5 DEF Write

-----------------------------------------------------------------------------
(* Others enter rows without a slot, edit lines, and void records.          *)
LEMMA EnterOnce ==
    ASSUME OnceInv, NEW kind, NEW p, NEW invoice, NEW items,
           EnterDocument(kind, p, invoice, items)
    PROVE  OnceInv' /\ UNCHANGED receipt
<1>1. UNCHANGED <<receipt, calls, request>>
  BY DEF EnterDocument, Change
<1> DEFINE row == [kind |-> kind, live |-> TRUE, slot |-> ByHand, party |-> p, doc |-> 0,
                   items |-> items, invoice |-> invoice, total |-> 0, paid |-> 0]
<1>2. book' = Append(book, row)
  BY DEF EnterDocument
<1>3. row.slot = ByHand /\ {"live", "slot"} \subseteq DOMAIN row
  OBVIOUS
<1> HIDE DEF row
<1>4. /\ IsSequence(book')
      /\ Rows = 1 .. Len(book) /\ Len(book) \in Nat
      /\ Rows' = 1 .. Len(book) + 1
      /\ \A j \in Rows : book'[j] = book[j]
      /\ book'[Len(book) + 1] = row
  BY <1>2, AppendedBook DEF Rows, OnceInv
<1>5. HasFields(book')
  BY <1>3, <1>4 DEF HasFields, OnceInv, Rows
<1>6. ReceiptsNameRecords'
  BY <1>1, <1>4 DEF OnceInv, ReceiptsNameRecords, Live
<1>7. RecordsHaveReceipts'
  BY <1>1, <1>3, <1>4, ByHandIsNoSlot DEF OnceInv, RecordsHaveReceipts, Live
<1> QED
  BY <1>1, <1>4, <1>5, <1>6, <1>7 DEF OnceInv, CallsNameSlots, At

(* An edit by hand keeps the row in its slot.                               *)
LEMMA EditOnce ==
    ASSUME OnceInv, NEW i \in Rows, NEW items, EditLines(i, items)
    PROVE  OnceInv' /\ UNCHANGED receipt
<1>1. UNCHANGED <<receipt, calls, request>>
  BY DEF EditLines, Change
<1>2. book' = [book EXCEPT ![i] = [book[i] EXCEPT !.items = items]]
  BY DEF EditLines
<1>3. IsSequence(book') /\ Rows' = Rows
  BY <1>2, RevisedBook DEF OnceInv, Rows
<1>4. /\ \A j \in Rows : book'[j].slot = book[j].slot /\ book'[j].live = book[j].live
      /\ HasFields(book')
  BY <1>2, <1>3 DEF Rows, HasFields, OnceInv
<1>5. ReceiptsNameRecords' /\ RecordsHaveReceipts'
  BY <1>1, <1>3, <1>4 DEF OnceInv, ReceiptsNameRecords, RecordsHaveReceipts, Live
<1> QED
  BY <1>1, <1>3, <1>4, <1>5 DEF OnceInv, CallsNameSlots, At

(* A record is voided and the receipt that named it forgets it.             *)
Forgets(s) ==
    /\ receipt[s].claimed /\ receipt[s].record # 0
    /\ receipt' = [receipt EXCEPT ![s].record = 0]

(* A void takes the record from its receipt.                                *)
LEMMA VoidOnce ==
    ASSUME OnceInv, NEW i \in Rows, Void(i)
    PROVE  OnceInv' /\ (UNCHANGED receipt \/ \E s \in Slots : Forgets(s))
<1>1. UNCHANGED <<calls, request>> /\ receipt' = Forget(i) /\ Live(i)
  BY DEF Void, Change
<1>2. book' = [book EXCEPT ![i] = [book[i] EXCEPT !.live = FALSE]]
  BY DEF Void
<1>3. IsSequence(book') /\ Rows' = Rows /\ i # 0
  <2>1. IsSequence(book') /\ Rows' = Rows
    BY <1>2, RevisedBook DEF OnceInv, Rows
  <2>2. Rows = 1 .. Len(book)
    BY AppendedBook DEF OnceInv, Rows
  <2> QED
    BY <2>1, <2>2
<1>4. /\ \A j \in Rows : book'[j].slot = book[j].slot
      /\ \A j \in Rows \ {i} : book'[j].live = book[j].live
      /\ book'[i].live = FALSE
      /\ HasFields(book')
  BY <1>2, <1>3 DEF Rows, HasFields, OnceInv
<1>5. /\ receipt' \in [Slots -> [claimed : BOOLEAN, record : Nat]]
      /\ \A s \in Slots : receipt'[s].claimed = receipt[s].claimed
      /\ \A s \in Slots : receipt[s].record = i => receipt'[s].record = 0
      /\ \A s \in Slots : receipt[s].record # i => receipt'[s] = receipt[s]
  BY <1>1 DEF Forget, OnceInv
<1>6. ReceiptsNameRecords'
  BY <1>3, <1>4, <1>5 DEF OnceInv, ReceiptsNameRecords, Live
<1>7. RecordsHaveReceipts'
  BY <1>3, <1>4, <1>5 DEF OnceInv, RecordsHaveReceipts, Live
<1>8. ASSUME NEW s \in Slots, receipt[s].record = i
      PROVE  Forgets(s)
  <2>1. receipt[s].claimed /\ receipt[s].record # 0 /\ book[i].slot = s
    BY <1>3, <1>8 DEF OnceInv, ReceiptsNameRecords
  <2>2. \A z \in Slots \ {s} : receipt[z].record # i
    BY <1>3, <2>1 DEF OnceInv, ReceiptsNameRecords
  <2> QED
    BY <1>5, <1>8, <2>1, <2>2 DEF Forgets, OnceInv
<1>9. ASSUME \A s \in Slots : receipt[s].record # i
      PROVE  UNCHANGED receipt
  BY <1>5, <1>9 DEF OnceInv
<1>10. OnceInv'
  BY <1>1, <1>3, <1>4, <1>5, <1>6, <1>7 DEF OnceInv, CallsNameSlots, At
<1> QED
  BY <1>8, <1>9, <1>10

-----------------------------------------------------------------------------
(* Every step.                                                              *)
LEMMA StepOnce ==
    ASSUME OnceInv, [Next]_vars
    PROVE  /\ OnceInv'
           /\ \/ UNCHANGED receipt
              \/ \E s \in Slots, i \in Nat \ {0} : Records(s, i)
              \/ \E s \in Slots : Forgets(s)
<1>1. CASE UNCHANGED vars
  BY <1>1 DEF vars, OnceInv, CallsNameSlots, ReceiptsNameRecords, RecordsHaveReceipts, Live, Rows, At
<1>2. CASE \E r \in Requests : Run(r) \/ \E op \in calls : Propose(r, op)
  BY <1>2, ProposeOnce, FindOnce, ResolveOnce, WriteOnce, RefuseOnce DEF Run
<1>3. CASE Others
  <2>1. CASE UNCHANGED <<book, receipt, calls, request>>
    BY <2>1 DEF OnceInv, CallsNameSlots, ReceiptsNameRecords, RecordsHaveReceipts, Live, Rows, At
  <2>2. CASE \/ \E p \in Parties : DeleteParty(p)
             \/ \E row \in Parties, words \in PartyNames : Christen(row, words)
             \/ \E row \in Products, words \in ProductNames : Christen(row, words)
             \/ \E v \in Variants, price \in Prices, active \in BOOLEAN :
                   EditVariant(v, price, active)
    BY <2>1, <2>2 DEF DeleteParty, Christen, EditVariant, Change
  <2>3. CASE \E i \in Rows : Void(i) \/ \E items \in LineSets : EditLines(i, items)
    BY <2>3, VoidOnce, EditOnce
  <2>4. CASE \E items \in LineSets, invoice \in Invoices :
               \/ \E c \in Customers \cup {WalkIn} : EnterDocument("create_sale", c, invoice, items)
               \/ \E s \in Suppliers : EnterDocument("create_purchase", s, invoice, items)
    BY <2>4, EnterOnce
  <2> QED
    BY <1>3, <2>2, <2>3, <2>4 DEF Others
<1> QED
  BY <1>1, <1>2, <1>3 DEF Next

(* Under the invariant a slot has as many records as its receipt names.     *)
LEMMA EffectsCounted ==
    OnceInv => Effects = [s \in Slots |-> IF receipt[s].record = 0 THEN 0 ELSE 1]
<1> SUFFICES ASSUME OnceInv, NEW s \in Slots
             PROVE  Cardinality({i \in Rows : Live(i) /\ book[i].slot = s})
                      = IF receipt[s].record = 0 THEN 0 ELSE 1
  BY DEF Effects
<1>1. Rows = 1 .. Len(book) /\ Len(book) \in Nat
  BY AppendedBook DEF OnceInv, Rows
<1>2. CASE receipt[s].record = 0
  <2>1. {i \in Rows : Live(i) /\ book[i].slot = s} = {}
    BY <1>1, <1>2 DEF OnceInv, RecordsHaveReceipts
  <2> QED
    BY <1>2, <2>1, FS_EmptySet
<1>3. CASE receipt[s].record # 0
  <2>1. {i \in Rows : Live(i) /\ book[i].slot = s} = {receipt[s].record}
    BY <1>3 DEF OnceInv, RecordsHaveReceipts, ReceiptsNameRecords, Live
  <2> QED
    BY <1>3, <2>1, FS_Singleton
<1> QED
  BY <1>2, <1>3

(* The steps of the tools are those of OncePerKey, or none.                 *)
LEMMA RefinesOnce ==
    ASSUME OnceInv, [Next]_vars
    PROVE  [Once!Next]_<<SlotState, Effects>>
<1>1. OnceInv'
  BY StepOnce
<1> DEFINE Counted == Effects = [s \in Slots |-> IF receipt[s].record = 0 THEN 0 ELSE 1]
<1>2. Counted /\ Counted'
  <2>1. OnceInv => Counted
    BY EffectsCounted
  <2>2. OnceInv' => Counted'
    BY EffectsCounted, PTL
  <2> QED
    BY <1>1, <2>1, <2>2
<1>3. CASE UNCHANGED receipt
  BY <1>2, <1>3 DEF SlotState
<1>4. CASE \E s \in Slots, i \in Nat \ {0} : Records(s, i)
  <2>1. PICK s \in Slots, i \in Nat \ {0} : Records(s, i)
    BY <1>4
  <2>2. /\ receipt'[s] = [claimed |-> TRUE, record |-> i]
        /\ \A z \in Slots \ {s} : receipt'[z] = receipt[z]
    BY <2>1 DEF Records, Claimed, OnceInv
  <2>3. SlotState[s] = "free"
    BY <2>1 DEF Records, SlotState
  <2>4. SlotState' = [SlotState EXCEPT ![s] = "used"]
    <3>1. receipt'[s].claimed /\ receipt'[s].record # 0
      BY <2>2
    <3> QED
      BY <2>2, <3>1 DEF SlotState
  <2>5. Effects' = [Effects EXCEPT ![s] = 1]
    BY <1>2, <2>2
  <2> QED
    BY <2>3, <2>4, <2>5 DEF Once!Next, Once!Perform
<1>5. CASE \E s \in Slots : Forgets(s)
  <2>1. PICK s \in Slots : Forgets(s)
    BY <1>5
  <2>2. /\ receipt'[s].claimed = receipt[s].claimed /\ receipt'[s].record = 0
        /\ \A z \in Slots \ {s} : receipt'[z] = receipt[z]
    BY <2>1 DEF Forgets, OnceInv
  <2>3. SlotState[s] = "used"
    BY <2>1 DEF Forgets, SlotState
  <2>4. SlotState' = [SlotState EXCEPT ![s] = "undone"]
    BY <2>1, <2>2 DEF SlotState, Forgets
  <2>5. Effects' = [Effects EXCEPT ![s] = 0]
    BY <1>2, <2>2
  <2> QED
    BY <2>3, <2>4, <2>5 DEF Once!Next, Once!Undo
<1> QED
  BY <1>3, <1>4, <1>5, StepOnce

(* The initial states map to initial states.                                *)
LEMMA RefinesOnceInit == Init => Once!Init
<1> SUFFICES ASSUME Init PROVE Once!Init
  OBVIOUS
<1>1. receipt = [s \in Slots |-> [claimed |-> FALSE, record |-> 0]]
  BY DEF Init, NoReceipt
<1>2. Effects = [s \in Slots |-> 0]
  BY <1>1, InitOnce, EffectsCounted
<1> QED
  BY <1>1, <1>2 DEF SlotState, Once!Init

(* The operation of a tool and key is recorded at most once, and what is    *)
(* voided stays void, however calls are retried, overlap or reuse a key     *)
(* (_find_receipt, the savepoint and the unique key of the receipts).       *)
THEOREM ToolsImplementOncePerKey == Spec => OncePerToolAndKey
<1>1. Spec => []OnceInv
  BY InitOnce, StepOnce, PTL DEF Spec
<1>2. Init => Once!Init
  BY RefinesOnceInit
<1>3. OnceInv /\ [Next]_vars => [Once!Next]_<<SlotState, Effects>>
  BY RefinesOnce
<1> QED
  BY <1>1, <1>2, <1>3, PTL DEF Spec, OncePerToolAndKey, Once!Spec

-----------------------------------------------------------------------------
(* What the shop holds, and what each run carries through its pauses.       *)
ShopTyped ==
    /\ name \in [Parties \cup Products -> SUBSET Words]
    /\ \A p \in Products : name[p] # {}
    /\ variant \in [Variants -> [price : Prices, active : BOOLEAN]]
    /\ changes \in 0 .. MaxChanges

RowsStand ==
    /\ \A i \in Rows : IsRow(book[i]) /\ StandsOn(name, book, i)
    /\ InvoicesDiffer(book)

(* What a tool has prepared: the party and the document were there when it  *)
(* read them, and the amounts are those of the call.                        *)
TargetFits(op, target) ==
    /\ op.tool \in Tools
    /\ target.party \in Parties \cup {WalkIn}
    /\ op.tool = "create_sale" => target.party \in Customers \cup {WalkIn}
    /\ op.tool = "create_purchase" => target.party \in Suppliers
    /\ target.doc # 0 => op.tool \in Returns /\ target.doc \in Rows
    /\ op.tool \in {"create_sale", "create_purchase"} => ChargedAsApproved(op, target)

(* What the person who approves a call has in mind was there when it was    *)
(* proposed; its document still has its row, live or not.                   *)
MeantFits(op, meant) ==
    IF op.tool \in Returns THEN meant.doc \in Rows
    ELSE meant.doc = 0 /\ meant.party \in PartiesOf(op.tool) /\ meant.item \in Items(op)

AnswerFits(b, op, reply) ==
    reply.status = "completed" =>
        /\ reply.record \in DOMAIN b /\ b[reply.record].slot = Slot(op)
        /\ ~reply.duplicate /\ op.tool \in {"create_sale", "create_purchase"} =>
              ChargedAsApproved(op, b[reply.record])

RequestFits(r) ==
    /\ DOMAIN request[r] = DOMAIN Idle
    /\ request[r].at \in {"idle", "paused", "resolve", "write", "told"}
    /\ ~At(r, "idle") => IsCall(request[r].op)
    /\ At(r, "paused") \/ At(r, "resolve") => MeantFits(request[r].op, request[r].meant)
    /\ At(r, "write") => TargetFits(request[r].op, request[r].target)
    /\ AnswerFits(book, request[r].op, request[r].reply)

ToolsInv == OnceInv /\ ShopTyped /\ RowsStand /\ \A r \in Requests : RequestFits(r)

-----------------------------------------------------------------------------
(* The one match belongs to the set.                                        *)
LEMMA OnlyWithin == \A S : Only(S) \subseteq S
BY DEF Only

(* What is rounded half up is within half of its divisor.                   *)
LEMMA HalfUpIsNear ==
    ASSUME NEW t \in Nat, NEW q \in Nat \ {0}
    PROVE  /\ HalfUp(t, q) \in Nat
           /\ 2 * Deviation(t, q * HalfUp(t, q)) <= q
<1> DEFINE d == (2 * t + q) \div (2 * q)
           p == q * d
<1>1. d \in Nat /\ 2 * p <= 2 * t + q /\ 2 * t + q < 2 * p + 2 * q
  <2>1. 2 * t + q \in Nat /\ 2 * q \in Nat \ {0}
    OBVIOUS
  <2>2. \A a \in Nat, b \in Nat \ {0} :
           a \div b \in Nat /\ b * (a \div b) <= a /\ a < b * (a \div b) + b
    OBVIOUS
  <2>3. d \in Nat /\ (2 * q) * d <= 2 * t + q /\ 2 * t + q < (2 * q) * d + 2 * q
    BY <2>1, <2>2
  <2>4. (2 * q) * d = 2 * p
    BY <2>3
  <2> QED
    BY <2>3, <2>4
<1>2. p \in Nat
  BY <1>1
<1> HIDE DEF p
<1>3. 2 * Deviation(t, p) <= q
  BY <1>1, <1>2 DEF Deviation
<1> QED
  BY <1>1, <1>3 DEF HalfUp, p

(* A quantity at a price is charged to the nearest unit of money.           *)
LEMMA ValuedIsNear ==
    ASSUME NEW q \in Nat \ {0}, NEW price \in Nat
    PROVE  /\ Valued(q, price) \in Nat
           /\ 2 * Deviation(q * price, QuantityScale * Valued(q, price)) <= QuantityScale
<1>1. QuantityScale \in Nat \ {0} /\ q * price \in Nat
  BY ToolsAssumption
<1> QED
  BY <1>1, HalfUpIsNear DEF Valued

(* A total shared out over the quantity and valued again: both roundings.   *)
LEMMA DerivedIsNear ==
    ASSUME NEW t \in Nat, NEW q \in Nat \ {0}
    PROVE  LET price == HalfUp(t * QuantityScale, q)
           IN  /\ price \in Nat /\ Valued(q, price) \in Nat
               /\ 2 * QuantityScale * Deviation(t, Valued(q, price)) <= q + QuantityScale
<1> DEFINE price  == HalfUp(t * QuantityScale, q)
           valued == Valued(q, price)
           stated == t * QuantityScale
           exact  == q * price
           back   == QuantityScale * valued
<1>1. QuantityScale \in Nat \ {0} /\ stated \in Nat
  BY ToolsAssumption
<1>2. price \in Nat /\ 2 * Deviation(stated, exact) <= q
  BY <1>1, HalfUpIsNear
<1>3. valued \in Nat /\ 2 * Deviation(exact, back) <= QuantityScale
  BY <1>2, ValuedIsNear
<1> HIDE DEF price, valued
<1>4. exact \in Int /\ back \in Int
  BY <1>1, <1>2, <1>3
<1>5. 2 * QuantityScale * Deviation(t, valued) = 2 * Deviation(stated, back)
  <2>1. CASE t > valued
    <3>1. stated - back = QuantityScale * (t - valued)
      BY <1>1, <1>3
    <3>2. QuantityScale * (t - valued) \in Nat \ {0}
      BY <1>1, <1>3, <2>1
    <3>3. stated > back
      BY <1>1, <1>4, <3>1, <3>2
    <3>4. Deviation(t, valued) = t - valued /\ Deviation(stated, back) = stated - back
      BY <2>1, <3>3 DEF Deviation
    <3> QED
      BY <1>1, <1>3, <3>1, <3>4
  <2>2. CASE ~(t > valued)
    <3>1. back - stated = QuantityScale * (valued - t)
      BY <1>1, <1>3
    <3>2. QuantityScale * (valued - t) \in Nat
      BY <1>1, <1>3, <2>2
    <3>3. ~(stated > back)
      BY <1>1, <1>4, <3>1, <3>2
    <3>4. Deviation(t, valued) = valued - t /\ Deviation(stated, back) = back - stated
      BY <2>2, <3>3 DEF Deviation
    <3> QED
      BY <1>1, <1>3, <3>1, <3>4
  <2> QED
    BY <2>1, <2>2
<1> HIDE DEF stated, exact, back
<1>6. 2 * Deviation(stated, back) <= q + QuantityScale
  BY <1>1, <1>2, <1>3, <1>4 DEF Deviation
<1> QED
  BY <1>2, <1>3, <1>5, <1>6 DEF price, valued

-----------------------------------------------------------------------------
(* What each tool prepares fits the call.                                   *)

(* A sale: the stated or the catalog price, and a payment within the total. *)
LEMMA SaleFits ==
    ASSUME ShopTyped, NEW op, IsCall(op), op.tool = "create_sale", NEW target \in create_sale(op)
    PROVE  TargetFits(op, target)
<1>1. PICK c \in resolve_customer(op.party), v \in resolve_variant(op.item) :
           LET total == Valued(op.qty, IF op.price = Unstated THEN variant[v].price ELSE op.price)
           IN  \E paid \in build_payments(op, total) : target = Target(c, 0, v, total, paid)
  BY DEF create_sale
<1> DEFINE price == IF op.price = Unstated THEN variant[v].price ELSE op.price
           total == Valued(op.qty, price)
<1>2. PICK paid \in build_payments(op, total) : target = Target(c, 0, v, total, paid)
  BY <1>1
<1>3. c \in Customers \cup {WalkIn}
  BY OnlyWithin DEF resolve_customer, Named
<1>4. v \in Variants
  BY OnlyWithin DEF resolve_variant
<1>5. price \in Nat
  BY <1>4, ToolsAssumption DEF ShopTyped, IsCall
<1>6. op.qty \in Nat \ {0}
  BY DEF IsCall
<1>7. /\ total \in Nat
      /\ op.price # Unstated =>
            2 * Deviation(op.qty * op.price, QuantityScale * total) <= QuantityScale
  BY <1>5, <1>6, ValuedIsNear
<1> HIDE DEF total
<1>8. /\ op.paid \in {"none", "full", "part"}
      /\ op.paid = "full" => paid = total
      /\ op.paid = "none" => paid = 0
      /\ op.paid = "part" => paid = op.part \/ (total = 0 /\ paid = 0)
  BY <1>7 DEF IsCall, build_payments
<1>9. paid = total => Deviation(paid, total) <= Slack(op)
  BY <1>7 DEF Deviation, Slack
<1>10. /\ target.party = c /\ target.doc = 0
       /\ target.total = total /\ target.paid = paid
  BY <1>2 DEF Target
<1>11. ChargedAsApproved(op, target)
  BY <1>7, <1>8, <1>9, <1>10 DEF ChargedAsApproved, IsCall
<1> QED
  BY <1>3, <1>10, <1>11 DEF TargetFits, Parties, IsCall

(* A purchase: the stated cost or the one derived from the stated total.    *)
LEMMA PurchaseFits ==
    ASSUME ShopTyped, NEW op, IsCall(op), op.tool = "create_purchase",
           NEW target \in create_purchase(op)
    PROVE  TargetFits(op, target)
<1>1. PICK s \in resolve_purchase_supplier(op.party), v \in resolve_purchase_variant(op.item),
           price \in unit_cost(op) :
           \E paid \in paid_amount(op, IF op.price # Unstated /\ op.total # Unstated
                                       THEN op.total ELSE Valued(op.qty, price)) :
               target = Target(s, 0, v, Valued(op.qty, price), paid)
  BY DEF create_purchase
<1> DEFINE expected == IF op.price # Unstated /\ op.total # Unstated
                       THEN op.total ELSE Valued(op.qty, price)
           total == Valued(op.qty, price)
<1>2. PICK paid \in paid_amount(op, expected) : target = Target(s, 0, v, total, paid)
  BY <1>1
<1>3. s \in Suppliers
  BY OnlyWithin DEF resolve_purchase_supplier, Named
<1>4. op.qty \in Nat \ {0}
  BY DEF IsCall
<1>5. /\ total \in Nat
      /\ op.price # Unstated =>
            2 * Deviation(op.qty * op.price, QuantityScale * total) <= QuantityScale
      /\ op.price = Unstated =>
            2 * QuantityScale * Deviation(op.total, total) <= op.qty + QuantityScale
      /\ Deviation(expected, total) <= Slack(op)
  <2>1. CASE op.price = Unstated
    <3>1. /\ op.total \in Nat /\ op.total # Unstated
          /\ price = HalfUp(op.total * QuantityScale, op.qty)
      BY <2>1 DEF IsCall, unit_cost
    <3>2. total \in Nat /\ 2 * QuantityScale * Deviation(op.total, total) <= op.qty + QuantityScale
      BY <1>4, <3>1, DerivedIsNear
    <3> HIDE DEF total
    <3>3. Deviation(total, total) = 0
      BY <3>2 DEF Deviation
    <3> QED
      BY <2>1, <3>1, <3>2, <3>3 DEF Slack, total
  <2>2. CASE op.price # Unstated
    <3>1. op.price \in Nat /\ price = op.price
      BY <2>2 DEF IsCall, unit_cost
    <3>2. /\ total \in Nat
          /\ 2 * Deviation(op.qty * op.price, QuantityScale * total) <= QuantityScale
      BY <1>4, <3>1, ValuedIsNear
    <3>3. CASE op.total = Unstated
      <4>1. expected = total
        BY <3>3
      <4> HIDE DEF total
      <4>2. Deviation(total, total) = 0
        BY <3>2 DEF Deviation
      <4> QED
        BY <2>2, <3>2, <3>3, <4>1, <4>2 DEF Slack
    <3>4. CASE op.total # Unstated
      <4>1. /\ op.total \in Nat /\ expected = op.total
            /\ Valued(op.qty, op.price) - op.total \in -1 .. 1
        BY <2>2, <3>1, <3>4 DEF IsCall, unit_cost
      <4>2. total - op.total \in -1 .. 1
        BY <3>1, <4>1
      <4> HIDE DEF total
      <4>3. Deviation(op.total, total) <= 1
        BY <3>2, <4>1, <4>2 DEF Deviation
      <4> QED
        BY <2>2, <3>2, <3>4, <4>1, <4>3 DEF Slack
    <3> QED
      BY <3>3, <3>4
  <2> QED
    BY <2>1, <2>2
<1> HIDE DEF total, expected
<1>7. /\ op.paid \in {"none", "full", "part"}
      /\ op.paid = "full" => paid = expected
      /\ op.paid = "none" => paid = 0
      /\ op.paid = "part" => paid = op.part
  BY DEF IsCall, paid_amount
<1>8. /\ target.party = s /\ target.doc = 0
      /\ target.total = total /\ target.paid = paid
  BY <1>2 DEF Target
<1>9. ChargedAsApproved(op, target)
  BY <1>5, <1>7, <1>8 DEF ChargedAsApproved
<1> QED
  BY <1>3, <1>8, <1>9 DEF TargetFits, Parties, IsCall

(* A payment goes to a party that was there.                                *)
LEMMA PaymentFits ==
    ASSUME NEW op, op.tool \in Payments,
           NEW target \in record_customer_payment(op) \cup record_supplier_payment(op)
    PROVE  TargetFits(op, target)
<1>1. PICK p \in resolve_payment_customer(op.party) \cup resolve_payment_supplier(op.party) :
           target = Target(p, 0, Unstated, op.total, op.total)
  BY DEF record_customer_payment, record_supplier_payment
<1>2. p \in Parties
  BY OnlyWithin DEF resolve_payment_customer, resolve_payment_supplier, Named, Parties
<1> QED
  BY <1>1, <1>2 DEF Target, TargetFits, Payments, Tools, Returns

(* An expense has no party.                                                 *)
LEMMA ExpenseFits ==
    ASSUME NEW op, op.tool = "record_expense", NEW target \in record_expense(op)
    PROVE  TargetFits(op, target)
BY DEF record_expense, Target, TargetFits, Tools, Returns

(* A reference resolves to documents of its kind that fit the party stated. *)
LEMMA NamedFits ==
    ASSUME NEW parties \in {Customers, Suppliers}, NEW owner, NEW p \in Owners(parties, owner)
    PROVE  /\ p \in parties \cup {WalkIn} /\ Fits(owner, p)
           /\ owner # Unstated => p \in Named(parties, owner)
BY OnlyWithin DEF Owners, Named, Fits

LEMMA SaleDocuments ==
    ASSUME NEW ref, NEW owner, NEW i \in resolve_customer_sale(ref, owner)
    PROVE  i \in Documents("create_sale") /\ Fits(owner, book[i].party)
<1> DEFINE mine == Owners(Customers, owner)
           docs == Documents("create_sale")
<1>1. \A c \in mine : Fits(owner, c)
  BY NamedFits
<1>2. \A C, j : j \in sale_of(C) => j \in docs /\ book[j].party \in C
  <2> SUFFICES ASSUME NEW C, NEW j \in sale_of(C)
               PROVE  j \in docs /\ book[j].party \in C
    OBVIOUS
  <2>1. PICK c \in C : j \in sales_for_customer(c)
    BY OnlyWithin DEF sale_of
  <2> QED
    BY <2>1 DEF sales_for_customer, Newest, Of
<1>3. \A words : ByInvoice("create_sale", words, mine) \subseteq Of(mine, docs)
  BY OnlyWithin DEF ByInvoice, FragmentFilter, Of, Newest, WithFragment
<1>4. Of(mine, docs \cap {ref.row}) \subseteq Of(mine, docs)
  BY DEF Of
<1>5. \A j \in Of(mine, docs) : j \in docs /\ book[j].party \in mine
  BY DEF Of
<1>6. owner = Unstated => \A p : Fits(owner, p)
  BY DEF Fits
<1> HIDE DEF mine, docs
<1>7. CASE ref = Unstated
  <2>1. owner # Unstated /\ i \in sale_of(mine)
    BY <1>7 DEF resolve_customer_sale, mine
  <2> QED
    BY <1>1, <1>2, <2>1 DEF docs
<1>8. CASE ref # Unstated
  <2>1. \/ i \in Of(mine, docs)
        \/ owner = Unstated /\ \E C : i \in sale_of(C)
    BY <1>3, <1>4, <1>8 DEF resolve_customer_sale, mine, docs
  <2> QED
    BY <1>1, <1>2, <1>5, <1>6, <2>1 DEF docs
<1> QED
  BY <1>7, <1>8

LEMMA PurchaseDocuments ==
    ASSUME NEW ref, NEW owner, NEW i \in resolve_supplier_purchase(ref, owner)
    PROVE  i \in Documents("create_purchase") /\ Fits(owner, book[i].party)
<1> DEFINE mine == Owners(Suppliers, owner)
           docs == Documents("create_purchase")
<1>1. \A c \in mine : Fits(owner, c)
  BY NamedFits
<1>2. \A C, j : j \in purchase_of(C) => j \in docs /\ book[j].party \in C
  <2> SUFFICES ASSUME NEW C, NEW j \in purchase_of(C)
               PROVE  j \in docs /\ book[j].party \in C
    OBVIOUS
  <2>1. PICK c \in C : j \in purchases_for_supplier(c)
    BY OnlyWithin DEF purchase_of
  <2> QED
    BY <2>1 DEF purchases_for_supplier, Newest, Of
<1>3. \A words : ByInvoice("create_purchase", words, mine) \subseteq Of(mine, docs)
  BY OnlyWithin DEF ByInvoice, FragmentFilter, Of, Newest, WithFragment
<1>4. Of(mine, docs \cap {ref.row}) \subseteq Of(mine, docs)
  BY DEF Of
<1>5. \A j \in Of(mine, docs) : j \in docs /\ book[j].party \in mine
  BY DEF Of
<1>6. owner = Unstated => \A p : Fits(owner, p)
  BY DEF Fits
<1> HIDE DEF mine, docs
<1>7. CASE ref = Unstated
  <2>1. owner # Unstated /\ i \in purchase_of(mine)
    BY <1>7 DEF resolve_supplier_purchase, mine
  <2> QED
    BY <1>1, <1>2, <2>1 DEF docs
<1>8. CASE ref # Unstated
  <2>1. \/ i \in Of(mine, docs)
        \/ owner = Unstated /\ \E C : i \in purchase_of(C)
    BY <1>3, <1>4, <1>8 DEF resolve_supplier_purchase, mine, docs
  <2> QED
    BY <1>1, <1>2, <1>5, <1>6, <2>1 DEF docs
<1> QED
  BY <1>7, <1>8

(* A return goes to a document and the party of that document.              *)
LEMMA ReturnFits ==
    ASSUME RowsStand, NEW op, op.tool \in Returns,
           NEW target \in create_customer_return(op) \cup create_supplier_return(op)
    PROVE  /\ TargetFits(op, target)
           /\ target \in create_customer_return(op) =>
                 /\ target.doc \in resolve_customer_sale(op.doc, op.party)
                 /\ target.item \in resolve_sale_item(target.doc, op.item)
           /\ target \in create_supplier_return(op) =>
                 /\ target.doc \in resolve_supplier_purchase(op.doc, op.party)
                 /\ target.item \in resolve_purchase_item(target.doc, op.item)
<1>1. ASSUME NEW t \in create_customer_return(op)
      PROVE  /\ t.doc \in resolve_customer_sale(op.doc, op.party)
             /\ t.item \in resolve_sale_item(t.doc, op.item) /\ t.party = book[t.doc].party
  BY <1>1 DEF create_customer_return, Target
<1>2. ASSUME NEW t \in create_supplier_return(op)
      PROVE  /\ t.doc \in resolve_supplier_purchase(op.doc, op.party)
             /\ t.item \in resolve_purchase_item(t.doc, op.item) /\ t.party = book[t.doc].party
  BY <1>2 DEF create_supplier_return, Target
<1>3. target.doc \in Rows /\ target.party = book[target.doc].party
  BY <1>1, <1>2, SaleDocuments, PurchaseDocuments DEF Documents
<1>4. target.party \in Parties \cup {WalkIn}
  BY <1>3 DEF RowsStand, IsRow
<1> QED
  BY <1>1, <1>2, <1>3, <1>4 DEF TargetFits, Returns, Tools

LEMMA PreparedFits ==
    ASSUME ShopTyped, RowsStand, NEW op, IsCall(op), NEW target \in Prepared(op)
    PROVE  TargetFits(op, target)
<1>1. op.tool \in Tools
  BY DEF IsCall
<1> QED
  BY <1>1, SaleFits, PurchaseFits, PaymentFits, ExpenseFits, ReturnFits
     DEF Prepared, Tools, Payments, Returns

-----------------------------------------------------------------------------
(* Every step keeps what the shop holds and what the runs carry.            *)

(* Rows stay, with their slot and their amounts.                            *)
BookGrows ==
    /\ Rows \subseteq Rows'
    /\ \A i \in Rows : /\ book'[i].slot = book[i].slot
                       /\ book'[i].total = book[i].total /\ book'[i].paid = book[i].paid

LEMMA AnswerKept ==
    ASSUME NEW op, NEW reply, AnswerFits(book, op, reply), BookGrows
    PROVE  AnswerFits(book', op, reply)
BY DEF AnswerFits, BookGrows, Rows, ChargedAsApproved

LEMMA RequestKept ==
    ASSUME NEW r \in Requests, RequestFits(r), request'[r] = request[r], BookGrows
    PROVE  RequestFits(r)'
<1>1. AnswerFits(book', request[r].op, request[r].reply)
  BY AnswerKept DEF RequestFits
<1>2. \A op, meant : MeantFits(op, meant) => MeantFits(op, meant)'
  BY DEF MeantFits, BookGrows
<1>3. \A op, target : TargetFits(op, target) => TargetFits(op, target)'
  BY DEF TargetFits, BookGrows
<1> QED
  BY <1>1, <1>2, <1>3 DEF RequestFits, At

(* A step of one request leaves the others alone.                           *)
LEMMA RequestMoved ==
    ASSUME NEW r \in Requests, \A u \in Requests : RequestFits(u), BookGrows, RequestFits(r)',
           \A u \in Requests \ {r} : request'[u] = request[u]
    PROVE  (\A u \in Requests : RequestFits(u))'
BY RequestKept

LEMMA ToldFits ==
    ASSUME OnceInv, NEW r \in Requests, RequestFits(r), ~At(r, "idle"),
           NEW reply, Told(r, reply), AnswerFits(book', request[r].op, reply)
    PROVE  /\ RequestFits(r)' /\ ~At(r, "write")'
           /\ \A u \in Requests \ {r} : request'[u] = request[u]
<1>1. /\ request'[r] = [Idle EXCEPT !.at = "told", !.op = request[r].op, !.reply = reply]
      /\ \A u \in Requests \ {r} : request'[u] = request[u]
  BY DEF OnceInv, Told
<1>2. /\ request'[r].at = "told" /\ request'[r].op = request[r].op /\ request'[r].reply = reply
      /\ DOMAIN request'[r] = DOMAIN Idle
  BY <1>1 DEF Idle
<1> QED
  BY <1>1, <1>2 DEF RequestFits, At

(* Rows that nobody writes to.                                              *)
LEMMA ShopTypedKept ==
    ASSUME ShopTyped, UNCHANGED <<name, variant, changes>>
    PROVE  ShopTyped'
BY DEF ShopTyped

LEMMA RowsStandKept ==
    ASSUME RowsStand, UNCHANGED <<name, book>>
    PROVE  RowsStand' /\ BookGrows
BY DEF RowsStand, BookGrows, Rows

(* A row is appended whose party and document are there and whose invoice   *)
(* number is not in use.                                                    *)
LEMMA RowAppended ==
    ASSUME IsSequence(book), RowsStand, UNCHANGED name,
           NEW row, IsRow(row), book' = Append(book, row),
           row.party # WalkIn => Exists(row.party),
           row.doc # 0 => row.doc \in Rows /\ book[row.doc].live /\ row.items \subseteq book[row.doc].items,
           \A i \in Rows : book[i].live /\ book[i].kind = row.kind /\ book[i].invoice = row.invoice =>
                              row.invoice = {}
    PROVE  /\ RowsStand' /\ BookGrows
           /\ Len(book) + 1 \in Rows' /\ book'[Len(book) + 1] = row
<1> DEFINE n == Len(book) + 1
<1>1. /\ Rows = 1 .. Len(book) /\ Len(book) \in Nat
      /\ Rows' = 1 .. Len(book) + 1
      /\ \A j \in Rows : book'[j] = book[j]
      /\ book'[n] = row
  BY AppendedBook DEF Rows
<1>2. Rows' = Rows \cup {n} /\ n \notin Rows
  BY <1>1
<1> HIDE DEF n
<1>3. ASSUME NEW i \in Rows' PROVE IsRow(book'[i]) /\ StandsOn(name, book', i)
  <2>1. CASE i = n
    BY <1>1, <1>2, <2>1 DEF StandsOn, Exists, Rows
  <2>2. CASE i \in Rows
    BY <1>1, <1>2, <2>2 DEF StandsOn, RowsStand, Rows
  <2> QED
    BY <1>2, <2>1, <2>2
<1>4. InvoicesDiffer(book')
  <2> SUFFICES ASSUME NEW i \in Rows', NEW j \in Rows',
                      book'[i].live, book'[j].live, book'[i].kind = book'[j].kind,
                      book'[i].invoice = book'[j].invoice, book'[i].invoice # {}
               PROVE  i = j
    BY DEF InvoicesDiffer, Rows
  <2>1. CASE i \in Rows /\ j \in Rows
    BY <1>1, <2>1 DEF RowsStand, InvoicesDiffer, Rows
  <2>2. CASE i \in Rows /\ j = n
    BY <1>1, <2>2
  <2>3. CASE i = n /\ j \in Rows
    BY <1>1, <2>3
  <2> QED
    BY <1>2, <2>1, <2>2, <2>3
<1>5. BookGrows
  BY <1>1, <1>2 DEF BookGrows
<1> QED
  BY <1>1, <1>2, <1>3, <1>4, <1>5 DEF RowsStand, n

(* The number allocated, and a stated one that does not collide, is one     *)
(* nobody uses.                                                             *)
LEMMA InvoiceIsFree ==
    ASSUME NEW op, NEW invoice \in Invoice(op), ~Collides(op), NEW i \in Rows,
           book[i].live, book[i].kind = op.tool, book[i].invoice = invoice
    PROVE  invoice = {}
<1>1. CASE op.tool # "create_sale"
  BY <1>1 DEF Invoice, Collides, Documents
<1>2. CASE op.tool = "create_sale"
  <2>1. PICK n \in NextNumber : invoice = {Series, n}
    BY <1>2 DEF Invoice
  <2>2. n \in n .. MaxNumber /\ ~Taken(n)
    BY <2>1 DEF NextNumber
  <2> QED
    BY <1>2, <2>1, <2>2 DEF Taken, Documents
<1> QED
  BY <1>1, <1>2

(* At first the shop stands and nothing has been asked.                     *)
LEMMA InitTools == Init => ToolsInv
<1> SUFFICES ASSUME Init PROVE ToolsInv
  OBVIOUS
<1>1. PICK first \in FirstShops :
           name = first.name /\ variant = first.variant /\ book = first.book
  BY DEF Init
<1>2. ShopTyped
  <2>1. changes = 0 /\ MaxChanges \in Nat
    BY ToolsAssumption DEF Init
  <2>2. /\ first.name \in [Parties \cup Products -> SUBSET Words]
        /\ \A p \in Products : first.name[p] # {}
        /\ first.variant \in [Variants -> [price : Prices, active : BOOLEAN]]
    BY FirstShopsAssumption
  <2> QED
    BY <1>1, <2>1, <2>2 DEF ShopTyped
<1>3. RowsStand
  BY <1>1, FirstShopsAssumption DEF RowsStand, Rows
<1>4. \A r \in Requests : request[r] = Idle
  BY DEF Init
<1>5. \A r \in Requests : RequestFits(r)
  BY <1>4 DEF RequestFits, At, Idle, AnswerFits, NoReply
<1> QED
  BY <1>2, <1>3, <1>5, InitOnce DEF ToolsInv

(* What a person has in mind fits the call.                                 *)
LEMMA MeaningFits ==
    ASSUME NEW op, NEW meant \in Meanings(op)
    PROVE  MeantFits(op, meant)
<1>1. CASE op.tool \in Returns
  BY <1>1 DEF Meanings, MeantFits
<1>2. CASE op.tool \notin Returns
  BY <1>2 DEF Meanings, MeantFits
<1> QED
  BY <1>1, <1>2

LEMMA ProposeFits ==
    ASSUME ToolsInv, NEW r \in Requests, NEW op \in calls, Propose(r, op)
    PROVE  ToolsInv' /\ BookGrows
<1>1. OnceInv' /\ UNCHANGED <<name, variant, book, changes>>
  BY ProposeOnce DEF ToolsInv, Propose, shop
<1>2. ShopTyped' /\ RowsStand' /\ BookGrows
  BY <1>1, ShopTypedKept, RowsStandKept DEF ToolsInv
<1>3. IsCall(op)
  BY ToolsAssumption DEF ToolsInv, OnceInv
<1>4. PICK meant \in Meanings(op) : request' = [request EXCEPT ![r] =
              [at |-> "paused", op |-> op, meant |-> meant, target |-> Unstated, reply |-> NoReply]]
  BY DEF Propose
<1>5. /\ request'[r] = [at |-> "paused", op |-> op, meant |-> meant, target |-> Unstated,
                        reply |-> NoReply]
      /\ \A u \in Requests \ {r} : request'[u] = request[u]
  BY <1>4 DEF ToolsInv, OnceInv
<1>6. MeantFits(op, meant)'
  BY <1>2, MeaningFits DEF MeantFits, BookGrows
<1>7. AnswerFits(book', op, NoReply)
  BY DEF AnswerFits, NoReply
<1>8. RequestFits(r)'
  BY <1>3, <1>5, <1>6, <1>7 DEF RequestFits, At, Idle
<1> QED
  BY <1>1, <1>2, <1>5, <1>8, RequestMoved DEF ToolsInv

(* The answer of a receipt is the record of its key.                        *)
LEMMA AgainFits ==
    ASSUME OnceInv, NEW op, Slot(op) \in Slots, NEW unless \in {"already_processed", "conflict"}
    PROVE  AnswerFits(book, op, AnswerAgain(Slot(op), unless))
BY DEF OnceInv, ReceiptsNameRecords, Live, Rows, AnswerFits, AnswerAgain, NoReply

LEMMA FindFits ==
    ASSUME ToolsInv, NEW r \in Requests, FindReceipt(r)
    PROVE  ToolsInv' /\ BookGrows
<1>1. OnceInv' /\ UNCHANGED <<name, variant, book, changes>>
  BY FindOnce DEF ToolsInv, FindReceipt, shop
<1>2. ShopTyped' /\ RowsStand' /\ BookGrows
  BY <1>1, ShopTypedKept, RowsStandKept DEF ToolsInv
<1>3. At(r, "paused") /\ ~At(r, "idle") /\ RequestFits(r)
  BY DEF FindReceipt, At, ToolsInv
<1>4. CASE request' = [request EXCEPT ![r].at = "resolve"]
  <2>1. /\ request'[r] = [request[r] EXCEPT !.at = "resolve"]
        /\ \A u \in Requests \ {r} : request'[u] = request[u]
    BY <1>4 DEF ToolsInv, OnceInv
  <2>2. /\ request'[r].op = request[r].op /\ request'[r].meant = request[r].meant
        /\ request'[r].reply = request[r].reply
    BY <2>1
  <2>3. request'[r].at = "resolve" /\ DOMAIN request'[r] = DOMAIN Idle
    BY <1>3, <2>1 DEF RequestFits, Idle
  <2>4. MeantFits(request[r].op, request[r].meant)'
    BY <1>1, <1>3, <2>2 DEF RequestFits, MeantFits, Rows
  <2>5. RequestFits(r)'
    BY <1>1, <1>3, <2>2, <2>3, <2>4 DEF RequestFits, At
  <2> QED
    BY <1>1, <1>2, <2>1, <2>5, RequestMoved DEF ToolsInv
<1>5. CASE Told(r, AnswerAgain(Slot(request[r].op), "already_processed"))
  <2>1. AnswerFits(book', request[r].op, AnswerAgain(Slot(request[r].op), "already_processed"))
    BY <1>1, <1>3, AgainFits DEF ToolsInv, OnceInv, CallsNameSlots
  <2> QED
    BY <1>1, <1>2, <1>3, <1>5, <2>1, ToldFits, RequestMoved DEF ToolsInv
<1> QED
  BY <1>4, <1>5 DEF FindReceipt

LEMMA RefusedFits == \A b, op : AnswerFits(b, op, Refused)
BY DEF AnswerFits, Refused, NoReply

LEMMA ResolveFits ==
    ASSUME ToolsInv, NEW r \in Requests, Resolve(r)
    PROVE  ToolsInv' /\ BookGrows
<1>1. OnceInv' /\ UNCHANGED <<name, variant, book, changes>>
  BY ResolveOnce DEF ToolsInv, Resolve, shop
<1>2. ShopTyped' /\ RowsStand' /\ BookGrows
  BY <1>1, ShopTypedKept, RowsStandKept DEF ToolsInv
<1>3. At(r, "resolve") /\ ~At(r, "idle") /\ RequestFits(r)
  BY DEF Resolve, At, ToolsInv
<1>4. CASE Told(r, Refused)
  BY <1>1, <1>2, <1>3, <1>4, RefusedFits, ToldFits, RequestMoved DEF ToolsInv
<1>5. ASSUME NEW target \in Prepared(request[r].op),
             request' = [request EXCEPT ![r].at = "write", ![r].target = target]
      PROVE  ToolsInv' /\ BookGrows
  <2>1. /\ request'[r] = [request[r] EXCEPT !.at = "write", !.target = target]
        /\ \A u \in Requests \ {r} : request'[u] = request[u]
    BY <1>5 DEF ToolsInv, OnceInv
  <2>2. TargetFits(request[r].op, target)
    BY <1>3, PreparedFits DEF ToolsInv, RequestFits
  <2>3. DOMAIN request[r] = {"at", "op", "meant", "target", "reply"}
    BY <1>3 DEF RequestFits, Idle
  <2>4. /\ request'[r].at = "write" /\ request'[r].target = target
        /\ request'[r].op = request[r].op /\ request'[r].reply = request[r].reply
        /\ DOMAIN request'[r] = DOMAIN Idle
    BY <2>1, <2>3 DEF Idle
  <2>5. \A op : TargetFits(op, target) => TargetFits(op, target)'
    BY <1>1 DEF TargetFits, Rows
  <2>6. RequestFits(r)'
    BY <1>1, <1>3, <2>2, <2>4, <2>5 DEF RequestFits, At
  <2> QED
    BY <1>1, <1>2, <2>1, <2>6, RequestMoved DEF ToolsInv
<1> QED
  BY <1>4, <1>5 DEF Resolve

LEMMA RefuseFits ==
    ASSUME ToolsInv, NEW r \in Requests, Refuse(r)
    PROVE  ToolsInv' /\ BookGrows
<1>1. OnceInv' /\ UNCHANGED <<name, variant, book, changes>>
  BY RefuseOnce DEF ToolsInv, Refuse, shop
<1>2. ShopTyped' /\ RowsStand' /\ BookGrows
  BY <1>1, ShopTypedKept, RowsStandKept DEF ToolsInv
<1>3. Told(r, Refused) /\ ~At(r, "idle") /\ RequestFits(r)
  BY DEF Refuse, At, ToolsInv
<1> QED
  BY <1>1, <1>2, <1>3, RefusedFits, ToldFits, RequestMoved DEF ToolsInv

(* A write stands on the party, the document and the line that it reads     *)
(* again, and charges what was prepared.                                    *)
LEMMA WriteFits ==
    ASSUME ToolsInv, NEW r \in Requests, Write(r)
    PROVE  ToolsInv' /\ BookGrows
<1> DEFINE op == request[r].op
           target == request[r].target
<1>1. OnceInv' /\ UNCHANGED <<name, variant, changes>>
  BY WriteOnce DEF ToolsInv, Write
<1>2. ShopTyped'
  BY <1>1, ShopTypedKept DEF ToolsInv
<1>3. RequestFits(r) /\ ~At(r, "idle") /\ TargetFits(op, target)
  BY DEF Write, At, ToolsInv, RequestFits
<1>4. Slot(op) \in Slots
  BY <1>3 DEF ToolsInv, OnceInv, CallsNameSlots
<1>5. CASE UNCHANGED book /\ Told(r, Refused)
  BY <1>1, <1>2, <1>3, <1>5, RowsStandKept, RefusedFits, ToldFits, RequestMoved DEF ToolsInv
<1>6. CASE UNCHANGED book /\ Told(r, AnswerAgain(Slot(op), "conflict"))
  <2>1. AnswerFits(book', op, AnswerAgain(Slot(op), "conflict"))
    BY <1>4, <1>6, AgainFits DEF ToolsInv
  <2> QED
    BY <1>1, <1>2, <1>3, <1>6, <2>1, RowsStandKept, ToldFits, RequestMoved DEF ToolsInv
<1>7. ASSUME NEW invoice \in Invoice(op), ~Collides(op), StillThere(target),
             book' = Append(book, Recorded(op, target, invoice)),
             Told(r, [status |-> "completed", record |-> Len(book) + 1, duplicate |-> FALSE])
      PROVE  ToolsInv' /\ BookGrows
  <2> DEFINE row == Recorded(op, target, invoice)
             reply == [status |-> "completed", record |-> Len(book) + 1, duplicate |-> FALSE]
  <2>1. /\ row.kind = op.tool /\ row.live = TRUE /\ row.slot = Slot(op)
        /\ row.party = target.party /\ row.doc = target.doc
        /\ row.items = {target.item} \ {Unstated}
        /\ row.invoice = invoice /\ row.total = target.total /\ row.paid = target.paid
        /\ DOMAIN row = {"kind", "live", "slot", "party", "doc", "items", "invoice", "total", "paid"}
    BY DEF Recorded
  <2>2. book' = Append(book, row)
    BY <1>7
  <2> HIDE DEF row
  <2>3. IsRow(row)
    <3>1. IsFiniteSet(row.items)
      BY <2>1, FS_Singleton, FS_Subset
    <3> QED
      BY <1>3, <2>1, <3>1 DEF IsRow, TargetFits
  <2>4. row.party # WalkIn => Exists(row.party)
    BY <1>7, <2>1 DEF StillThere
  <2>5. row.doc # 0 =>
           row.doc \in Rows /\ book[row.doc].live /\ row.items \subseteq book[row.doc].items
    BY <1>3, <1>7, <2>1 DEF StillThere, TargetFits
  <2>6. \A i \in Rows : book[i].live /\ book[i].kind = row.kind /\ book[i].invoice = row.invoice =>
                           row.invoice = {}
    BY <1>7, <2>1, InvoiceIsFree
  <2>7. /\ RowsStand' /\ BookGrows
        /\ Len(book) + 1 \in Rows' /\ book'[Len(book) + 1] = row
    BY <1>1, <2>2, <2>3, <2>4, <2>5, <2>6, RowAppended DEF ToolsInv, OnceInv
  <2>8. op.tool \in {"create_sale", "create_purchase"} => ChargedAsApproved(op, row)
    BY <1>3, <2>1 DEF TargetFits, ChargedAsApproved
  <2>9. AnswerFits(book', op, reply)
    BY <2>1, <2>7, <2>8 DEF AnswerFits, Rows
  <2> QED
    BY <1>1, <1>2, <1>3, <1>7, <2>7, <2>9, ToldFits, RequestMoved DEF ToolsInv
<1> QED
  BY <1>5, <1>6, <1>7 DEF Write

-----------------------------------------------------------------------------
(* What others do keeps it.                                                 *)
LEMMA OthersKeepRuns ==
    ASSUME ToolsInv, UNCHANGED request, BookGrows
    PROVE  (\A r \in Requests : RequestFits(r))'
BY RequestKept DEF ToolsInv

LEMMA ChangeCounted ==
    ASSUME ShopTyped, Change
    PROVE  changes' \in 0 .. MaxChanges
BY ToolsAssumption DEF ShopTyped, Change

(* A name that is changed stays a name.                                     *)
LEMMA ChristenFits ==
    ASSUME ToolsInv, OnceInv', NEW row \in Parties \cup Products,
           NEW words \in PartyNames \cup ProductNames, Christen(row, words)
    PROVE  ToolsInv' /\ BookGrows
<1>1. /\ UNCHANGED <<variant, book, request>> /\ Change
      /\ name' = [name EXCEPT ![row] = words] /\ words # {} /\ words \in SUBSET Words
  BY ToolsAssumption DEF Christen, Change
<1>2. ShopTyped'
  BY <1>1, ChangeCounted DEF ToolsInv, ShopTyped
<1>3. \A p \in Parties : name[p] # {} => name'[p] # {}
  BY <1>1 DEF ToolsInv, ShopTyped
<1>4. RowsStand' /\ BookGrows
  BY <1>1, <1>3 DEF ToolsInv, RowsStand, IsRow, StandsOn, BookGrows, Rows
<1> QED
  BY <1>1, <1>2, <1>4, OthersKeepRuns DEF ToolsInv

(* A party is only deleted when no live row is its own.                     *)
LEMMA DeletePartyFits ==
    ASSUME ToolsInv, OnceInv', NEW p \in Parties, DeleteParty(p)
    PROVE  ToolsInv' /\ BookGrows
<1>1. /\ UNCHANGED <<variant, book, request>> /\ Change
      /\ name' = [name EXCEPT ![p] = {}] /\ ~HasHistory(p) /\ p \notin Products
  BY ToolsAssumption DEF DeleteParty, Change
<1>2. ShopTyped'
  BY <1>1, ChangeCounted DEF ToolsInv, ShopTyped
<1>3. \A q \in Parties : name[q] # {} => q = p \/ name'[q] # {}
  BY <1>1 DEF ToolsInv, ShopTyped
<1>4. \A i \in Rows : book[i].live => book[i].party # p
  BY <1>1 DEF HasHistory, Live
<1>5. RowsStand' /\ BookGrows
  BY <1>1, <1>3, <1>4 DEF ToolsInv, RowsStand, IsRow, StandsOn, BookGrows, Rows
<1> QED
  BY <1>1, <1>2, <1>5, OthersKeepRuns DEF ToolsInv

LEMMA EditVariantFits ==
    ASSUME ToolsInv, OnceInv', NEW v \in Variants, NEW price \in Prices, NEW active \in BOOLEAN,
           EditVariant(v, price, active)
    PROVE  ToolsInv' /\ BookGrows
<1>1. /\ UNCHANGED <<name, book, request>> /\ Change
      /\ variant' = [variant EXCEPT ![v] = [price |-> price, active |-> active]]
  BY DEF EditVariant, Change
<1>2. ShopTyped'
  BY <1>1, ChangeCounted DEF ToolsInv, ShopTyped
<1>3. RowsStand' /\ BookGrows
  BY <1>1, RowsStandKept DEF ToolsInv
<1> QED
  BY <1>1, <1>2, <1>3, OthersKeepRuns DEF ToolsInv

(* A document is entered for a party that is there, under a free number.    *)
LEMMA EnterFits ==
    ASSUME ToolsInv, OnceInv', NEW kind \in {"create_sale", "create_purchase"},
           NEW p \in Parties \cup {WalkIn}, NEW invoice, NEW items \in LineSets,
           kind = "create_sale" => p \in Customers \cup {WalkIn},
           kind = "create_purchase" => p \in Suppliers,
           EnterDocument(kind, p, invoice, items)
    PROVE  ToolsInv' /\ BookGrows
<1> DEFINE row == [kind |-> kind, live |-> TRUE, slot |-> ByHand, party |-> p, doc |-> 0,
                   items |-> items, invoice |-> invoice, total |-> 0, paid |-> 0]
<1>1. /\ UNCHANGED <<name, variant, request>> /\ Change
      /\ book' = Append(book, row)
      /\ p # WalkIn => Exists(p)
      /\ invoice # {} => \A i \in Documents(kind) : book[i].invoice # invoice
  BY DEF EnterDocument, Change
<1>2. ShopTyped'
  BY <1>1, ChangeCounted DEF ToolsInv, ShopTyped
<1>3. /\ row.kind = kind /\ row.live = TRUE /\ row.party = p /\ row.doc = 0
      /\ row.invoice = invoice /\ row.items = items
      /\ DOMAIN row = {"kind", "live", "slot", "party", "doc", "items", "invoice", "total", "paid"}
  OBVIOUS
<1> HIDE DEF row
<1>4. IsRow(row)
  <2>1. IsFiniteSet(items)
    <3>1. items \subseteq Variants /\ IsFiniteSet(Variants)
      BY ToolsAssumption
    <3> QED
      BY <3>1, FS_Subset
  <2> HIDE DEF row
  <2> QED
    BY <1>3, <2>1 DEF IsRow, Tools
<1>5. \A i \in Rows : book[i].live /\ book[i].kind = row.kind /\ book[i].invoice = row.invoice =>
                         row.invoice = {}
  BY <1>1, <1>3 DEF Documents
<1>6. RowsStand' /\ BookGrows
  BY <1>1, <1>3, <1>4, <1>5, RowAppended DEF ToolsInv, OnceInv
<1> QED
  BY <1>1, <1>2, <1>6, OthersKeepRuns DEF ToolsInv

(* The lines of a document are only edited while nothing was returned.      *)
LEMMA EditLinesFits ==
    ASSUME ToolsInv, OnceInv', NEW i \in Rows, NEW items \in LineSets, EditLines(i, items)
    PROVE  ToolsInv' /\ BookGrows
<1>1. /\ UNCHANGED <<name, variant, request>> /\ Change
      /\ book' = [book EXCEPT ![i] = [book[i] EXCEPT !.items = items]]
      /\ book[i].kind \in {"create_sale", "create_purchase"} /\ ~HasReturns(i)
  BY DEF EditLines, Change
<1>2. ShopTyped'
  BY <1>1, ChangeCounted DEF ToolsInv, ShopTyped
<1>3. Rows' = Rows /\ (\A j \in Rows \ {i} : book'[j] = book[j])
      /\ book'[i] = [book[i] EXCEPT !.items = items]
  BY <1>1, RevisedBook DEF ToolsInv, OnceInv, Rows
<1>4. \A j \in Rows :
         /\ DOMAIN book'[j] = DOMAIN book[j]
         /\ book'[j].kind = book[j].kind /\ book'[j].live = book[j].live
         /\ book'[j].slot = book[j].slot /\ book'[j].party = book[j].party
         /\ book'[j].doc = book[j].doc /\ book'[j].invoice = book[j].invoice
         /\ book'[j].total = book[j].total /\ book'[j].paid = book[j].paid
         /\ j # i => book'[j].items = book[j].items
  <2>1. DOMAIN book[i] = {"kind", "live", "slot", "party", "doc", "items", "invoice", "total", "paid"}
    BY DEF ToolsInv, RowsStand, IsRow
  <2> QED
    BY <1>3, <2>1
<1>5. \A j \in Rows : IsRow(book'[j])
  <2>1. book'[i].items = items /\ IsFiniteSet(items)
    BY <1>3, ToolsAssumption, FS_Subset DEF ToolsInv, RowsStand, IsRow
  <2> QED
    BY <1>4, <2>1 DEF ToolsInv, RowsStand, IsRow
<1>6. book[i].doc = 0
  BY <1>1 DEF ToolsInv, RowsStand, IsRow, Returns
<1>7. ASSUME NEW j \in Rows PROVE StandsOn(name, book', j)
  <2>1. book[j].live /\ book[j].doc # 0 => book[j].doc # i /\ j # i
    BY <1>1, <1>6 DEF HasReturns, Live
  <2>2. StandsOn(name, book, j)
    BY DEF ToolsInv, RowsStand
  <2> QED
    BY <1>3, <1>4, <2>1, <2>2 DEF StandsOn, Rows
<1>8. InvoicesDiffer(book')
  BY <1>3, <1>4 DEF ToolsInv, RowsStand, InvoicesDiffer, Rows
<1>9. RowsStand' /\ BookGrows
  BY <1>1, <1>3, <1>4, <1>5, <1>7, <1>8 DEF RowsStand, BookGrows
<1> QED
  BY <1>1, <1>2, <1>9, OthersKeepRuns DEF ToolsInv

(* A document is only voided while nothing was returned.                    *)
LEMMA VoidFits ==
    ASSUME ToolsInv, OnceInv', NEW i \in Rows, Void(i)
    PROVE  ToolsInv' /\ BookGrows
<1>1. /\ UNCHANGED <<name, variant, request>> /\ Change
      /\ book' = [book EXCEPT ![i] = [book[i] EXCEPT !.live = FALSE]] /\ ~HasReturns(i)
  BY DEF Void, Change
<1>2. ShopTyped'
  BY <1>1, ChangeCounted DEF ToolsInv, ShopTyped
<1>3. Rows' = Rows /\ (\A j \in Rows \ {i} : book'[j] = book[j])
      /\ book'[i] = [book[i] EXCEPT !.live = FALSE]
  BY <1>1, RevisedBook DEF ToolsInv, OnceInv, Rows
<1>4. DOMAIN book[i] = {"kind", "live", "slot", "party", "doc", "items", "invoice", "total", "paid"}
  BY DEF ToolsInv, RowsStand, IsRow
<1>5. \A j \in Rows :
         /\ DOMAIN book'[j] = DOMAIN book[j]
         /\ book'[j].kind = book[j].kind /\ book'[j].items = book[j].items
         /\ book'[j].slot = book[j].slot /\ book'[j].party = book[j].party
         /\ book'[j].doc = book[j].doc /\ book'[j].invoice = book[j].invoice
         /\ book'[j].total = book[j].total /\ book'[j].paid = book[j].paid
         /\ book'[j].live = (IF j = i THEN FALSE ELSE book[j].live)
  BY <1>3, <1>4
<1>6. \A j \in Rows : IsRow(book'[j])
  BY <1>5 DEF ToolsInv, RowsStand, IsRow
<1>7. ASSUME NEW j \in Rows PROVE StandsOn(name, book', j)
  <2>1. book[j].live /\ book[j].doc # 0 => book[j].doc # i
    BY <1>1 DEF HasReturns, Live
  <2>2. StandsOn(name, book, j)
    BY DEF ToolsInv, RowsStand
  <2> QED
    <3>1. book'[j].live => book[j].live
      BY <1>5
    <3>2. \A k \in Rows : k # i => book'[k].live = book[k].live
      BY <1>5
    <3>3. \A k \in Rows : book'[k].items = book[k].items
      BY <1>5
    <3>4. book'[j].party = book[j].party /\ book'[j].doc = book[j].doc
      BY <1>5
    <3> QED
      BY <1>3, <2>1, <2>2, <3>1, <3>2, <3>3, <3>4 DEF StandsOn, Rows
<1>8. InvoicesDiffer(book')
  <2>1. \A j \in Rows : book'[j].live => book[j].live
    BY <1>5
  <2>2. \A j \in Rows : book'[j].kind = book[j].kind /\ book'[j].invoice = book[j].invoice
    BY <1>5
  <2> QED
    BY <1>3, <2>1, <2>2 DEF ToolsInv, RowsStand, InvoicesDiffer, Rows
<1>9. RowsStand' /\ BookGrows
  BY <1>1, <1>3, <1>5, <1>6, <1>7, <1>8 DEF RowsStand, BookGrows
<1> QED
  BY <1>1, <1>2, <1>9, OthersKeepRuns DEF ToolsInv

-----------------------------------------------------------------------------
(* Every step keeps the invariant.                                          *)
LEMMA StepFits ==
    ASSUME ToolsInv, [Next]_vars
    PROVE  ToolsInv'
<1>1. OnceInv'
  BY StepOnce DEF ToolsInv
<1>2. CASE UNCHANGED vars
  <2>1. ShopTyped' /\ RowsStand' /\ BookGrows
    BY <1>2, ShopTypedKept, RowsStandKept DEF vars, ToolsInv
  <2> QED
    BY <1>1, <1>2, <2>1, OthersKeepRuns DEF vars, ToolsInv
<1>3. CASE \E r \in Requests : Run(r) \/ \E op \in calls : Propose(r, op)
  BY <1>3, ProposeFits, FindFits, ResolveFits, WriteFits, RefuseFits DEF Run
<1>4. CASE Others
  <2>1. CASE \E p \in Parties : DeleteParty(p)
    BY <1>1, <2>1, DeletePartyFits
  <2>2. CASE \/ \E row \in Parties, words \in PartyNames : Christen(row, words)
             \/ \E row \in Products, words \in ProductNames : Christen(row, words)
    BY <1>1, <2>2, ChristenFits
  <2>3. CASE \E v \in Variants, price \in Prices, active \in BOOLEAN : EditVariant(v, price, active)
    BY <1>1, <2>3, EditVariantFits
  <2>4. CASE \E i \in Rows : Void(i) \/ \E items \in LineSets : EditLines(i, items)
    BY <1>1, <2>4, VoidFits, EditLinesFits
  <2>5. CASE \E items \in LineSets, invoice \in Invoices :
               \/ \E c \in Customers \cup {WalkIn} : EnterDocument("create_sale", c, invoice, items)
               \/ \E s \in Suppliers : EnterDocument("create_purchase", s, invoice, items)
    BY <1>1, <2>5, EnterFits DEF Parties
  <2> QED
    BY <1>4, <2>1, <2>2, <2>3, <2>4, <2>5 DEF Others
<1> QED
  BY <1>2, <1>3, <1>4 DEF Next

(* Every record the tools and the others leave stands on rows that are      *)
(* there: a party that is not deleted, a document that is not voided and    *)
(* the line in it, although all of them were read before the write          *)
(* (delete_customer, assert_sale_has_no_returns, the savepoint of a tool).  *)
THEOREM RecordsStand == Spec => []RecordsStandOnLiveRows
<1>1. ToolsInv => RecordsStandOnLiveRows
  <2> SUFFICES ASSUME ToolsInv PROVE RecordsStandOnLiveRows
    OBVIOUS
  <2>1. \A s \in Slots : receipt[s].record \in Rows \cup {0}
    BY DEF ToolsInv, OnceInv, ReceiptsNameRecords, Live
  <2>2. TypeOK
    BY <2>1 DEF TypeOK, ToolsInv, ShopTyped, RowsStand, RequestFits
  <2> QED
    BY <2>2 DEF RecordsStandOnLiveRows, ToolsInv, RowsStand
<1> QED
  BY <1>1, InitTools, StepFits, PTL DEF Spec

(* A completed call answers with the record of its own key, charged as it   *)
(* was approved, even after the shop has changed (_find_receipt,            *)
(* _build_payments, parse_paid_amount and the cost of a line).              *)
THEOREM AnswersStayTrue == Spec => []AnswersAreTrue
<1>1. ToolsInv => AnswersAreTrue
  BY DEF AnswersAreTrue, ToolsInv, RequestFits, AnswerFits
<1> QED
  BY <1>1, InitTools, StepFits, PTL DEF Spec

-----------------------------------------------------------------------------
(* A tool takes the row that was meant.                                     *)

(* The smaller number comes first, well-founded on the naturals.            *)
Below == {p \in Nat \X Nat : p[1] < p[2]}

LEMMA BelowIsWellFounded == IsWellFoundedOn(Below, Nat)
BY NatLessThanWellFounded DEF OpToRel, Below

(* Rows have a newest.                                                      *)
LEMMA NewestRow ==
    ASSUME NEW n \in Nat, NEW S, S \subseteq 1 .. n, S # {}
    PROVE  \E m \in S : \A k \in S : k <= m
<1> DEFINE Ages == {n - k : k \in S}
<1>1. Ages \subseteq Nat
  OBVIOUS
<1>2. Ages # {}
  OBVIOUS
<1> HIDE DEF Ages
<1>3. PICK age \in Ages : \A y \in Ages : ~(<<y, age>> \in Below)
  BY <1>1, <1>2, BelowIsWellFounded, WFMin
<1>4. \A y \in Ages : ~(y < age)
  BY <1>1, <1>3 DEF Below
<1>5. PICK m \in S : age = n - m
  BY DEF Ages
<1>6. \A k \in S : k \in Nat /\ n - k \in Ages
  BY DEF Ages
<1>7. \A k \in S : ~(n - k < n - m)
  BY <1>4, <1>5, <1>6
<1>8. \A k \in S : k <= m
  BY <1>5, <1>6, <1>7
<1> QED
  BY <1>8

(* The one match is the set.                                                *)
LEMMA OnlyOne ==
    ASSUME NEW S, IsFiniteSet(S), NEW x \in Only(S), NEW y \in S
    PROVE  y = x
<1>1. Cardinality(S) = 1 /\ x \in S
  BY DEF Only
<1>2. PICK z : S = {z}
  BY <1>1, FS_Singleton
<1> QED
  BY <1>1, <1>2

(* A single newest row is the only one: there is room for a second.         *)
LEMMA OneNewest ==
    ASSUME NEW n \in Nat, NEW S, S \subseteq 1 .. n, NEW i, Newest(S) = {i}
    PROVE  S = {i}
<1>1. S # {} /\ i \in S
  BY DEF Newest
<1>2. PICK m \in S : \A k \in S : k <= m
  BY <1>1, NewestRow
<1>3. MaxMatches \in Nat \ {0} /\ \A j \in S : j \in Nat
  BY ToolsAssumption
<1>4. m = i
  <2>1. {j \in S : j > m} = {}
    <3>1. \A j \in S : ~(j > m)
      BY <1>2, <1>3
    <3> QED
      BY <3>1
  <2>2. Cardinality({j \in S : j > m}) <= MaxMatches
    BY <1>3, <2>1, FS_EmptySet
  <2> QED
    BY <1>2, <2>2 DEF Newest
<1>5. ASSUME S \ {m} # {} PROVE FALSE
  <2>1. S \ {m} \subseteq 1 .. n
    OBVIOUS
  <2>2. PICK k \in S \ {m} : \A j \in S \ {m} : j <= k
    BY <1>5, <2>1, NewestRow
  <2>3. {j \in S : j > k} \subseteq {m}
    <3>1. \A j \in S : j > k => j = m
      BY <1>3, <2>2
    <3> QED
      BY <3>1
  <2>4. Cardinality({j \in S : j > k}) <= 1
    <3>1. IsFiniteSet({m}) /\ Cardinality({m}) = 1
      BY FS_Singleton
    <3> QED
      BY <2>3, <3>1, FS_Subset
  <2>5. IsFiniteSet({j \in S : j > k})
    BY <2>3, FS_Singleton, FS_Subset
  <2>6. Cardinality({j \in S : j > k}) \in Nat
    BY <2>5, FS_CardinalityType
  <2>7. k \in Newest(S)
    BY <1>3, <2>2, <2>4, <2>6 DEF Newest
  <2> QED
    BY <1>4, <2>2, <2>7
<1> QED
  BY <1>1, <1>4, <1>5

(* A row the newest leave out has more newer ones than are read.            *)
LEMMA LeftOut ==
    ASSUME NEW n \in Nat, NEW S, S \subseteq 1 .. n, NEW i \in S, i \notin Newest(S)
    PROVE  Cardinality(S) > MaxMatches + 1
<1> DEFINE Newer == {j \in S : j > i}
<1>1. IsFiniteSet(S) /\ IsFiniteSet(Newer)
  <2>1. IsFiniteSet(1 .. n)
    BY FS_Interval
  <2>2. IsFiniteSet(S)
    BY <2>1, FS_Subset
  <2>3. Newer \subseteq S
    OBVIOUS
  <2> QED
    BY <2>2, <2>3, FS_Subset
<1>2. MaxMatches \in Nat /\ Cardinality(Newer) \in Nat /\ Cardinality(S) \in Nat
  BY <1>1, ToolsAssumption, FS_CardinalityType
<1>3. Cardinality(Newer) > MaxMatches
  BY <1>2 DEF Newest
<1>4. i \notin Newer /\ Newer \cup {i} \subseteq S
  OBVIOUS
<1>5. Cardinality(Newer \cup {i}) = Cardinality(Newer) + 1
  BY <1>1, <1>4, FS_AddElement
<1>6. Cardinality(Newer \cup {i}) <= Cardinality(S)
  BY <1>1, <1>4, FS_Subset
<1> QED
  BY <1>2, <1>3, <1>5, <1>6

(* The products, the rows that a name may mean and the rows of the book are *)
(* finitely many.                                                           *)
LEMMA FiniteRows ==
    /\ IsFiniteSet(Customers) /\ IsFiniteSet(Suppliers) /\ IsFiniteSet(Products)
    /\ \A rows, ref : IsFiniteSet(rows) => IsFiniteSet(Named(rows, ref))
    /\ \A S : IsFiniteSet(VariantsOf(S))
<1>1. IsFiniteSet(Customers) /\ IsFiniteSet(Suppliers)
  BY ToolsAssumption, FS_Subset DEF Parties
<1>2. IsFiniteSet(Products)
  <2> DEFINE f == [v \in Variants |-> ProductOf[v]]
  <2>1. f \in Surjection(Variants, Products)
    BY DEF Products, Surjection
  <2> QED
    BY <2>1, ToolsAssumption, FS_Surjection
<1>3. \A rows, ref : Named(rows, ref) \subseteq rows
  BY DEF Named
<1>4. \A S : VariantsOf(S) \subseteq Variants
  BY DEF VariantsOf
<1> QED
  BY <1>1, <1>2, <1>3, <1>4, ToolsAssumption, FS_Subset

(* A party that fits the words and is there is the one that was found.      *)
LEMMA NamedParty ==
    ASSUME NEW rows \in {Customers, Suppliers}, NEW op, NEW c \in Only(Named(rows, op.party)),
           NEW p \in rows, MeansParty(op, p)
    PROVE  p = c
<1>1. p # WalkIn
  BY ToolsAssumption DEF Parties
<1>2. p \in Named(rows, op.party)
  BY <1>1 DEF MeansParty, Named
<1> QED
  BY <1>2, FiniteRows, OnlyOne

LEMMA PartyAsMeant ==
    ASSUME NEW op, op.tool \in Tools \ Returns, NEW target \in Prepared(op),
           NEW p \in PartiesOf(op.tool), MeansParty(op, p)
    PROVE  target.party = p /\ target.doc = 0
<1>1. CASE op.tool = "create_sale"
  <2>1. target.party \in resolve_customer(op.party) /\ target.doc = 0
    BY <1>1 DEF Prepared, create_sale, Target
  <2>2. p \in Customers \cup {WalkIn}
    BY <1>1 DEF PartiesOf
  <2>3. CASE op.party = Unstated
    BY <2>1, <2>3 DEF MeansParty, resolve_customer
  <2>4. CASE op.party # Unstated
    BY <2>1, <2>2, <2>4, NamedParty DEF MeansParty, resolve_customer
  <2> QED
    BY <2>3, <2>4
<1>2. CASE op.tool = "record_customer_payment"
  <2>1. target.party \in Only(Named(Customers, op.party)) /\ target.doc = 0
    BY <1>2 DEF Prepared, record_customer_payment, resolve_payment_customer, Target
  <2> QED
    BY <1>2, <2>1, NamedParty DEF PartiesOf
<1>3. CASE op.tool = "create_purchase"
  <2>1. target.party \in Only(Named(Suppliers, op.party)) /\ target.doc = 0
    BY <1>3 DEF Prepared, create_purchase, resolve_purchase_supplier, Target
  <2> QED
    BY <1>3, <2>1, NamedParty DEF PartiesOf
<1>4. CASE op.tool = "record_supplier_payment"
  <2>1. target.party \in Only(Named(Suppliers, op.party)) /\ target.doc = 0
    BY <1>4 DEF Prepared, record_supplier_payment, resolve_payment_supplier, Target
  <2> QED
    BY <1>4, <2>1, NamedParty DEF PartiesOf
<1>5. CASE op.tool = "record_expense"
  BY <1>5 DEF Prepared, record_expense, Target, PartiesOf
<1> QED
  BY <1>1, <1>2, <1>3, <1>4, <1>5 DEF Tools, Returns

(* So is the variant of the one product that fits the words.                *)
LEMMA NamedVariant ==
    ASSUME ShopTyped, NEW ref, ref # Unstated, ref.by = "words",
           NEW sold, NEW v \in Only(VariantsOf(Only(Named(Products, ref))) \cap sold),
           NEW w \in Variants \cap sold, ref.words \subseteq name[ProductOf[w]]
    PROVE  w = v
<1> DEFINE found == Only(Named(Products, ref))
<1>1. ProductOf[w] \in Products /\ ProductOf[w] # WalkIn
  BY ToolsAssumption DEF Products
<1>2. ProductOf[w] \in Named(Products, ref)
  BY <1>1 DEF ShopTyped, Named, Fits, Called, Exists
<1>3. v \in VariantsOf(found)
  BY OnlyWithin
<1>4. found # {} /\ found = Named(Products, ref)
  BY <1>3 DEF VariantsOf, Only
<1>5. w \in VariantsOf(found) \cap sold
  BY <1>2, <1>4 DEF VariantsOf
<1>6. IsFiniteSet(VariantsOf(found) \cap sold)
  BY FiniteRows, FS_Subset
<1> QED
  BY <1>5, <1>6, OnlyOne

LEMMA ItemAsMeant ==
    ASSUME ShopTyped, NEW op, IsCall(op), op.tool \in Tools \ Returns, NEW target \in Prepared(op),
           NEW x \in Items(op), MeansItem(op, x)
    PROVE  target.item = x
<1>1. CASE op.tool = "create_sale"
  <2>1. target.item \in resolve_variant(op.item)
    BY <1>1 DEF Prepared, create_sale, Target
  <2>2. /\ x \in Variants /\ variant[x].active /\ op.item # Unstated
        /\ IF op.item.by = "id" THEN op.item.row = x ELSE op.item.words \subseteq name[ProductOf[x]]
    BY <1>1 DEF MeansItem, IsCall, Payments, Returns
  <2>3. op.item.by = "words" \/ op.item.by = "id"
    BY <2>2 DEF IsCall, IsReference
  <2>4. CASE op.item.by = "id"
    BY <2>1, <2>2, <2>4 DEF resolve_variant
  <2>5. CASE op.item.by = "words"
    <3> DEFINE sold == {v \in Variants : variant[v].active}
    <3>1. target.item \in Only(VariantsOf(Only(Named(Products, op.item))) \cap sold)
      BY <2>1, <2>5 DEF resolve_variant
    <3>2. x \in Variants \cap sold
      BY <2>2
    <3> HIDE DEF sold
    <3> QED
      BY <2>2, <2>5, <3>1, <3>2, NamedVariant
  <2> QED
    BY <2>3, <2>4, <2>5
<1>2. CASE op.tool = "create_purchase"
  <2>1. target.item \in resolve_purchase_variant(op.item)
    BY <1>2 DEF Prepared, create_purchase, Target
  <2>2. /\ x \in Variants /\ op.item # Unstated
        /\ IF op.item.by = "id" THEN op.item.row = x ELSE op.item.words \subseteq name[ProductOf[x]]
    BY <1>2 DEF MeansItem, IsCall, Payments, Returns
  <2>3. op.item.by = "words" \/ op.item.by = "id"
    BY <2>2 DEF IsCall, IsReference
  <2>4. CASE op.item.by = "id"
    BY <2>1, <2>2, <2>4 DEF resolve_purchase_variant
  <2>5. CASE op.item.by = "words"
    <3>1. VariantsOf(Only(Named(Products, op.item))) \cap Variants
            = VariantsOf(Only(Named(Products, op.item)))
      BY DEF VariantsOf
    <3>2. target.item \in Only(VariantsOf(Only(Named(Products, op.item))) \cap Variants)
      BY <2>1, <2>5, <3>1 DEF resolve_purchase_variant
    <3> QED
      BY <2>2, <2>5, <3>2, NamedVariant
  <2> QED
    BY <2>3, <2>4, <2>5
<1>3. CASE op.tool \in Payments
  <2>1. target.item = Unstated /\ op.item = Unstated
    BY <1>3 DEF Prepared, Payments, record_customer_payment, record_supplier_payment, Target, IsCall
  <2> QED
    BY <2>1 DEF Items
<1>4. CASE op.tool = "record_expense"
  <2>1. op.item # Unstated
    BY <1>4 DEF IsCall, Payments
  <2>2. target.item \in Only(op.item.words) /\ x \in op.item.words
    BY <1>4, <2>1 DEF Prepared, record_expense, Target, Items
  <2>3. IsFiniteSet(op.item.words)
    BY <1>4, <2>1 DEF IsCall, IsReference
  <2> QED
    BY <2>2, <2>3, OnlyOne
<1> QED
  BY <1>1, <1>2, <1>3, <1>4 DEF Tools, Returns, Payments

-----------------------------------------------------------------------------
(* Sales and purchases are looked up alike.                                 *)
SoleOf(kind, parties) == Only(UNION {Newest(Of({p}, Documents(kind))) : p \in parties})

LookUp(kind, parties, ref, owner) ==
    LET mine == Owners(parties, owner)
    IN  CASE ref = Unstated /\ owner = Unstated -> {}
          [] ref = Unstated /\ owner # Unstated -> SoleOf(kind, mine)
          [] ref # Unstated ->
                IF ref.by = "id" THEN Of(mine, Documents(kind) \cap {ref.row})
                ELSE IF WithFragment(kind, ref.words) # {} THEN ByInvoice(kind, ref.words, mine)
                ELSE IF owner = Unstated THEN SoleOf(kind, Hinted(parties, ref.words)) ELSE {}

LEMMA LookUpSales ==
    \A ref, owner : resolve_customer_sale(ref, owner) = LookUp("create_sale", Customers, ref, owner)
BY DEF resolve_customer_sale, LookUp, sale_of, sales_for_customer, SoleOf

LEMMA LookUpPurchases ==
    \A ref, owner :
        resolve_supplier_purchase(ref, owner) = LookUp("create_purchase", Suppliers, ref, owner)
BY DEF resolve_supplier_purchase, LookUp, purchase_of, purchases_for_supplier, SoleOf

(* The only document of the only party.                                     *)
LEMMA SoleDocument ==
    ASSUME IsSequence(book), NEW kind, NEW S, IsFiniteSet(S), NEW c \in S,
           NEW i \in SoleOf(kind, Only(S)), NEW j \in Documents(kind), book[j].party = c
    PROVE  j = i
<1> DEFINE docs == Of({c}, Documents(kind))
<1>1. Only(S) # {}
  BY OnlyWithin DEF SoleOf
<1>2. Only(S) = {c}
  <2>1. Only(S) = S /\ Cardinality(S) = 1
    BY <1>1 DEF Only
  <2> QED
    BY <2>1, FS_Singleton
<1>3. Rows = 1 .. Len(book) /\ Len(book) \in Nat
  BY AppendedBook DEF Rows
<1>4. docs \subseteq 1 .. Len(book)
  BY <1>3 DEF Of, Documents
<1>5. IsFiniteSet(Newest(docs))
  <2>1. Newest(docs) \subseteq 1 .. Len(book)
    BY <1>4 DEF Newest
  <2>2. IsFiniteSet(1 .. Len(book))
    BY <1>3, FS_Interval
  <2> QED
    BY <2>1, <2>2, FS_Subset
<1>6. i \in Only(Newest(docs))
  <2>1. UNION {Newest(Of({p}, Documents(kind))) : p \in {c}} = Newest(docs)
    OBVIOUS
  <2> QED
    BY <1>2, <2>1 DEF SoleOf
<1>7. Newest(docs) = {i}
  <2>1. Cardinality(Newest(docs)) = 1 /\ i \in Newest(docs)
    BY <1>6 DEF Only
  <2> QED
    BY <1>5, <2>1, FS_Singleton
<1>8. docs = {i}
  BY <1>3, <1>4, <1>7, OneNewest
<1> QED
  BY <1>8 DEF Of

(* More documents hold the fragment than are read.                          *)
Crowded(kind, words) == Cardinality(WithFragment(kind, words)) > MaxMatches + 1

(* i has the words and j has them not, i is them, or j was cut off.         *)
Nearer(kind, words, mine, i, j) ==
    /\ words \subseteq book[i].invoice
    /\ \/ ~(words \subseteq book[j].invoice)
       \/ book[i].invoice = words /\ book[j].invoice # words
       \/ Crowded(kind, words) /\ \E x \in Documents(kind) : book[x].party \notin mine

(* A document found by its invoice number is nearer than any other that is  *)
(* looked for, unless an older one was cut off.                             *)
LEMMA FoundByInvoice ==
    ASSUME IsSequence(book), RowsStand, NEW kind, NEW words, words # {}, NEW mine,
           NEW i \in ByInvoice(kind, words, mine),
           NEW j \in Documents(kind), j # i, book[j].party \in mine
    PROVE  Nearer(kind, words, mine, i, j)
<1> DEFINE exact == {x \in Documents(kind) : book[x].invoice = words}
           found == WithFragment(kind, words)
<1>1. Rows = 1 .. Len(book) /\ Len(book) \in Nat
  BY AppendedBook DEF Rows
<1>2. CASE exact # {}
  <2>1. i \in Documents(kind) /\ book[i].party \in mine /\ book[i].invoice = words
    BY <1>2 DEF ByInvoice, Of
  <2>2. book[j].invoice # words
    BY <2>1 DEF RowsStand, InvoicesDiffer, Documents, Rows
  <2> QED
    BY <2>1, <2>2 DEF Nearer
<1>3. CASE exact = {}
  <2>1. i \in Only(Of(mine, Newest(found)))
    BY <1>3 DEF ByInvoice, FragmentFilter
  <2>2. i \in Newest(found) /\ book[i].party \in mine
    BY <2>1, OnlyWithin DEF Of
  <2>3. i \in Documents(kind) /\ words \subseteq book[i].invoice
    BY <2>2 DEF Newest, WithFragment
  <2>4. found \subseteq 1 .. Len(book)
    BY <1>1 DEF WithFragment, Documents
  <2>5. IsFiniteSet(Of(mine, Newest(found)))
    <3>1. Of(mine, Newest(found)) \subseteq 1 .. Len(book)
      BY <2>4 DEF Of, Newest
    <3>2. IsFiniteSet(1 .. Len(book))
      BY <1>1, FS_Interval
    <3> QED
      BY <3>1, <3>2, FS_Subset
  <2>6. CASE j \in found
    <3>1. j \notin Newest(found)
      <4>1. j \notin Of(mine, Newest(found))
        BY <2>1, <2>5, OnlyOne
      <4> QED
        BY <4>1 DEF Of
    <3>2. Cardinality(found) > MaxMatches + 1
      BY <1>1, <2>4, <2>6, <3>1, LeftOut
    <3>3. ASSUME \A x \in Documents(kind) : book[x].party \in mine
          PROVE  FALSE
      <4>1. Of(mine, Newest(found)) = Newest(found)
        BY <3>3 DEF Of, Newest, WithFragment
      <4>2. Newest(found) = {i}
        <5>1. Cardinality(Newest(found)) = 1 /\ IsFiniteSet(Newest(found))
          BY <2>1, <2>5, <4>1 DEF Only
        <5> QED
          BY <2>2, <5>1, FS_Singleton
      <4>3. found = {i}
        BY <1>1, <2>4, <4>2, OneNewest
      <4> QED
        BY <2>6, <4>3
    <3> QED
      BY <2>2, <2>3, <3>2, <3>3 DEF Crowded, Nearer
  <2>7. CASE j \notin found
    BY <2>2, <2>3, <2>7 DEF WithFragment, Nearer
  <2> QED
    BY <2>6, <2>7
<1> QED
  BY <1>2, <1>3

(* The parties of the documents of a kind.                                  *)
PartiesOfKind(kind) == IF kind = "create_sale" THEN Customers ELSE Suppliers

LEMMA DocumentsHaveParties ==
    ASSUME RowsStand, NEW kind \in {"create_sale", "create_purchase"}, NEW i \in Documents(kind)
    PROVE  /\ book[i].party \in PartiesOfKind(kind) \cup {WalkIn}
           /\ book[i].party # WalkIn => Exists(book[i].party)
BY DEF RowsStand, IsRow, StandsOn, Documents, PartiesOfKind, Exists

(* Words and identifiers are never those of a walk-in.                      *)
LEMMA WalkInsFitNothing ==
    ASSUME NEW op, IsCall(op), op.party # Unstated
    PROVE  ~Fits(op.party, WalkIn)
BY DEF IsCall, IsReference, Fits, Called

(* The document a return was resolved to is the one that was meant, or is   *)
(* nearer to the words, or the one meant was cut off.                       *)
LEMMA NearestDocument ==
    ASSUME OnceInv, RowsStand, NEW op, IsCall(op), op.tool \in Returns,
           NEW i \in LookUp(Returned(op.tool), PartiesOfKind(Returned(op.tool)), op.doc, op.party),
           NEW m
    PROVE  DocumentAsMeant(op, m, i)
<1> DEFINE kind == Returned(op.tool)
           parties == PartiesOfKind(kind)
           mine == Owners(parties, op.party)
<1> SUFFICES ASSUME i # m, Nearness(op, m) # 0
             PROVE  Nearness(op, i) > Nearness(op, m) \/ CutOff(op)
  BY DEF DocumentAsMeant
<1>1. IsSequence(book) /\ kind \in {"create_sale", "create_purchase"}
  BY DEF OnceInv, Returned
<1>2. parties \in {Customers, Suppliers} /\ IsFiniteSet(parties) /\ WalkIn \notin parties
  BY FiniteRows, ToolsAssumption DEF PartiesOfKind, Parties
<1>3. m \in Documents(kind) /\ Fits(op.party, book[m].party)
  BY DEF Nearness
<1>4. /\ book[m].party \in parties \cup {WalkIn}
      /\ book[m].party # WalkIn => Exists(book[m].party)
  BY <1>1, <1>3, DocumentsHaveParties
<1>5. op.party # Unstated => book[m].party \in Named(parties, op.party)
  BY <1>3, <1>4, WalkInsFitNothing DEF Named
<1>6. IsReference(op.doc)
  BY DEF IsCall
<1> HIDE DEF kind, parties
<1>7. i \in LookUp(kind, parties, op.doc, op.party)
  BY DEF kind, parties
<1>8. Nearness(op, m) =
         IF op.doc = Unstated THEN 1
         ELSE IF op.doc.by = "id" THEN IF op.doc.row = m THEN 3 ELSE 0
         ELSE IF book[m].invoice = op.doc.words THEN 3
         ELSE IF op.doc.words \subseteq book[m].invoice THEN 2
         ELSE IF op.party = Unstated /\ op.doc.words \cap Called(book[m].party) # {} THEN 1 ELSE 0
  BY <1>3 DEF Nearness, kind
<1>9. CASE op.doc = Unstated
  <2>1. op.party # Unstated /\ i \in SoleOf(kind, Only(Named(parties, op.party)))
    BY <1>7, <1>9 DEF LookUp, Owners
  <2>2. IsFiniteSet(Named(parties, op.party))
    BY <1>2, FiniteRows
  <2>3. m = i
    BY <1>1, <1>3, <1>5, <2>1, <2>2, SoleDocument
  <2> QED
    BY <2>3
<1>10. CASE op.doc # Unstated /\ op.doc.by = "id"
  <2>1. i \in Of(mine, Documents(kind) \cap {op.doc.row})
    BY <1>7, <1>10 DEF LookUp, mine
  <2>2. i = op.doc.row
    BY <2>1 DEF Of
  <2> QED
    BY <1>8, <1>10, <2>2
<1>11. CASE op.doc # Unstated /\ op.doc.by = "words" /\ WithFragment(kind, op.doc.words) # {}
  <2>1. i \in ByInvoice(kind, op.doc.words, mine)
    BY <1>7, <1>11 DEF LookUp, mine
  <2>2. op.doc.words # {}
    BY <1>6, <1>11 DEF IsReference
  <2>3. i \in Documents(kind) /\ book[i].party \in mine
    BY <2>1, OnlyWithin DEF ByInvoice, FragmentFilter, Of, Newest, WithFragment
  <2>4. book[m].party \in mine
    <3>1. CASE op.party = Unstated
      BY <1>4, <3>1 DEF mine, Owners
    <3>2. CASE op.party # Unstated
      <4>1. mine = Named(parties, op.party)
        BY <2>3, <3>2 DEF mine, Owners, Only
      <4> QED
        BY <1>5, <3>2, <4>1
    <3> QED
      BY <3>1, <3>2
  <2>5. Fits(op.party, book[i].party)
    BY <1>2, <2>3, NamedFits DEF mine
  <2> HIDE DEF mine
  <2>6. /\ op.doc.words \subseteq book[i].invoice
        /\ \/ ~(op.doc.words \subseteq book[m].invoice)
           \/ book[i].invoice = op.doc.words /\ book[m].invoice # op.doc.words
           \/ /\ Crowded(kind, op.doc.words)
              /\ \E x \in Documents(kind) : book[x].party \notin mine
    <3> DEFINE words == op.doc.words
    <3> HIDE DEF words
    <3>1. /\ words # {} /\ i \in ByInvoice(kind, words, mine) /\ m # i
          /\ m \in Documents(kind) /\ book[m].party \in mine
      BY <1>3, <2>1, <2>2, <2>4 DEF words
    <3>2. Nearer(kind, words, mine, i, m)
      BY <1>1, <3>1, FoundByInvoice
    <3> QED
      BY <3>2 DEF words, Nearer
  <2>7. Nearness(op, i) = IF book[i].invoice = op.doc.words THEN 3 ELSE 2
    BY <1>11, <2>3, <2>5, <2>6 DEF Nearness, kind
  <2>8. CASE ~(op.doc.words \subseteq book[m].invoice)
    BY <1>8, <1>11, <2>7, <2>8
  <2>9. CASE book[i].invoice = op.doc.words /\ book[m].invoice # op.doc.words
    BY <1>8, <1>11, <2>7, <2>9
  <2>10. CASE /\ Crowded(kind, op.doc.words)
              /\ \E x \in Documents(kind) : book[x].party \notin mine
    <3>1. op.party # Unstated
      <4>1. ASSUME op.party = Unstated PROVE FALSE
        <5>1. mine = parties \cup {WalkIn}
          BY <4>1 DEF mine, Owners
        <5> QED
          BY <1>1, <2>10, <5>1, DocumentsHaveParties DEF parties
      <4> QED
        BY <4>1
    <3> QED
      BY <1>11, <2>10, <3>1 DEF CutOff, Crowded, kind
  <2> QED
    BY <2>6, <2>8, <2>9, <2>10
<1>12. CASE op.doc # Unstated /\ op.doc.by = "words" /\ WithFragment(kind, op.doc.words) = {}
  <2> DEFINE hinted == {p \in parties : op.doc.words \cap name[p] # {}}
  <2>1. op.party = Unstated /\ i \in SoleOf(kind, Only(hinted))
    BY <1>7, <1>12 DEF LookUp, Hinted
  <2>2. ~(op.doc.words \subseteq book[m].invoice)
    BY <1>3, <1>12 DEF WithFragment
  <2>3. op.doc.words \cap Called(book[m].party) # {}
    BY <1>8, <1>12, <2>2
  <2>4. book[m].party \in hinted
    BY <1>4, <2>3 DEF Called
  <2>5. IsFiniteSet(hinted)
    <3>1. hinted \subseteq parties
      OBVIOUS
    <3> QED
      BY <1>2, <3>1, FS_Subset
  <2> HIDE DEF hinted
  <2>6. m = i
    BY <1>1, <1>3, <2>1, <2>4, <2>5, SoleDocument
  <2> QED
    BY <2>6
<1> QED
  BY <1>6, <1>9, <1>10, <1>11, <1>12 DEF IsReference

LEMMA ReturnAsMeant ==
    ASSUME OnceInv, RowsStand, NEW op, IsCall(op), op.tool \in Returns, NEW target \in Prepared(op),
           NEW m
    PROVE  /\ DocumentAsMeant(op, m, target.doc)
           /\ target.doc # 0
           /\ \A x \in book[target.doc].items : MeansItem(op, x) => x = target.item
<1>1. /\ op.tool = "create_customer_return" =>
            /\ target.doc \in resolve_customer_sale(op.doc, op.party)
            /\ target.item \in resolve_sale_item(target.doc, op.item)
      /\ op.tool = "create_supplier_return" =>
            /\ target.doc \in resolve_supplier_purchase(op.doc, op.party)
            /\ target.item \in resolve_purchase_item(target.doc, op.item)
  BY ReturnFits DEF Prepared, Returns
<1>2. target.doc \in LookUp(Returned(op.tool), PartiesOfKind(Returned(op.tool)), op.doc, op.party)
  BY <1>1, LookUpSales, LookUpPurchases DEF Returned, PartiesOfKind, Returns
<1>3. target.doc \in Rows
  BY <1>1, SaleDocuments, PurchaseDocuments DEF Returns, Documents
<1>4. target.doc # 0
  <2>1. Rows = 1 .. Len(book)
    BY AppendedBook DEF OnceInv, Rows
  <2> QED
    BY <1>3, <2>1
<1>5. ASSUME NEW x \in book[target.doc].items, MeansItem(op, x)
      PROVE  x = target.item
  <2> DEFINE alike == {v \in book[target.doc].items : Alike(op.item, v)}
  <2>1. target.item \in Only(alike)
    BY <1>1 DEF resolve_sale_item, resolve_purchase_item, Returns
  <2>2. IsFiniteSet(alike)
    <3>1. IsFiniteSet(book[target.doc].items) /\ alike \subseteq book[target.doc].items
      BY <1>3 DEF RowsStand, IsRow
    <3> QED
      BY <3>1, FS_Subset
  <2>3. Alike(op.item, x)
    <3>1. op.item # Unstated /\ op.tool # "record_expense"
      BY DEF IsCall, Payments, Returns
    <3> QED
      BY <1>5, <3>1 DEF MeansItem
  <2>4. x \in alike
    BY <1>5, <2>3
  <2> HIDE DEF alike
  <2> QED
    BY <2>1, <2>2, <2>4, OnlyOne
<1> QED
  BY <1>2, <1>4, <1>5, NearestDocument

(* What is prepared is what was meant.                                      *)
LEMMA PreparedAsMeant ==
    ASSUME OnceInv, ShopTyped, RowsStand, NEW op, IsCall(op), NEW target \in Prepared(op),
           NEW meant, MeantFits(op, meant)
    PROVE  AsMeant(op, meant, target)
<1>1. op.tool \in Tools
  BY DEF IsCall
<1>2. CASE op.tool \in Returns
  <2>1. /\ DocumentAsMeant(op, meant.doc, target.doc)
        /\ target.doc # 0
        /\ \A x \in book[target.doc].items : MeansItem(op, x) => x = target.item
    BY <1>2, ReturnAsMeant
  <2> QED
    BY <2>1 DEF AsMeant
<1>3. CASE op.tool \notin Returns
  <2>1. meant.doc = 0 /\ meant.party \in PartiesOf(op.tool) /\ meant.item \in Items(op)
    BY <1>3 DEF MeantFits
  <2>2. MeansParty(op, meant.party) => target.party = meant.party
    BY <1>1, <1>3, <2>1, PartyAsMeant
  <2>3. MeansItem(op, meant.item) => target.item = meant.item
    BY <1>1, <1>3, <2>1, ItemAsMeant
  <2>4. target.doc = 0
    <3>1. CASE op.tool = "create_sale"
      BY <3>1 DEF Prepared, create_sale, Target
    <3>2. CASE op.tool = "create_purchase"
      BY <3>2 DEF Prepared, create_purchase, Target
    <3>3. CASE op.tool \in Payments
      BY <3>3 DEF Payments, Prepared, record_customer_payment, record_supplier_payment, Target
    <3>4. CASE op.tool = "record_expense"
      BY <3>4 DEF Prepared, record_expense, Target
    <3> QED
      BY <1>1, <1>3, <3>1, <3>2, <3>3, <3>4 DEF Tools, Payments, Returns
  <2> QED
    BY <2>1, <2>2, <2>3, <2>4 DEF AsMeant
<1> QED
  BY <1>2, <1>3

(* Only the resolution of its names brings a run from there to the write.   *)
LEMMA OnlyResolveResolves ==
    ASSUME ToolsInv, [Next]_vars, NEW r \in Requests, At(r, "resolve"), At(r, "write")'
    PROVE  Resolve(r)
<1>1. request'[r] # request[r]
  BY DEF At
<1>2. ~UNCHANGED request
  BY <1>1
<1>3. PICK u \in Requests : Run(u) \/ \E op \in calls : Propose(u, op)
  BY <1>2 DEF Next, Others, vars, DeleteParty, Christen, EditVariant, Void, EditLines,
     EnterDocument, Change
<1>4. \A reply : Told(u, reply) => \A v \in Requests \ {u} : request'[v] = request[v]
  BY DEF Told, ToolsInv, OnceInv
<1>5. u = r
  <2>1. ASSUME u # r PROVE request'[r] = request[r]
    <3>1. CASE \E op \in calls : Propose(u, op)
      BY <2>1, <3>1 DEF Propose, ToolsInv, OnceInv
    <3>2. CASE FindReceipt(u)
      BY <1>4, <2>1, <3>2 DEF FindReceipt, ToolsInv, OnceInv
    <3>3. CASE Resolve(u)
      BY <1>4, <2>1, <3>3 DEF Resolve, ToolsInv, OnceInv
    <3>4. CASE Write(u)
      BY <1>4, <2>1, <3>4 DEF Write
    <3>5. CASE Refuse(u)
      BY <1>4, <2>1, <3>5 DEF Refuse
    <3> QED
      BY <1>3, <3>1, <3>2, <3>3, <3>4, <3>5 DEF Run
  <2> QED
    BY <1>1, <2>1
<1>6. ~(\E op \in calls : Propose(r, op))
  <2> SUFFICES ASSUME NEW op \in calls, Propose(r, op) PROVE FALSE
    OBVIOUS
  <2>1. request'[r].at = "paused"
    BY DEF Propose, ToolsInv, OnceInv
  <2> QED
    BY <2>1 DEF At
<1> QED
  BY <1>3, <1>5, <1>6 DEF Run, FindReceipt, Write, Refuse, At

(* A tool acts on the row the person meant, however much the shop changes   *)
(* during the pause, unless that row no longer fits the words, a nearer     *)
(* document has turned up, or it was cut off (resolve_customer,             *)
(* resolve_variant, resolve_customer_sale and their like).                  *)
THEOREM ActsAsMeant == Spec => NeverGuesses
<1>1. ASSUME ToolsInv, [Next]_vars, NEW r \in Requests, At(r, "resolve"), At(r, "write")'
      PROVE  AsMeant(request[r].op, request[r].meant, request'[r].target)
  <2>1. Resolve(r) /\ RequestFits(r)
    BY <1>1, OnlyResolveResolves DEF ToolsInv
  <2>2. IsCall(request[r].op) /\ MeantFits(request[r].op, request[r].meant)
    BY <1>1, <2>1 DEF RequestFits, At
  <2>3. DOMAIN request[r] = {"at", "op", "meant", "target", "reply"}
    BY <2>1 DEF RequestFits, Idle
  <2>4. ~Told(r, Refused)
    <3>1. Told(r, Refused) => request'[r].at = "told"
      BY <1>1 DEF Told, Idle, ToolsInv, OnceInv
    <3> QED
      BY <1>1, <3>1 DEF At
  <2>5. PICK target \in Prepared(request[r].op) :
             request' = [request EXCEPT ![r].at = "write", ![r].target = target]
    BY <2>1, <2>4 DEF Resolve
  <2>6. request'[r].target = target
    BY <1>1, <2>3, <2>5 DEF ToolsInv, OnceInv
  <2> QED
    BY <1>1, <2>2, <2>5, <2>6, PreparedAsMeant DEF ToolsInv
<1>2. ToolsInv /\ [Next]_vars =>
         [\A r \in Requests : At(r, "resolve") /\ At(r, "write")' =>
             AsMeant(request[r].op, request[r].meant, request'[r].target)]_vars
  BY <1>1
<1> QED
  BY <1>2, InitTools, StepFits, PTL DEF Spec, NeverGuesses
=============================================================================
