----------------------------- MODULE MCAiTools -----------------------------
(* Calls over a shop of two customers, a supplier and three variants of two *)
(* products, with three sales of one series and two purchases.              *)
EXTENDS AiTools, TLC

CONSTANTS r1, r2, c1, c2, s1, v1, v2, v3, lawn, shawl, ali, raza, k1

MCProductOf == v1 :> "lawns" @@ v2 :> "lawns" @@ v3 :> "shawls"

Id(row) == [by |-> "id", row |-> row, words |-> {}]
Say(words) == [by |-> "words", row |-> 0, words |-> words]

Call(tool, party, doc, item) ==
    [tool |-> tool, key |-> k1, party |-> party, doc |-> doc, item |-> item,
     qty |-> 2, price |-> Unstated, total |-> Unstated, paid |-> "none", part |-> 0,
     invoice |-> {}]

MCConversations ==
    {{[Call("create_sale", Say({ali}), Unstated, Id(v1)) EXCEPT !.paid = "full"],
      [Call("create_sale", Unstated, Unstated, Say({shawl})) EXCEPT !.paid = "part", !.part = 1]},
     {[Call("record_customer_payment", Say({ali}), Unstated, Unstated) EXCEPT !.total = 1],
      [Call("record_supplier_payment", Say({raza}), Unstated, Unstated) EXCEPT !.total = 1]},
     {Call("create_customer_return", Say({ali}), Say({Series}), Id(v1)),
      Call("create_customer_return", Unstated, Say({ali}), Say({lawn}))},
     {Call("create_customer_return", Id(c1), Unstated, Id(v1)),
      Call("create_customer_return", Unstated, Say({Series, 1}), Say({lawn}))},
     {Call("create_supplier_return", Say({raza}), Say({Series}), Say({lawn})),
      [Call("record_expense", Unstated, Unstated, Say({"rent"})) EXCEPT !.total = 1]},
     {[Call("create_purchase", Say({raza}), Unstated, Say({shawl}))
         EXCEPT !.qty = 5, !.total = 12, !.paid = "full", !.invoice = {ali}],
      [Call("create_purchase", Id(s1), Unstated, Say({lawn}))
         EXCEPT !.qty = 3, !.price = 1, !.total = 1, !.paid = "full"],
      [Call("create_purchase", Id(s1), Unstated, Id(v2))
         EXCEPT !.qty = 4, !.price = 1, !.total = 3, !.paid = "full"]}}

MCPartyNames == {{ali}, {raza}}
MCProductNames == {{lawn}, {lawn, shawl}}
MCLineSets == {{v1}, {v3}}
Everybody == Permutations(Requests)

MCInvoices == {{Series, 9}, {ali}}

Entered(kind, p, invoice, items) ==
    [kind |-> kind, live |-> TRUE, slot |-> ByHand, party |-> p, doc |-> 0, items |-> items,
     invoice |-> invoice, total |-> 0, paid |-> 0]

Named2(other) ==
    c1 :> {ali} @@ c2 :> other @@ s1 :> {raza} @@ "lawns" :> {lawn} @@ "shawls" :> {shawl}

MCFirstShops ==
    [name : {Named2({raza}), Named2({ali, raza})},
     variant : {[v \in Variants |-> [price |-> 1, active |-> v # v2]]},
     book : {<<Entered("create_sale", c1, {Series, 1}, {v1}),
               Entered("create_sale", c1, {Series, 2}, {v1, v3}),
               Entered("create_sale", c2, {Series, 3}, {v1}),
               Entered("create_purchase", s1, {Series, 4}, {v1})>>,
             <<Entered("create_sale", c1, {Series, 1}, {v1, v2})>>}]
=============================================================================
