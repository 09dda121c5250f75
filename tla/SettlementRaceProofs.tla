------------------------ MODULE SettlementRaceProofs ------------------------
(***************************************************************************)
(* The row locks do their work for any number of bills, payments and       *)
(* overlapping requests: a commit is one step of SettledBills, and the     *)
(* settlements of a party stay within its bills.  What makes it inductive  *)
(* is that a request knows the rows it holds: what it has read of them is  *)
(* still so when it writes.                                                *)
(***************************************************************************)
EXTENDS SettlementRace, FiniteSetTheorems, FunctionTheorems, TLAPS

-----------------------------------------------------------------------------
(* Sums over rows, when rows are added, removed or rewritten.               *)

(* The sum of finitely many amounts is a natural number.                    *)
LEMMA TallyType ==
    ASSUME NEW f, NEW S, IsFiniteSet(S)
    PROVE  /\ IsFiniteSet(Units(f, S))
           /\ TallyOf(f, S) \in Nat
<1>1. IsFiniteSet(Amounts)
  BY FS_Interval, MaxAmountIsNat DEF Amounts
<1>2. IsFiniteSet(S \X Amounts)
  BY <1>1, FS_Product
<1>3. Units(f, S) \in SUBSET (S \X Amounts)
  BY DEF Units
<1>4. IsFiniteSet(Units(f, S))
  BY <1>2, <1>3, FS_Subset
<1> QED
  BY <1>4, FS_CardinalityType DEF TallyOf

(* A sum only depends on the column of the rows summed.                     *)
LEMMA TallySame ==
    ASSUME NEW f, NEW g, NEW S, \A x \in S : f[x] = g[x]
    PROVE  TallyOf(f, S) = TallyOf(g, S)
<1>1. Units(f, S) = Units(g, S)
  BY DEF Units
<1> QED
  BY <1>1 DEF TallyOf

(* Adding a row adds its amount; removing one takes it away.                *)
LEMMA TallyAdd ==
    ASSUME NEW f, NEW S, NEW x, IsFiniteSet(S), x \notin S, f[x] \in 0 .. MaxAmount
    PROVE  TallyOf(f, S \cup {x}) = TallyOf(f, S) + f[x]
<1> DEFINE row == {x} \X (1 .. f[x])
<1>1. Units(f, S \cup {x}) = Units(f, S) \cup row /\ Units(f, S) \cap row = {}
  BY MaxAmountIsNat DEF Units, Amounts
<1>2. f[x] \in Nat
  BY MaxAmountIsNat
<1>3. IsFiniteSet(1 .. f[x]) /\ Cardinality(1 .. f[x]) = IF 1 > f[x] THEN 0 ELSE f[x] - 1 + 1
  BY <1>2, FS_Interval
<1>4. IsFiniteSet({x}) /\ Cardinality({x}) = 1
  BY FS_Singleton
<1>5. IsFiniteSet(row) /\ Cardinality(row) = Cardinality({x}) * Cardinality(1 .. f[x])
  BY <1>3, <1>4, FS_Product
<1>6. Cardinality(row) = f[x]
  <2>1. Cardinality(1 .. f[x]) = f[x]
    BY <1>2, <1>3
  <2> HIDE DEF row
  <2> QED
    BY <1>2, <1>4, <1>5, <2>1
<1> HIDE DEF row
<1>7. IsFiniteSet(Units(f, S)) /\ Cardinality(Units(f, S)) \in Nat
  BY TallyType DEF TallyOf
<1>8. Cardinality({}) = 0
  BY FS_EmptySet
<1>9. Cardinality(Units(f, S) \cup row) = Cardinality(Units(f, S)) + Cardinality(row) - 0
  BY <1>1, <1>5, <1>7, <1>8, FS_Union
<1>10. Cardinality(Units(f, S \cup {x})) = Cardinality(Units(f, S)) + f[x]
  BY <1>1, <1>2, <1>6, <1>7, <1>9
<1> QED
  BY <1>10 DEF TallyOf

(* A finite set of at most n elements can be numbered with 1, ..., n.       *)
LEMMA Numbering ==
    ASSUME NEW S, IsFiniteSet(S), NEW n \in Nat, Cardinality(S) <= n
    PROVE  \E h \in [S -> 1 .. n] : \A x, y \in S : h[x] = h[y] => x = y
<1>1. Cardinality(S) \in Nat /\ ExistsBijection(1 .. Cardinality(S), S)
  BY FS_CardinalityType
<1>2. ExistsBijection(S, 1 .. Cardinality(S))
  BY <1>1, Fun_ExistsBijSymmetric
<1>3. PICK h : h \in Bijection(S, 1 .. Cardinality(S))
  BY <1>2 DEF ExistsBijection
<1>4. h \in [S -> 1 .. Cardinality(S)] /\ \A x, y \in S : h[x] = h[y] => x = y
  <2>1. h \in Injection(S, 1 .. Cardinality(S))
    BY <1>3 DEF Bijection
  <2> DEFINE T == 1 .. Cardinality(S)
  <2> HIDE DEF T
  <2>2. h \in [S -> T] /\ \A x, y \in S : h[x] = h[y] => x = y
    <3>1. h \in Injection(S, T)
      BY <2>1 DEF T
    <3> QED
      BY <3>1 DEF Injection, IsInjective
  <2> QED
    BY <2>2 DEF T
<1>5. 1 .. Cardinality(S) \subseteq 1 .. n
  BY <1>1
<1> QED
  BY <1>4, <1>5

(* Rows are grouped by the row they belong to: when no group comes to more  *)
(* than the amount of its row, all of them come to no more than these rows. *)
LEMMA TallyOfGroups ==
    ASSUME NEW f, NEW S, IsFiniteSet(S), NEW g, NEW T, IsFiniteSet(T), NEW home \in [S -> T],
           \A t \in T : g[t] \in 0 .. MaxAmount,
           \A t \in T : TallyOf(f, {s \in S : home[s] = t}) <= g[t]
    PROVE  TallyOf(f, S) <= TallyOf(g, T)
<1> DEFINE group(t) == Units(f, {s \in S : home[s] = t})
           numbered(t, h) == /\ h \in [group(t) -> 1 .. g[t]]
                             /\ \A x, y \in group(t) : h[x] = h[y] => x = y
           number == [t \in T |-> CHOOSE h : numbered(t, h)]
           F == [u \in Units(f, S) |-> <<home[u[1]], number[home[u[1]]][u]>>]
<1>1. ASSUME NEW t \in T PROVE numbered(t, number[t])
  <2>1. g[t] \in Nat
    BY MaxAmountIsNat
  <2>2. IsFiniteSet({s \in S : home[s] = t})
    BY FS_Subset
  <2>3. IsFiniteSet(group(t)) /\ Cardinality(group(t)) <= g[t]
    BY <2>2, TallyType DEF TallyOf
  <2>4. \E h : numbered(t, h)
    BY <2>1, <2>3, Numbering
  <2>5. numbered(t, CHOOSE h : numbered(t, h))
    BY <2>4
  <2> QED
    BY <2>5
<1> HIDE DEF number
<1>2. ASSUME NEW u \in Units(f, S)
      PROVE  /\ u = <<u[1], u[2]>> /\ home[u[1]] \in T /\ u \in group(home[u[1]])
             /\ number[home[u[1]]][u] \in 1 .. g[home[u[1]]]
             /\ F[u] \in Units(g, T)
  <2>1. /\ u \in S \X Amounts /\ u[2] <= f[u[1]] /\ u[1] \in S /\ u[2] \in Amounts
        /\ u = <<u[1], u[2]>>
    BY DEF Units
  <2>2. home[u[1]] \in T
    BY <2>1
  <2>3. u \in group(home[u[1]])
    BY <2>1 DEF Units
  <2>4. number[home[u[1]]][u] \in 1 .. g[home[u[1]]]
    BY <1>1, <2>2, <2>3
  <2>5. g[home[u[1]]] \in 0 .. MaxAmount
    BY <2>2
  <2>6. number[home[u[1]]][u] \in Amounts /\ number[home[u[1]]][u] <= g[home[u[1]]]
    BY <2>4, <2>5, MaxAmountIsNat DEF Amounts
  <2>7. <<home[u[1]], number[home[u[1]]][u]>> \in Units(g, T)
    BY <2>2, <2>6 DEF Units
  <2> QED
    BY <2>1, <2>2, <2>3, <2>4, <2>7
<1>3. F \in [Units(f, S) -> Units(g, T)]
  BY <1>2
<1>4. ASSUME NEW u \in Units(f, S), NEW v \in Units(f, S), F[u] = F[v] PROVE u = v
  <2>1. F[u] = <<home[u[1]], number[home[u[1]]][u]>> /\ F[v] = <<home[v[1]], number[home[v[1]]][v]>>
    OBVIOUS
  <2> HIDE DEF F
  <2>2. home[u[1]] = home[v[1]] /\ number[home[u[1]]][u] = number[home[u[1]]][v]
    <3> DEFINE a == home[u[1]]
               b == home[v[1]]
               m == number[a][u]
               n == number[b][v]
    <3> HIDE DEF a, b, m, n
    <3>1. <<a, m>> = <<b, n>>
      BY <1>4, <2>1 DEF a, b, m, n
    <3>2. a = b /\ m = n
      BY <3>1
    <3> QED
      BY <3>2 DEF a, b, m, n
  <2>3. u \in group(home[u[1]]) /\ v \in group(home[u[1]]) /\ home[u[1]] \in T
    BY <1>2, <2>2
  <2> QED
    BY <1>1, <2>2, <2>3
<1>5. F \in Injection(Units(f, S), Units(g, T))
  <2> HIDE DEF F
  <2> QED
    BY <1>3, <1>4, Fun_IsInj
<1>6. IsFiniteSet(Units(g, T))
  BY TallyType
<1> QED
  BY <1>5, <1>6, FS_Injection DEF TallyOf

-----------------------------------------------------------------------------
Late == {"bills", "payments", "returns", "doomed", "write"}

(* These first read their bill under its lock.                              *)
LockingReaders == Settlers \cup Voiders \cup Deleters

Recorded(b) == TallyOf(Promise!Amount, Promise!Allocated(b))

(* The paid amount of a live bill is what its payments come to, and at least*)
(* that for a purchase; what went to the Khata was refunded.                *)
BillInv(b) ==
    /\ bill[b].live =>
          /\ bill[b].total \in Totals
          /\ bill[b].paid <= bill[b].total
          /\ Recorded(b) <= bill[b].paid
          /\ side = "sale" => bill[b].paid = Recorded(b)
    /\ side = "purchase" => bill[b].status = "partial"
    /\ bill[b].back <= bill[b].refunded

PlaceInv(r) ==
    LET q == request[r]
    IN  /\ q.at = "load" => r \in Editors \cup Returners
        /\ q.at = "party" => r \in Settlers
        /\ q.at \in {"bills", "payments", "returns"} => r \in Settlers
        /\ q.at = "payment" => r \in Voiders /\ q.payment \in Payments
        /\ q.at = "doomed" => r \in Deleters
        /\ q.at \in {"load", "bill", "doomed"} => q.bill \in Bills
        /\ q.at = "write" /\ r \notin Settlers \cup Voiders => q.bill \in Bills
        /\ r \in Settlers \cup Returners /\ q.at \notin {"idle", "done"} => q.amount \in Amounts

SeenInv(r) ==
    LET q == request[r]
    IN  /\ q.seen.live => q.seen.total \in Totals
        /\ side = "purchase" => q.seen.status = "partial"
        /\ r \in LockingReaders /\ q.at \notin Late => ~q.seen.live

(* A request past the lock of its bill holds it.                            *)
HeldInv(r) ==
    LET q == request[r]
    IN  q.at \in Late /\ q.bill # NoBill =>
            /\ owner[q.bill] = r
            /\ bill[q.bill].live
            /\ q.seen.live
            /\ r \in LockingReaders => q.seen = bill[q.bill]

(* A void past the lock of its payment holds it.                            *)
VoidInv(r) ==
    LET q == request[r]
    IN  r \in Voiders /\ q.at \in {"bill", "write"} =>
            /\ q.payment \in Payments
            /\ owner[q.payment] = r
            /\ pay[q.payment].state = "live"
            /\ pay[q.payment].bill = q.bill

(* A delete holds the payments of its bill, but for those still to be       *)
(* locked.                                                                  *)
DeleteInv(r) ==
    LET q == request[r]
    IN  r \in Deleters /\ q.at \in {"doomed", "write"} =>
            /\ \A p \in Promise!Allocated(q.bill) : p \in q.doomed \/ owner[p] = r
            /\ q.at = "write" => q.doomed = {} /\ bill[q.bill].refunded = 0

RequestInv(r) == PlaceInv(r) /\ SeenInv(r) /\ HeldInv(r) /\ VoidInv(r) /\ DeleteInv(r)

RowsInv ==
    /\ TypeOK
    /\ \A b \in Bills : BillInv(b)
    /\ \A r \in Requests : RequestInv(r)

-----------------------------------------------------------------------------
(* The bills of the promise are counted like those of the race.             *)
LEMMA SameTally ==
    /\ Promise!Amounts = Amounts
    /\ \A f, S : Promise!TallyOf(f, S) = TallyOf(f, S)
<1>1. Promise!Amounts = Amounts
  BY DEF Promise!Amounts, Amounts
<1>2. ASSUME NEW f, NEW S PROVE Promise!TallyOf(f, S) = TallyOf(f, S)
  <2>1. Promise!Units(f, S) = Units(f, S)
    BY <1>1 DEF Promise!Units, Units
  <2> QED
    BY <2>1 DEF Promise!TallyOf, TallyOf, Promise!Cardinality, Cardinality
<1> QED
  BY <1>1, <1>2

(* The fields of a bill that is not there.                                  *)
LEMMA NoRowFields ==
    /\ Promise!NoRow \in BillRow
    /\ Promise!NoRow.live = FALSE
    /\ Promise!NoRow.paid = 0 /\ Promise!NoRow.total = 0
    /\ Promise!NoRow.refunded = 0 /\ Promise!NoRow.back = 0
    /\ Promise!NoRow.status = "partial"
  BY MaxAmountIsNat DEF Promise!NoRow, BillRow

(* A purchase is always partial.                                            *)
LEMMA StatusType ==
    ASSUME NEW paid, NEW total
    PROVE  /\ Promise!StatusFor(paid, total) \in {"partial", "completed"}
           /\ side = "purchase" => Promise!StatusFor(paid, total) = "partial"
  BY DEF Promise!StatusFor

(* A bill whose paid amount changes keeps the rest.                         *)
LEMMA WithPaidFields ==
    ASSUME NEW row \in BillRow, NEW paid \in 0 .. MaxAmount
    PROVE  /\ Promise!WithPaid(row, paid) \in BillRow
           /\ Promise!WithPaid(row, paid).paid = paid
           /\ Promise!WithPaid(row, paid).total = row.total
           /\ Promise!WithPaid(row, paid).live = row.live
           /\ Promise!WithPaid(row, paid).refunded = row.refunded
           /\ Promise!WithPaid(row, paid).back = row.back
           /\ Promise!WithPaid(row, paid).status = Promise!StatusFor(paid, row.total)
  BY StatusType DEF Promise!WithPaid, BillRow

(* The fields of a request that has not arrived.                            *)
LEMMA FreshFields ==
    /\ Fresh.at = "idle" /\ Fresh.bill = NoBill /\ Fresh.payment = Nobody
    /\ Fresh.amount = 0 /\ Fresh.total = Keep /\ Fresh.doomed = {}
    /\ Fresh.seen = Promise!NoRow /\ Fresh.balance = 0
  BY DEF Fresh

(* The type of a request, one field at a time.                              *)
RequestType == [at : Steps, bill : Bills \cup {NoBill}, payment : Payments \cup {Nobody},
                amount : 0 .. MaxAmount, total : Totals \cup {Keep}, doomed : SUBSET Payments,
                seen : BillRow, balance : Int]

(* A request is well typed before it arrives and when it is done.           *)
LEMMA FreshType ==
    /\ Fresh \in RequestType
    /\ [Fresh EXCEPT !.at = "done"] \in RequestType
  BY NoRowFields, MaxAmountIsNat DEF Fresh, RequestType, Steps

(* What the assumptions say of amounts and identifiers.                     *)
LEMMA Bounds ==
    /\ MaxAmount \in Nat
    /\ Totals \subseteq 0 .. MaxAmount
    /\ Amounts \subseteq 0 .. MaxAmount
    /\ \A a \in Amounts : a \in 0 .. MaxAmount /\ a > 0
    /\ \A t \in Totals : t \in 0 .. MaxAmount /\ t \in Nat
    /\ 0 \in 0 .. MaxAmount
    /\ IsFiniteSet(Bills) /\ IsFiniteSet(Payments)
    /\ NoBill \notin Bills
  BY MaxAmountIsNat, RaceAssumption DEF Amounts

PayType == [state : {"unused", "live", "deleted"}, bill : Bills \cup {NoBill},
            amount : 0 .. MaxAmount]

(* TypeOK with the types by name.                                           *)
LEMMA Types ==
    TypeOK <=>
        /\ side \in {"sale", "purchase"}
        /\ bill \in [Bills -> BillRow]
        /\ pay \in [Payments -> PayType]
        /\ booked \in [Bills -> Nat]
        /\ owner \in [Rows -> Requests \cup {Nobody}]
        /\ request \in [Requests -> RequestType]
  BY DEF TypeOK, PayType, RequestType

(* The type of a bill, one field at a time.                                 *)
LEMMA RowFields ==
    ASSUME NEW row \in BillRow
    PROVE  /\ row.live \in BOOLEAN
           /\ row.total \in 0 .. MaxAmount /\ row.paid \in 0 .. MaxAmount
           /\ row.refunded \in 0 .. MaxAmount /\ row.back \in 0 .. MaxAmount
           /\ row.total \in Int /\ row.paid \in Int /\ row.refunded \in Int /\ row.back \in Int
           /\ row.total >= 0 /\ row.paid >= 0 /\ row.refunded >= 0 /\ row.back >= 0
           /\ row.status \in {"partial", "completed"}
  BY MaxAmountIsNat DEF BillRow

(* The type of a payment, one field at a time.                              *)
LEMMA PaymentFields ==
    ASSUME TypeOK, NEW p \in Payments
    PROVE  /\ pay[p].state \in {"unused", "live", "deleted"}
           /\ pay[p].bill \in Bills \cup {NoBill}
           /\ pay[p].amount \in 0 .. MaxAmount
           /\ pay[p].amount \in Int /\ pay[p].amount >= 0
           /\ Promise!Amount[p] = pay[p].amount
  BY MaxAmountIsNat DEF TypeOK, Promise!Amount

(* The fields of a well-typed request.                                      *)
LEMMA RequestFields ==
    ASSUME TypeOK, NEW r \in Requests
    PROVE  /\ request[r] \in RequestType
           /\ request[r].at \in Steps
           /\ request[r].bill \in Bills \cup {NoBill}
           /\ request[r].payment \in Payments \cup {Nobody}
           /\ request[r].amount \in 0 .. MaxAmount
           /\ request[r].amount \in Int
           /\ request[r].total \in Totals \cup {Keep}
           /\ request[r].doomed \subseteq Payments
           /\ request[r].seen \in BillRow
           /\ request[r].balance \in Int
  BY MaxAmountIsNat DEF TypeOK, RequestType

(* Payments of a bill, and what they come to.                               *)
LEMMA RecordedType ==
    ASSUME NEW b
    PROVE  /\ Promise!Allocated(b) \subseteq Payments
           /\ IsFiniteSet(Promise!Allocated(b))
           /\ Recorded(b) \in Nat
<1>1. Promise!Allocated(b) \subseteq Payments
  BY DEF Promise!Allocated
<1>2. IsFiniteSet(Promise!Allocated(b))
  BY <1>1, Bounds, FS_Subset
<1> QED
  BY <1>1, <1>2, TallyType DEF Recorded

(* One payment of a bill is no more than all of them.                       *)
LEMMA PartOfRecorded ==
    ASSUME TypeOK, NEW b, NEW p \in Promise!Allocated(b)
    PROVE  /\ Recorded(b)
                = TallyOf(Promise!Amount, Promise!Allocated(b) \ {p}) + pay[p].amount
           /\ pay[p].amount <= Recorded(b)
<1> DEFINE rest == Promise!Allocated(b) \ {p}
<1>1. p \in Payments
  BY RecordedType
<1>2. IsFiniteSet(rest)
  BY RecordedType, FS_Subset
<1>3. Promise!Allocated(b) = rest \cup {p} /\ p \notin rest
  OBVIOUS
<1>4. Promise!Amount[p] \in 0 .. MaxAmount /\ Promise!Amount[p] = pay[p].amount
  BY <1>1, PaymentFields
<1>5. TallyOf(Promise!Amount, rest \cup {p}) = TallyOf(Promise!Amount, rest) + Promise!Amount[p]
  BY <1>2, <1>3, <1>4, TallyAdd
<1>6. TallyOf(Promise!Amount, rest) \in Nat
  BY <1>2, TallyType
<1>7. pay[p].amount \in Int /\ pay[p].amount >= 0
  BY <1>1, PaymentFields
<1>8. Recorded(b) = TallyOf(Promise!Amount, rest) + pay[p].amount
  BY <1>3, <1>4, <1>5 DEF Recorded
<1> QED
  BY <1>6, <1>7, <1>8

-----------------------------------------------------------------------------
(* What a step of one request leaves to the others.                         *)
LeavesTheRest(r) ==
    /\ side' = side
    /\ request' \in [Requests -> RequestType]
    /\ owner' \in [Rows -> Requests \cup {Nobody}]
    /\ \A u \in Requests \ {r} :
          /\ request'[u] = request[u]
          /\ \A row \in Rows : owner[row] = u => owner'[row] = u

SparesHeldRows(r) ==
    \A u \in Requests \ {r} :
        /\ \A b \in Bills : owner[b] = u =>
              /\ bill'[b] = bill[b]
              /\ \A p \in Payments : pay'[p].state = "live" /\ pay'[p].bill = b =>
                    pay[p].state = "live" /\ pay[p].bill = b
        /\ \A p \in Payments : owner[p] = u /\ pay[p].state = "live" => pay'[p] = pay[p]

(* What the others know of their rows stays true.                           *)
LEMMA OthersKnow ==
    ASSUME TypeOK, NEW r \in Requests, LeavesTheRest(r), SparesHeldRows(r),
           NEW u \in Requests \ {r}, RequestInv(u)
    PROVE  RequestInv(u)'
<1> DEFINE q == request[u]
<1>1. request'[u] = q /\ side' = side /\ q.bill \in Bills \cup {NoBill} /\ u \in Requests
  BY RequestFields DEF LeavesTheRest
<1>2. \A row \in Rows : owner[row] = u => owner'[row] = u
  BY DEF LeavesTheRest
<1>3. Bills \subseteq Rows /\ Payments \subseteq Rows
  BY DEF Rows
<1>4. PlaceInv(u)' /\ SeenInv(u)'
  BY <1>1 DEF RequestInv, PlaceInv, SeenInv
<1>5. HeldInv(u)'
  <2> SUFFICES ASSUME q.at \in Late, q.bill # NoBill
               PROVE  /\ owner'[q.bill] = u
                      /\ bill'[q.bill].live
                      /\ q.seen.live
                      /\ u \in LockingReaders => q.seen = bill'[q.bill]
    BY <1>1 DEF HeldInv
  <2>1. /\ q.bill \in Bills /\ owner[q.bill] = u /\ bill[q.bill].live /\ q.seen.live
        /\ u \in LockingReaders => q.seen = bill[q.bill]
    BY <1>1 DEF RequestInv, HeldInv
  <2>2. bill'[q.bill] = bill[q.bill]
    BY <2>1 DEF SparesHeldRows
  <2> QED
    BY <1>2, <1>3, <2>1, <2>2
<1>6. VoidInv(u)'
  <2> SUFFICES ASSUME u \in Voiders, q.at \in {"bill", "write"}
               PROVE  /\ q.payment \in Payments
                      /\ owner'[q.payment] = u
                      /\ pay'[q.payment].state = "live"
                      /\ pay'[q.payment].bill = q.bill
    BY <1>1 DEF VoidInv
  <2>1. /\ q.payment \in Payments /\ owner[q.payment] = u
        /\ pay[q.payment].state = "live" /\ pay[q.payment].bill = q.bill
    BY DEF RequestInv, VoidInv
  <2>2. pay'[q.payment] = pay[q.payment]
    BY <2>1 DEF SparesHeldRows
  <2> QED
    BY <1>2, <1>3, <2>1, <2>2
<1>7. DeleteInv(u)'
  <2> SUFFICES ASSUME u \in Deleters, q.at \in {"doomed", "write"}
               PROVE  /\ \A p \in Payments :
                            pay'[p].state = "live" /\ pay'[p].bill = q.bill
                               => p \in q.doomed \/ owner'[p] = u
                      /\ q.at = "write" => q.doomed = {} /\ bill'[q.bill].refunded = 0
    BY <1>1 DEF DeleteInv, Promise!Allocated
  <2>1. u \notin Settlers \cup Voiders
    BY KindAssumption
  <2>2. q.bill \in Bills
    BY <2>1 DEF RequestInv, PlaceInv
  <2>3. owner[q.bill] = u
    BY <2>2, Bounds DEF RequestInv, HeldInv, Late
  <2>4. /\ bill'[q.bill] = bill[q.bill]
        /\ \A p \in Payments : pay'[p].state = "live" /\ pay'[p].bill = q.bill =>
              pay[p].state = "live" /\ pay[p].bill = q.bill
    BY <2>2, <2>3 DEF SparesHeldRows
  <2>5. \A p \in Payments : pay[p].state = "live" /\ pay[p].bill = q.bill =>
              p \in q.doomed \/ owner[p] = u
    BY DEF RequestInv, DeleteInv, Promise!Allocated
  <2>6. q.at = "write" => q.doomed = {} /\ bill[q.bill].refunded = 0
    BY DEF RequestInv, DeleteInv
  <2> QED
    BY <1>2, <1>3, <2>4, <2>5, <2>6
<1> QED
  BY <1>4, <1>5, <1>6, <1>7 DEF RequestInv

(* A step that commits nothing.                                             *)
LEMMA QuietStep ==
    ASSUME RowsInv, NEW r \in Requests, LeavesTheRest(r), UNCHANGED Committed, RequestInv(r)'
    PROVE  RowsInv'
<1>1. bill' = bill /\ pay' = pay /\ booked' = booked /\ side' = side
  BY DEF Committed, LeavesTheRest
<1>2. TypeOK'
  BY <1>1 DEF RowsInv, TypeOK, LeavesTheRest, RequestType
<1>3. ASSUME NEW b \in Bills PROVE BillInv(b)'
  <2>1. Recorded(b)' = Recorded(b)
    BY <1>1 DEF Recorded, Promise!Amount, Promise!Allocated
  <2> QED
    BY <1>1, <2>1 DEF RowsInv, BillInv
<1>4. SparesHeldRows(r)
  BY <1>1 DEF SparesHeldRows
<1>5. ASSUME NEW u \in Requests PROVE RequestInv(u)'
  BY <1>4, OthersKnow DEF RowsInv
<1> QED
  BY <1>2, <1>3, <1>5 DEF RowsInv

(* A request that ends lets go of everything.                               *)
LEMMA Ending ==
    ASSUME TypeOK, side' = side, NEW r \in Requests, Commit(r)
    PROVE  LeavesTheRest(r) /\ RequestInv(r)'
<1>1. request \in [Requests -> RequestType] /\ owner \in [Rows -> Requests \cup {Nobody}]
  BY Types
<1> DEFINE done == [Fresh EXCEPT !.at = "done"]
<1>2. request' = [request EXCEPT ![r] = done] /\ owner' = Released(r)
  BY DEF Commit
<1>3. done \in RequestType
  BY FreshType
<1>4. /\ done.at = "done" /\ done.seen = Promise!NoRow
  BY DEF Fresh
<1> HIDE DEF done
<1>5. /\ request'[r] = done
      /\ request' \in [Requests -> RequestType]
      /\ \A u \in Requests \ {r} : request'[u] = request[u]
  BY <1>1, <1>2, <1>3
<1>6. /\ owner' \in [Rows -> Requests \cup {Nobody}]
      /\ \A u \in Requests \ {r} : \A row \in Rows : owner[row] = u => owner'[row] = u
  BY <1>1, <1>2 DEF Released
<1>7. RequestInv(r)'
  BY <1>4, <1>5, NoRowFields
     DEF RequestInv, PlaceInv, SeenInv, HeldInv, VoidInv, DeleteInv, Late
<1> QED
  BY <1>5, <1>6, <1>7 DEF LeavesTheRest

(* A rollback is such an end.                                               *)
LEMMA RollingBack ==
    ASSUME RowsInv, side' = side, NEW r \in Requests, RollBack(r)
    PROVE  RowsInv'
<1>1. TypeOK /\ Commit(r) /\ UNCHANGED Committed
  BY DEF RowsInv, RollBack, Committed
<1> QED
  BY <1>1, Ending, QuietStep

(* A request that moves on, with or without another lock.                   *)
LEMMA MovingOn ==
    ASSUME TypeOK, side' = side, NEW r \in Requests, NEW q \in RequestType,
           request' = [request EXCEPT ![r] = q],
           owner' = owner \/ \E row \in Rows : Take(r, row)
    PROVE  LeavesTheRest(r) /\ request'[r] = q
<1>1. request \in [Requests -> RequestType] /\ owner \in [Rows -> Requests \cup {Nobody}]
  BY Types
<1>2. /\ request'[r] = q
      /\ request' \in [Requests -> RequestType]
      /\ \A u \in Requests \ {r} : request'[u] = request[u]
  BY <1>1
<1>3. Nobody \notin Requests
  BY RaceAssumption
<1>4. CASE owner' = owner
  BY <1>1, <1>2, <1>4 DEF LeavesTheRest
<1>5. ASSUME NEW row \in Rows, Take(r, row) PROVE LeavesTheRest(r)
  BY <1>1, <1>2, <1>3, <1>5 DEF LeavesTheRest, Take, Free
<1> QED
  BY <1>2, <1>4, <1>5

-----------------------------------------------------------------------------
(* The steps that commit nothing.                                           *)
LEMMA ArriveStep ==
    ASSUME RowsInv, side' = side, NEW r \in Requests, Arrive(r)
    PROVE  RowsInv'
<1> DEFINE
      Settling(b, amount) == [Fresh EXCEPT !.at = "party", !.bill = b, !.amount = amount]
      Voiding(p) == [Fresh EXCEPT !.at = "payment", !.payment = p]
      Editing(b, total) == [Fresh EXCEPT !.at = "load", !.bill = b, !.total = total]
      Deleting(b) == [Fresh EXCEPT !.at = "bill", !.bill = b]
      Returning(first, b, refund) == [Fresh EXCEPT !.at = first, !.bill = b, !.amount = refund]
<1>1. TypeOK /\ owner' = owner /\ UNCHANGED Committed
  BY DEF RowsInv, Arrive, Committed
<1>2. SUFFICES ASSUME NEW q \in RequestType,
                      request' = [request EXCEPT ![r] = q],
                      ~q.seen.live, q.seen.status = "partial", q.at \notin Late,
                      q.at = "load" => r \in Editors \cup Returners,
                      q.at = "party" => r \in Settlers,
                      q.at = "payment" => r \in Voiders /\ q.payment \in Payments,
                      q.at \in {"load", "bill"} => q.bill \in Bills,
                      q.at = "bill" => r \notin Voiders,
                      r \in Settlers \cup Returners => q.amount \in Amounts
               PROVE  RequestInv(r)'
  <2> USE NoRowFields, FreshFields, FreshType, Bounds DEF Late
  <2>0. ~Promise!NoRow.live /\ Promise!NoRow.status = "partial"
    OBVIOUS
  <2>1. CASE /\ r \in Settlers
             /\ \E b \in Bills \cup {NoBill}, amount \in Amounts :
                   request' = [request EXCEPT ![r] = Settling(b, amount)]
    <3>1. PICK b \in Bills \cup {NoBill}, amount \in Amounts :
                   request' = [request EXCEPT ![r] = Settling(b, amount)]
      BY <2>1
    <3>2. /\ Settling(b, amount) \in RequestType
          /\ Settling(b, amount).at = "party" /\ Settling(b, amount).amount = amount
          /\ Settling(b, amount).seen = Promise!NoRow
      BY DEF Fresh, RequestType, Steps
    <3> HIDE DEF Settling
    <3>3. RequestInv(r)'
      BY <1>2, <2>0, <2>1, <3>1, <3>2
    <3> QED
      BY <1>1, <3>1, <3>2, <3>3, MovingOn, QuietStep
  <2>2. CASE /\ r \in Voiders
             /\ \E p \in Payments : request' = [request EXCEPT ![r] = Voiding(p)]
    <3>1. PICK p \in Payments : request' = [request EXCEPT ![r] = Voiding(p)]
      BY <2>2
    <3>2. /\ Voiding(p) \in RequestType
          /\ Voiding(p).at = "payment" /\ Voiding(p).payment = p
          /\ Voiding(p).seen = Promise!NoRow
      BY DEF Fresh, RequestType, Steps
    <3>3. r \notin Settlers \cup Returners
      BY <2>2, KindAssumption
    <3> HIDE DEF Voiding
    <3>4. RequestInv(r)'
      BY <1>2, <2>0, <2>2, <3>1, <3>2, <3>3
    <3> QED
      BY <1>1, <3>1, <3>2, <3>4, MovingOn, QuietStep
  <2>3. CASE /\ r \in Editors
             /\ \E b \in Bills, total \in Totals \cup {Keep} :
                   request' = [request EXCEPT ![r] = Editing(b, total)]
    <3>1. PICK b \in Bills, total \in Totals \cup {Keep} :
                   request' = [request EXCEPT ![r] = Editing(b, total)]
      BY <2>3
    <3>2. /\ Editing(b, total) \in RequestType
          /\ Editing(b, total).at = "load" /\ Editing(b, total).bill = b
          /\ Editing(b, total).seen = Promise!NoRow
      BY DEF Fresh, RequestType, Steps
    <3>3. r \notin Settlers \cup Returners
      BY <2>3, KindAssumption
    <3> HIDE DEF Editing
    <3>4. RequestInv(r)'
      BY <1>2, <2>0, <2>3, <3>1, <3>2, <3>3
    <3> QED
      BY <1>1, <3>1, <3>2, <3>4, MovingOn, QuietStep
  <2>4. CASE /\ r \in Deleters
             /\ \E b \in Bills : request' = [request EXCEPT ![r] = Deleting(b)]
    <3>1. PICK b \in Bills : request' = [request EXCEPT ![r] = Deleting(b)]
      BY <2>4
    <3>2. /\ Deleting(b) \in RequestType
          /\ Deleting(b).at = "bill" /\ Deleting(b).bill = b
          /\ Deleting(b).seen = Promise!NoRow
      BY DEF Fresh, RequestType, Steps
    <3>3. r \notin Settlers \cup Returners /\ r \notin Voiders
      BY <2>4, KindAssumption
    <3> HIDE DEF Deleting
    <3>4. RequestInv(r)'
      BY <1>2, <2>0, <2>4, <3>1, <3>2, <3>3
    <3> QED
      BY <1>1, <3>1, <3>2, <3>4, MovingOn, QuietStep
  <2>5. CASE /\ r \in Returners
             /\ \E b \in Bills, refund \in Amounts, first \in {"load", "bill"} :
                   request' = [request EXCEPT ![r] = Returning(first, b, refund)]
    <3>1. PICK b \in Bills, refund \in Amounts, first \in {"load", "bill"} :
                   request' = [request EXCEPT ![r] = Returning(first, b, refund)]
      BY <2>5
    <3>2. /\ Returning(first, b, refund) \in RequestType
          /\ Returning(first, b, refund).at = first /\ Returning(first, b, refund).bill = b
          /\ Returning(first, b, refund).amount = refund
          /\ Returning(first, b, refund).seen = Promise!NoRow
      BY DEF Fresh, RequestType, Steps
    <3>3. r \notin Voiders
      BY <2>5, KindAssumption
    <3> HIDE DEF Returning
    <3>4. RequestInv(r)'
      BY <1>2, <2>0, <2>5, <3>1, <3>2, <3>3
    <3> QED
      BY <1>1, <3>1, <3>2, <3>4, MovingOn, QuietStep
  <2> QED
    BY <2>1, <2>2, <2>3, <2>4, <2>5 DEF Arrive
<1>3. request'[r] = q
  BY <1>1, <1>2, MovingOn
<1> QED
  BY <1>2, <1>3 DEF RequestInv, PlaceInv, SeenInv, HeldInv, VoidInv, DeleteInv, Late

(* The unlocked load of PATCH and of the assistant.                         *)
LEMMA LoadStep ==
    ASSUME RowsInv, side' = side, NEW r \in Requests, Load(r)
    PROVE  RowsInv'
<1> DEFINE b == request[r].bill
           q == [request[r] EXCEPT !.at = "bill", !.seen = bill[b]]
<1>1. TypeOK /\ owner' = owner /\ UNCHANGED Committed /\ At(r, "load")
  BY DEF RowsInv, Load, Committed
<1>2. /\ r \in Editors \cup Returners /\ b \in Bills
      /\ r \in Returners => request[r].amount \in Amounts
  BY <1>1 DEF RowsInv, RequestInv, PlaceInv, At
<1>3. bill[b] \in BillRow /\ BillInv(b)
  BY <1>1, <1>2 DEF RowsInv, TypeOK
<1>4. /\ q \in RequestType /\ q.at = "bill" /\ q.bill = b /\ q.seen = bill[b]
      /\ q.amount = request[r].amount
  BY <1>1, <1>3, RequestFields DEF RequestType, Steps
<1>5. request' = [request EXCEPT ![r] = q]
  BY <1>1, Types DEF Load
<1> HIDE DEF q
<1>6. LeavesTheRest(r) /\ request'[r] = q
  BY <1>1, <1>4, <1>5, MovingOn
<1>7. r \notin Settlers \cup Voiders \cup Deleters
  BY <1>2, KindAssumption
<1>8. side' = side
  OBVIOUS
<1>9. RequestInv(r)'
  BY <1>2, <1>3, <1>4, <1>6, <1>7
     DEF RequestInv, PlaceInv, SeenInv, HeldInv, VoidInv, DeleteInv, Late, BillInv, LockingReaders
<1> QED
  BY <1>1, <1>6, <1>9, QuietStep

(* The lock of the party.                                                   *)
LEMMA LockPartyStep ==
    ASSUME RowsInv, side' = side, NEW r \in Requests, LockParty(r)
    PROVE  RowsInv'
<1> DEFINE q == [request[r] EXCEPT !.at = IF request[r].bill = NoBill THEN "bills" ELSE "bill"]
<1>1. TypeOK /\ UNCHANGED Committed /\ At(r, "party") /\ Take(r, Khata) /\ Khata \in Rows
  BY DEF RowsInv, LockParty, Rows
<1>2. /\ r \in Settlers /\ request[r].amount \in Amounts
      /\ ~request[r].seen.live
      /\ side = "purchase" => request[r].seen.status = "partial"
  BY <1>1 DEF RowsInv, RequestInv, PlaceInv, SeenInv, At, LockingReaders, Late
<1>3. /\ q \in RequestType /\ q.at = IF request[r].bill = NoBill THEN "bills" ELSE "bill"
      /\ q.bill = request[r].bill /\ q.seen = request[r].seen /\ q.amount = request[r].amount
      /\ q.bill \in Bills \cup {NoBill}
  BY <1>1, RequestFields DEF RequestType, Steps
<1>4. request' = [request EXCEPT ![r] = q]
  BY <1>1, Types DEF LockParty, Move
<1> HIDE DEF q
<1>5. LeavesTheRest(r) /\ request'[r] = q
  BY <1>1, <1>3, <1>4, MovingOn
<1>6. r \notin Voiders \cup Deleters \cup Editors \cup Returners
  BY <1>2, KindAssumption
<1>7. RequestInv(r)'
  BY <1>2, <1>3, <1>5, <1>6
     DEF RequestInv, PlaceInv, SeenInv, HeldInv, VoidInv, DeleteInv, Late, LockingReaders
<1> QED
  BY <1>1, <1>5, <1>7, QuietStep

(* The lock of the payment of a void.                                       *)
LEMMA LockPaymentStep ==
    ASSUME RowsInv, side' = side, NEW r \in Requests, LockPayment(r)
    PROVE  RowsInv'
<1> DEFINE p == request[r].payment
           q == [request[r] EXCEPT !.at = IF pay[p].bill = NoBill THEN "write" ELSE "bill",
                                   !.bill = pay[p].bill]
<1>1. TypeOK /\ At(r, "payment")
  BY DEF RowsInv, LockPayment
<1>2. /\ r \in Voiders /\ p \in Payments /\ ~request[r].seen.live
      /\ side = "purchase" => request[r].seen.status = "partial"
  BY <1>1 DEF RowsInv, RequestInv, PlaceInv, SeenInv, At, LockingReaders, Late
<1>3. CASE pay[p].state # "live"
  <2>1. RollBack(r)
    BY <1>3 DEF LockPayment
  <2> QED
    BY <2>1, RollingBack
<1>4. CASE pay[p].state = "live"
  <2>1. Take(r, p) /\ UNCHANGED Committed /\ p \in Rows
    BY <1>2, <1>4 DEF LockPayment, Rows
  <2>2. pay[p].bill \in Bills \cup {NoBill}
    BY <1>1, <1>2, PaymentFields
  <2>3. /\ q \in RequestType /\ q.at = IF pay[p].bill = NoBill THEN "write" ELSE "bill"
        /\ q.bill = pay[p].bill /\ q.seen = request[r].seen /\ q.payment = p
    BY <1>1, <2>2, RequestFields DEF RequestType, Steps
  <2>4. request' = [request EXCEPT ![r] = q]
    BY <1>1, <1>4, Types DEF LockPayment
  <2> HIDE DEF q
  <2>5. LeavesTheRest(r) /\ request'[r] = q
    BY <1>1, <2>1, <2>3, <2>4, MovingOn
  <2>6. r \notin Settlers \cup Deleters \cup Editors \cup Returners
    BY <1>2, KindAssumption
  <2>7. pay' = pay /\ bill' = bill /\ owner'[p] = r
    BY <1>1, <2>1 DEF Committed, Take, TypeOK
  <2>8. RequestInv(r)'
    BY <1>2, <1>4, <2>2, <2>3, <2>5, <2>6, <2>7
       DEF RequestInv, PlaceInv, SeenInv, HeldInv, VoidInv, DeleteInv, Late, LockingReaders
  <2> QED
    BY <1>1, <2>1, <2>5, <2>8, QuietStep
<1> QED
  BY <1>3, <1>4

(* The lock of the bill, and the copy of it that is seen from then on.      *)
LEMMA LockBillStep ==
    ASSUME RowsInv, side' = side, NEW r \in Requests, LockBill(r)
    PROVE  RowsInv'
<1> DEFINE b == request[r].bill
           seen == SeenUnderLock(r)
           doomed == IF r \in Deleters THEN Promise!Allocated(b) ELSE {}
           at == CASE r \in Settlers -> "bills"
                   [] r \in Deleters -> "doomed"
                   [] OTHER          -> "write"
           q == [request[r] EXCEPT !.seen = seen, !.doomed = doomed, !.at = at]
<1>1. TypeOK /\ At(r, "bill")
  BY DEF RowsInv, LockBill
<1>2. /\ b \in Bills /\ BillInv(b) /\ bill[b] \in BillRow
      /\ r \in Settlers \cup Returners => request[r].amount \in Amounts
      /\ request[r].seen \in BillRow
      /\ request[r].seen.live => request[r].seen.total \in Totals
      /\ side = "purchase" => request[r].seen.status = "partial"
      /\ r \in LockingReaders => ~request[r].seen.live
      /\ VoidInv(r)
  BY <1>1, RequestFields DEF RowsInv, RequestInv, PlaceInv, SeenInv, At, Late, TypeOK
<1>3. CASE ~bill[b].live
  <2>1. RollBack(r)
    BY <1>3 DEF LockBill
  <2> QED
    BY <2>1, RollingBack
<1>4. CASE bill[b].live
  <2>1. Take(r, b) /\ UNCHANGED Committed /\ b \in Rows
    BY <1>2, <1>4 DEF LockBill, Rows
  <2>2. /\ seen \in BillRow /\ seen.live /\ seen.total \in Totals
        /\ side = "purchase" => seen.status = "partial"
        /\ r \in LockingReaders => seen = bill[b]
    BY <1>2, <1>4 DEF SeenUnderLock, BillInv
  <2>3. doomed \subseteq Payments
    BY RecordedType
  <2>4. at \in {"bills", "doomed", "write"} /\ at \in Steps
    BY DEF Steps
  <2>5. request' = [request EXCEPT ![r] = q]
    BY <1>1, <1>4, Types DEF LockBill
  <2> HIDE DEF seen
  <2>6. /\ q \in RequestType /\ q.at = at /\ q.bill = b /\ q.seen = seen /\ q.doomed = doomed
        /\ q.amount = request[r].amount /\ q.payment = request[r].payment
    BY <1>1, <2>2, <2>3, <2>4, RequestFields DEF RequestType
  <2> HIDE DEF q
  <2>7. LeavesTheRest(r) /\ request'[r] = q
    BY <1>1, <2>1, <2>5, <2>6, MovingOn
  <2>8. /\ r \in Settlers => r \notin Deleters /\ r \notin Voiders
        /\ r \in Deleters => r \notin Voiders
    BY KindAssumption
  <2>9. /\ pay' = pay /\ bill' = bill
        /\ owner'[b] = r /\ \A row \in Rows : owner[row] = r => owner'[row] = r
    BY <1>1, <2>1 DEF Committed, Take, TypeOK
  <2>10. PlaceInv(r)'
    BY <1>2, <2>6, <2>7 DEF PlaceInv
  <2>11. SeenInv(r)' /\ HeldInv(r)'
    BY <1>4, <2>2, <2>4, <2>6, <2>7, <2>9 DEF SeenInv, HeldInv, Late
  <2>12. VoidInv(r)'
    BY <1>1, <1>2, <2>6, <2>7, <2>9 DEF VoidInv, At, Rows
  <2>13. DeleteInv(r)'
    BY <2>6, <2>7, <2>8, <2>9 DEF DeleteInv, Promise!Allocated
  <2>14. RequestInv(r)'
    BY <2>10, <2>11, <2>12, <2>13 DEF RequestInv
  <2> QED
    BY <1>1, <2>1, <2>7, <2>14, QuietStep
<1> QED
  BY <1>3, <1>4

(* The locks of the payments of a bill that goes.                           *)
LEMMA LockDoomedStep ==
    ASSUME RowsInv, side' = side, NEW r \in Requests, LockDoomed(r)
    PROVE  RowsInv'
<1> DEFINE b == request[r].bill
<1>1. TypeOK /\ At(r, "doomed") /\ request[r] \in RequestType
  BY RequestFields DEF RowsInv, LockDoomed
<1>2. /\ r \in Deleters /\ b \in Bills /\ SeenInv(r) /\ HeldInv(r) /\ DeleteInv(r)
      /\ bill[b].refunded \in Nat
  BY <1>1, RowFields DEF RowsInv, RequestInv, PlaceInv, At, TypeOK
<1>3. r \notin Settlers \cup Returners \cup Voiders \cup Editors
  BY <1>2, KindAssumption
<1>4. CASE bill[b].refunded > 0
  <2>1. RollBack(r)
    BY <1>4 DEF LockDoomed
  <2> QED
    BY <2>1, RollingBack
<1>5. ASSUME ~(bill[b].refunded > 0), NEW p \in request[r].doomed, Take(r, p),
             request' = [request EXCEPT ![r].doomed = @ \ {p}], UNCHANGED Committed
      PROVE  RowsInv'
  <2> DEFINE q == [request[r] EXCEPT !.doomed = request[r].doomed \ {p}]
  <2>1. /\ q \in RequestType /\ q.at = "doomed" /\ q.bill = b /\ q.seen = request[r].seen
        /\ q.doomed = request[r].doomed \ {p}
    BY <1>1 DEF RequestType, At
  <2>2. request' = [request EXCEPT ![r] = q]
    BY <1>1, <1>5, Types
  <2>3. p \in Rows
    BY <1>1 DEF RequestType, Rows
  <2> HIDE DEF q
  <2>4. LeavesTheRest(r) /\ request'[r] = q
    BY <1>1, <1>5, <2>1, <2>2, <2>3, MovingOn
  <2>5. /\ pay' = pay /\ bill' = bill
        /\ owner'[p] = r /\ \A row \in Rows : owner[row] = r => owner'[row] = r
    BY <1>1, <1>5, <2>3 DEF Committed, Take, TypeOK
  <2>6. PlaceInv(r)' /\ SeenInv(r)' /\ HeldInv(r)' /\ VoidInv(r)'
    BY <1>1, <1>2, <1>3, <2>1, <2>4, <2>5
       DEF PlaceInv, SeenInv, HeldInv, VoidInv, At, Late, Rows
  <2>7. DeleteInv(r)'
    <3>1. \A x \in Promise!Allocated(b) : x \in request[r].doomed \/ owner[x] = r
      BY <1>1, <1>2 DEF DeleteInv, At
    <3>2. \A x \in Promise!Allocated(b) : x \in Rows
      BY RecordedType DEF Rows
    <3>3. \A x \in Promise!Allocated(b) : x \in q.doomed \/ owner'[x] = r
      BY <2>1, <2>5, <3>1, <3>2
    <3> QED
      BY <2>1, <2>4, <2>5, <3>3 DEF DeleteInv, Promise!Allocated
  <2> QED
    BY <1>1, <1>5, <2>4, <2>6, <2>7, QuietStep DEF RequestInv
<1>6. ASSUME ~(bill[b].refunded > 0), request[r].doomed = {}, Move(r, "write"),
             owner' = owner, UNCHANGED Committed
      PROVE  RowsInv'
  <2> DEFINE q == [request[r] EXCEPT !.at = "write"]
  <2>1. /\ q \in RequestType /\ q.at = "write" /\ q.bill = b /\ q.seen = request[r].seen
        /\ q.doomed = {}
    BY <1>1, <1>6 DEF RequestType, Steps
  <2>2. request' = [request EXCEPT ![r] = q]
    BY <1>1, <1>6, Types DEF Move
  <2> HIDE DEF q
  <2>3. LeavesTheRest(r) /\ request'[r] = q
    BY <1>1, <1>6, <2>1, <2>2, MovingOn
  <2>4. pay' = pay /\ bill' = bill
    BY <1>6 DEF Committed
  <2>5. bill[b].refunded = 0
    BY <1>2, <1>6
  <2>6. PlaceInv(r)' /\ SeenInv(r)' /\ HeldInv(r)' /\ VoidInv(r)'
    BY <1>1, <1>2, <1>3, <1>6, <2>1, <2>3, <2>4
       DEF PlaceInv, SeenInv, HeldInv, VoidInv, At, Late
  <2>7. DeleteInv(r)'
    BY <1>1, <1>2, <1>6, <2>1, <2>3, <2>4, <2>5 DEF DeleteInv, Promise!Allocated, At
  <2> QED
    BY <1>1, <1>6, <2>3, <2>6, <2>7, QuietStep DEF RequestInv
<1> QED
  BY <1>4, <1>5, <1>6 DEF LockDoomed

(* A step of _compute_balance.                                              *)
LEMMA SumStep ==
    ASSUME RowsInv, side' = side, NEW r \in Requests, SumBills(r) \/ SumPayments(r) \/ SumReturns(r)
    PROVE  /\ RowsInv'
           /\ LeavesTheRest(r)
           /\ r \in Settlers
<1>1. TypeOK /\ request[r] \in RequestType
  BY RequestFields DEF RowsInv
<1>2. ASSUME NEW S, S \subseteq Bills \/ S \subseteq Payments, NEW f PROVE TallyOf(f, S) \in Int
  <2>1. IsFiniteSet(S)
    BY <1>2, Bounds, FS_Subset
  <2> QED
    BY <2>1, TallyType
<1>3. LivePayments \subseteq Payments
  BY DEF LivePayments
<1>4. PICK at \in {"payments", "returns", "write"}, balance \in Int :
           /\ request' = [request EXCEPT ![r].at = at, ![r].balance = balance]
           /\ request[r].at \in {"bills", "payments", "returns"}
           /\ UNCHANGED <<bill, pay, booked, owner>>
  <2>1. CASE SumBills(r)
    BY <1>2, <2>1 DEF SumBills, At
  <2>2. CASE SumPayments(r)
    <3>1. request[r].balance - TallyOf(Promise!Amount, LivePayments) \in Int
      BY <1>1, <1>2, <1>3 DEF RequestType
    <3>2. request' = [request EXCEPT ![r].at = "returns", ![r].balance = request[r].balance
                          - TallyOf(Promise!Amount, LivePayments)]
      BY <1>1, <2>2, Types DEF SumPayments
    <3> QED
      BY <2>2, <3>1, <3>2 DEF SumPayments, At
  <2>3. CASE SumReturns(r)
    <3> DEFINE back == TallyOf([b \in Bills |-> bill[b].back], Bills)
    <3>1. request[r].balance - back \in Int
      BY <1>1, <1>2 DEF RequestType
    <3>2. request' = [request EXCEPT ![r].at = "write", ![r].balance = request[r].balance - back]
      BY <1>1, <2>3, Types DEF SumReturns
    <3> QED
      BY <2>3, <3>1, <3>2 DEF SumReturns, At
  <2> QED
    BY <2>1, <2>2, <2>3
<1> DEFINE q == [request[r] EXCEPT !.at = at, !.balance = balance]
<1>5. /\ q \in RequestType /\ q.at = at /\ q.bill = request[r].bill /\ q.seen = request[r].seen
      /\ q.amount = request[r].amount
  BY <1>1 DEF RequestType, Steps
<1>6. request' = [request EXCEPT ![r] = q]
  BY <1>1, <1>4, Types
<1> HIDE DEF q
<1>7. LeavesTheRest(r) /\ request'[r] = q
  BY <1>1, <1>4, <1>5, <1>6, MovingOn
<1>8. UNCHANGED Committed /\ bill' = bill /\ owner' = owner
  BY <1>4 DEF Committed
<1>9. RequestInv(r)
  BY DEF RowsInv
<1>10. r \in Settlers /\ request[r].amount \in Amounts
  BY <1>4, <1>9 DEF RequestInv, PlaceInv
<1>11. r \notin Voiders \cup Deleters
  BY <1>10, KindAssumption
<1>12. RequestInv(r)'
  BY <1>4, <1>5, <1>7, <1>8, <1>9, <1>10, <1>11
     DEF RequestInv, PlaceInv, SeenInv, HeldInv, VoidInv, DeleteInv, Late
<1> QED
  BY <1>7, <1>8, <1>10, <1>12, QuietStep

-----------------------------------------------------------------------------
(* The writes.                                                              *)
LEMMA WriteStep ==
    ASSUME RowsInv, side' = side, NEW r \in Requests, Commit(r), SparesHeldRows(r),
           bill' \in [Bills -> BillRow], pay' \in [Payments -> PayType],
           booked' \in [Bills -> Nat],
           \A b \in Bills : BillInv(b)'
    PROVE  RowsInv'
<1>1. TypeOK
  BY DEF RowsInv
<1>2. LeavesTheRest(r) /\ RequestInv(r)'
  BY <1>1, Ending
<1>3. TypeOK'
  BY <1>1, <1>2, Types DEF LeavesTheRest, TypeOK, PayType, RequestType
<1>4. ASSUME NEW u \in Requests PROVE RequestInv(u)'
  BY <1>1, <1>2, OthersKnow DEF RowsInv
<1> QED
  BY <1>3, <1>4 DEF RowsInv

(* What the payments of a bill come to depends on them alone.               *)
LEMMA SameRecorded ==
    ASSUME TypeOK, NEW b,
           \A p \in Payments : (pay'[p].state = "live" /\ pay'[p].bill = b)
                                  <=> (pay[p].state = "live" /\ pay[p].bill = b),
           \A p \in Promise!Allocated(b) : pay'[p].amount = pay[p].amount
    PROVE  Recorded(b)' = Recorded(b)
<1> DEFINE amount == [p \in Payments |-> pay'[p].amount]
           S == Promise!Allocated(b)
<1>1. Promise!Allocated(b)' = S
  BY DEF Promise!Allocated
<1>2. \A p \in S : amount[p] = Promise!Amount[p]
  BY RecordedType, PaymentFields
<1>3. TallyOf(amount, S) = TallyOf(Promise!Amount, S)
  BY <1>2, TallySame
<1> QED
  BY <1>1, <1>3 DEF Recorded, Promise!Amount

(* A new payment adds to its bill.                                          *)
LEMMA AddedPayment ==
    ASSUME TypeOK, NEW b \in Bills \cup {NoBill}, NEW p \in Payments, NEW a \in 0 .. MaxAmount,
           pay[p].state = "unused",
           pay' = [pay EXCEPT ![p] = [state |-> "live", bill |-> b, amount |-> a]]
    PROVE  \A c \in Bills : Recorded(c)' = IF c = b THEN Recorded(c) + a ELSE Recorded(c)
<1> DEFINE amount == [x \in Payments |-> pay'[x].amount]
           S == Promise!Allocated(b)
<1>1. pay \in [Payments -> PayType]
  BY Types
<1>2. /\ pay'[p] = [state |-> "live", bill |-> b, amount |-> a]
      /\ \A x \in Payments \ {p} : pay'[x] = pay[x]
  BY <1>1
<1>3. Promise!Allocated(b)' = S \cup {p} /\ p \notin S
  BY <1>2 DEF Promise!Allocated
<1>4. amount[p] = a /\ \A x \in S : amount[x] = Promise!Amount[x]
  BY <1>2, <1>3, RecordedType, PaymentFields
<1>5. IsFiniteSet(S)
  BY RecordedType
<1> HIDE DEF S, amount
<1>6. TallyOf(amount, S \cup {p}) = TallyOf(amount, S) + a
  BY <1>3, <1>4, <1>5, TallyAdd
<1>7. TallyOf(amount, S) = TallyOf(Promise!Amount, S)
  BY <1>4, TallySame
<1>8. Recorded(b)' = Recorded(b) + a
  BY <1>3, <1>6, <1>7 DEF Recorded, Promise!Amount, S, amount
<1>9. ASSUME NEW c \in Bills \ {b} PROVE Recorded(c)' = Recorded(c)
  BY <1>2, SameRecorded DEF Promise!Allocated
<1> QED
  BY <1>8, <1>9

(* A payment taken away is taken off its bill.                              *)
LEMMA RemovedPayment ==
    ASSUME TypeOK, NEW p \in Payments, pay[p].state = "live", NEW b, b = pay[p].bill,
           pay' = [pay EXCEPT ![p] = Promise!NoPayment("deleted")]
    PROVE  \A c \in Bills :
              Recorded(c)' = IF c = b THEN Recorded(c) - pay[p].amount ELSE Recorded(c)
<1> DEFINE amount == [x \in Payments |-> pay'[x].amount]
           S == Promise!Allocated(b) \ {p}
<1>1. pay \in [Payments -> PayType]
  BY Types
<1>2. /\ pay'[p].state = "deleted"
      /\ \A x \in Payments \ {p} : pay'[x] = pay[x]
  BY <1>1 DEF Promise!NoPayment
<1>3. p \in Promise!Allocated(b)
  BY DEF Promise!Allocated
<1>4. {x \in Payments : pay'[x].state = "live" /\ pay'[x].bill = b} = S
  BY <1>2 DEF Promise!Allocated
<1>5. \A x \in S : amount[x] = Promise!Amount[x]
  BY <1>2, RecordedType, PaymentFields
<1>6. Recorded(b) = TallyOf(Promise!Amount, S) + pay[p].amount
  BY <1>3, PartOfRecorded
<1>7. TallyOf(amount, S) = TallyOf(Promise!Amount, S)
  BY <1>5, TallySame
<1>8. IsFiniteSet(S)
  BY RecordedType, FS_Subset
<1>9. TallyOf(Promise!Amount, S) \in Nat /\ pay[p].amount \in Int
  BY <1>8, TallyType, PaymentFields
<1>10. Recorded(b) - pay[p].amount = TallyOf(amount, S)
  BY <1>6, <1>7, <1>9
<1>11. Recorded(b)' = TallyOf(amount, S)
  BY <1>4 DEF Recorded, Promise!Amount, Promise!Allocated
<1>12. ASSUME NEW c \in Bills \ {b} PROVE Recorded(c)' = Recorded(c)
  BY <1>2, SameRecorded DEF Promise!Allocated
<1> QED
  BY <1>10, <1>11, <1>12

(* record_customer_payment, record_supplier_payment: Settle or nothing.     *)
LEMMA SettlementWrite ==
    ASSUME RowsInv, side' = side, NEW r \in Requests, WriteSettlement(r)
    PROVE  /\ RowsInv'
           /\ \/ UNCHANGED Committed
              \/ \E p \in Payments, b \in Bills \cup {NoBill}, amount \in Promise!Amounts :
                    Promise!Settle(p, b, amount)
<1> DEFINE q == request[r]
           b == q.bill
           row == Promise!WithPaid(q.seen, q.seen.paid + q.amount)
<1>1. /\ TypeOK /\ r \in Settlers /\ q.at = "write" /\ RequestInv(r)
      /\ b \in Bills \cup {NoBill} /\ q.seen \in BillRow /\ q.amount \in Int
  BY RequestFields DEF RowsInv, WriteSettlement, At
<1>2. CASE ~Payable(q)
  <2>1. RollBack(r)
    BY <1>2 DEF WriteSettlement
  <2> QED
    BY <2>1, RollingBack DEF RollBack, Committed
<1>3. CASE Payable(q)
  <2>1. PICK p \in Payments :
            /\ pay[p].state = "unused"
            /\ pay' = [pay EXCEPT ![p] = [state |-> "live", bill |-> b, amount |-> q.amount]]
    BY <1>3 DEF WriteSettlement
  <2>2. /\ bill' = IF b = NoBill THEN bill
                   ELSE [bill EXCEPT ![b].paid = row.paid, ![b].status = row.status]
        /\ Commit(r) /\ booked' = booked
    BY <1>3 DEF WriteSettlement
  <2>3. q.amount \in Amounts /\ q.amount \in 0 .. MaxAmount /\ q.amount > 0
    BY <1>1, Bounds DEF RequestInv, PlaceInv
  <2>4. bill \in [Bills -> BillRow] /\ pay \in [Payments -> PayType] /\ booked \in [Bills -> Nat]
    BY <1>1, Types
  <2>5. pay' \in [Payments -> PayType]
    BY <1>1, <2>1, <2>3, <2>4 DEF PayType
  <2>6. \A c \in Bills :
            Recorded(c)' = IF c = b THEN Recorded(c) + q.amount ELSE Recorded(c)
    BY <1>1, <2>1, <2>3, AddedPayment
  <2>7. ASSUME b # NoBill
        PROVE  /\ b \in Bills /\ owner[b] = r /\ bill[b].live /\ q.seen = bill[b]
               /\ q.amount <= bill[b].total - bill[b].paid
               /\ bill' = [bill EXCEPT ![b] = Promise!WithPaid(bill[b], bill[b].paid + q.amount)]
               /\ bill[b].paid + q.amount \in 0 .. MaxAmount
    <3>1. b \in Bills /\ owner[b] = r /\ bill[b].live /\ q.seen = bill[b]
      BY <1>1, <2>7 DEF RequestInv, HeldInv, Late, LockingReaders
    <3>2. q.amount <= bill[b].total - bill[b].paid
      BY <1>3, <2>7, <3>1 DEF Payable, Promise!Due
    <3>3. bill[b] \in BillRow
      BY <2>4, <3>1
    <3>4. bill[b].paid + q.amount \in 0 .. MaxAmount
      BY <1>1, <2>3, <3>2, <3>3, RowFields, Bounds
    <3>5. Promise!WithPaid(bill[b], bill[b].paid + q.amount)
            = [bill[b] EXCEPT !.paid = row.paid, !.status = row.status]
      BY <3>1, <3>3, <3>4 DEF Promise!WithPaid, BillRow
    <3>6. bill' = [bill EXCEPT ![b] = [bill[b] EXCEPT !.paid = row.paid, !.status = row.status]]
      BY <2>2, <2>4, <2>7, <3>1
    <3> QED
      BY <3>1, <3>2, <3>4, <3>5, <3>6
  <2>8. Promise!Settle(p, b, q.amount) /\ q.amount \in Promise!Amounts
    <3>1. b = NoBill => bill' = bill
      BY <2>2
    <3>2. q.amount \in Promise!Amounts
      BY <2>3, SameTally
    <3>3. b # NoBill => /\ bill[b].live /\ q.amount <= Promise!Due(bill[b])
                        /\ bill' = [bill EXCEPT ![b] = Promise!WithPaid(bill[b], bill[b].paid + q.amount)]
      BY <2>7 DEF Promise!Due
    <3> HIDE DEF q, row
    <3> QED
      BY <2>1, <2>2, <3>1, <3>2, <3>3 DEF Promise!Settle
  <2>9. /\ bill' \in [Bills -> BillRow]
        /\ \A c \in Bills \ {b} : bill'[c] = bill[c]
        /\ b # NoBill => bill'[b] = Promise!WithPaid(bill[b], bill[b].paid + q.amount)
    <3>1. CASE b = NoBill
      BY <2>2, <2>4, <3>1
    <3>2. CASE b # NoBill
      <4> DEFINE new == Promise!WithPaid(bill[b], bill[b].paid + q.amount)
      <4>1. new \in BillRow
        BY <2>4, <2>7, <3>2, WithPaidFields
      <4> HIDE DEF new
      <4> QED
        BY <2>4, <2>7, <3>2, <4>1 DEF new
    <3> QED
      BY <3>1, <3>2
  <2>10. SparesHeldRows(r)
    <3>1. \A x \in Payments \ {p} : pay'[x] = pay[x]
      BY <2>1, <2>4
    <3>2. pay'[p].bill = b
      BY <2>1, <2>4
    <3>3. \A u \in Requests \ {r} : \A c \in Bills : owner[c] = u => c # b
      BY <2>7, Bounds
    <3> HIDE DEF b
    <3> QED
      BY <2>1, <2>9, <3>1, <3>2, <3>3 DEF SparesHeldRows
  <2>11. ASSUME NEW c \in Bills PROVE BillInv(c)'
    <3>1. BillInv(c)
      BY DEF RowsInv
    <3>2. CASE c # b
      BY <2>6, <2>9, <3>1, <3>2 DEF BillInv
    <3>3. CASE c = b
      <4>1. /\ bill[b] \in BillRow /\ b # NoBill
            /\ bill[b].paid + q.amount \in 0 .. MaxAmount
        BY <2>4, <2>7, <3>3, Bounds
      <4>2. /\ bill'[c].live = bill[c].live /\ bill'[c].total = bill[c].total
            /\ bill'[c].paid = bill[c].paid + q.amount
            /\ bill'[c].back = bill[c].back /\ bill'[c].refunded = bill[c].refunded
            /\ side = "purchase" => bill'[c].status = "partial"
        BY <2>9, <3>3, <4>1, WithPaidFields, StatusType
      <4>3. Recorded(c)' = Recorded(c) + q.amount /\ Recorded(c) \in Nat
        BY <2>6, <3>3, RecordedType
      <4>4. bill[c].paid \in Int /\ bill[c].total \in Int
        BY <3>3, <4>1, RowFields
      <4>5. bill[c].paid + q.amount <= bill[c].total /\ bill[c].live
        BY <2>7, <3>3, <4>1, <4>4, <1>1
      <4> HIDE DEF b, q
      <4>6. q.amount \in Int
        BY <1>1
      <4> QED
        BY <3>1, <4>2, <4>3, <4>4, <4>5, <4>6 DEF BillInv
    <3> QED
      BY <3>2, <3>3
  <2>12. RowsInv'
    BY <2>2, <2>4, <2>5, <2>9, <2>10, <2>11, WriteStep
  <2> QED
    BY <1>1, <2>8, <2>12
<1> QED
  BY <1>2, <1>3

(* void_payment: Void.                                                      *)
LEMMA VoidWrite ==
    ASSUME RowsInv, side' = side, NEW r \in Requests, WriteVoid(r)
    PROVE  RowsInv' /\ \E p \in Payments : Promise!Void(p)
<1> DEFINE q == request[r]
           b == q.bill
           p == q.payment
           gone == pay[p].amount
           left == IF q.seen.paid > gone THEN q.seen.paid - gone ELSE 0
           row == Promise!WithPaid(q.seen, left)
<1>1. /\ TypeOK /\ r \in Voiders /\ q.at = "write" /\ RequestInv(r)
      /\ b \in Bills \cup {NoBill} /\ q.seen \in BillRow
  BY RequestFields DEF RowsInv, WriteVoid, At
<1>2. p \in Payments /\ owner[p] = r /\ pay[p].state = "live" /\ pay[p].bill = b
  BY <1>1 DEF RequestInv, VoidInv
<1>3. /\ pay' = [pay EXCEPT ![p] = Promise!NoPayment("deleted")]
      /\ bill' = IF b = NoBill THEN bill
                 ELSE [bill EXCEPT ![b].paid = row.paid, ![b].status = row.status]
      /\ Commit(r) /\ booked' = booked
  BY DEF WriteVoid
<1>4. bill \in [Bills -> BillRow] /\ pay \in [Payments -> PayType] /\ booked \in [Bills -> Nat]
  BY <1>1, Types
<1>5. pay' \in [Payments -> PayType]
  BY <1>2, <1>3, <1>4, Bounds DEF PayType, Promise!NoPayment
<1>6. gone \in Int /\ gone >= 0
  BY <1>1, <1>2, PaymentFields
<1>7. \A c \in Bills :
          Recorded(c)' = IF c = b THEN Recorded(c) - gone ELSE Recorded(c)
  BY <1>1, <1>2, <1>3, RemovedPayment
<1>8. ASSUME b # NoBill
      PROVE  /\ b \in Bills /\ owner[b] = r /\ bill[b].live /\ q.seen = bill[b]
             /\ bill' = [bill EXCEPT ![b] = Promise!WithPaid(bill[b], bill[b].paid - gone)]
             /\ bill[b].paid - gone \in 0 .. MaxAmount
             /\ bill[b] \in BillRow /\ bill[b].paid \in Int /\ bill[b].total \in Int
  <2>1. b \in Bills /\ owner[b] = r /\ bill[b].live /\ q.seen = bill[b]
    BY <1>1, <1>8 DEF RequestInv, HeldInv, Late, LockingReaders
  <2>2. bill[b] \in BillRow /\ BillInv(b)
    BY <1>4, <2>1 DEF RowsInv
  <2>3. p \in Promise!Allocated(b)
    BY <1>2 DEF Promise!Allocated
  <2>4. gone <= Recorded(b) /\ Recorded(b) \in Nat
    BY <1>1, <2>3, PartOfRecorded, RecordedType
  <2>5. /\ bill[b].paid \in 0 .. MaxAmount /\ bill[b].paid \in Int /\ bill[b].total \in Int
        /\ gone <= bill[b].paid
    BY <1>6, <2>1, <2>2, <2>4, RowFields DEF BillInv
  <2>6. bill[b].paid - gone \in 0 .. MaxAmount /\ left = bill[b].paid - gone
    BY <1>6, <2>1, <2>5, Bounds
  <2> HIDE DEF left, gone
  <2>7. Promise!WithPaid(bill[b], bill[b].paid - gone)
            = [bill[b] EXCEPT !.paid = row.paid, !.status = row.status]
    BY <2>1, <2>2, <2>6 DEF Promise!WithPaid, BillRow
  <2>8. bill' = [bill EXCEPT ![b] = [bill[b] EXCEPT !.paid = row.paid, !.status = row.status]]
    BY <1>3, <1>4, <1>8, <2>1
  <2> QED
    BY <2>1, <2>2, <2>5, <2>6, <2>7, <2>8
<1> HIDE DEF left
<1>9. Promise!Void(p)
  <2>1. b = NoBill => bill' = bill
    BY <1>3
  <2> HIDE DEF q, row
  <2> QED
    BY <1>2, <1>3, <1>8, <2>1 DEF Promise!Void
<1>10. /\ bill' \in [Bills -> BillRow]
       /\ \A c \in Bills \ {b} : bill'[c] = bill[c]
       /\ b # NoBill => bill'[b] = Promise!WithPaid(bill[b], bill[b].paid - gone)
  <2>1. CASE b = NoBill
    BY <1>3, <1>4, <2>1
  <2>2. CASE b # NoBill
    <3> DEFINE new == Promise!WithPaid(bill[b], bill[b].paid - gone)
    <3>1. new \in BillRow
      BY <1>8, <2>2, WithPaidFields
    <3> HIDE DEF new
    <3> QED
      BY <1>4, <1>8, <2>2, <3>1 DEF new
  <2> QED
    BY <2>1, <2>2
<1>11. SparesHeldRows(r)
  <2>1. \A x \in Payments \ {p} : pay'[x] = pay[x]
    BY <1>3, <1>4
  <2>2. pay'[p].state = "deleted"
    BY <1>2, <1>3, <1>4 DEF Promise!NoPayment
  <2>3. \A u \in Requests \ {r} : \A c \in Bills : owner[c] = u => c # b
    BY <1>8, Bounds
  <2>4. \A u \in Requests \ {r} : owner[p] # u
    BY <1>2
  <2> HIDE DEF b, p
  <2> QED
    BY <1>10, <2>1, <2>2, <2>3, <2>4 DEF SparesHeldRows
<1>12. ASSUME NEW c \in Bills PROVE BillInv(c)'
  <2>1. BillInv(c)
    BY DEF RowsInv
  <2>2. CASE c # b
    BY <1>7, <1>10, <2>1, <2>2 DEF BillInv
  <2>3. CASE c = b
    <3>1. b # NoBill
      BY <2>3, Bounds
    <3>2. /\ bill'[c].live = bill[c].live /\ bill'[c].total = bill[c].total
          /\ bill'[c].paid = bill[c].paid - gone
          /\ bill'[c].back = bill[c].back /\ bill'[c].refunded = bill[c].refunded
          /\ side = "purchase" => bill'[c].status = "partial"
      BY <1>8, <1>10, <2>3, <3>1, WithPaidFields, StatusType
    <3>3. Recorded(c)' = Recorded(c) - gone /\ Recorded(c) \in Nat
      BY <1>7, <2>3, RecordedType
    <3>4. bill[c].paid \in Int /\ bill[c].total \in Int
      BY <1>8, <2>3, <3>1
    <3> HIDE DEF b, gone
    <3> QED
      BY <1>6, <2>1, <3>2, <3>3, <3>4 DEF BillInv
  <2> QED
    BY <2>2, <2>3
<1>13. RowsInv'
  BY <1>3, <1>4, <1>5, <1>10, <1>11, <1>12, WriteStep
<1> QED
  BY <1>2, <1>9, <1>13

(* update_sale, update_purchase: Edit, nothing, or an outdated edit.        *)
LEMMA EditWrite ==
    ASSUME RowsInv, side' = side, NEW r \in Requests, WriteEdit(r)
    PROVE  /\ RowsInv'
           /\ \/ UNCHANGED Committed
              \/ r \in Editors /\ OutdatedEdit(r)
              \/ \E b \in Bills, total \in Totals : Promise!Edit(b, total)
<1> DEFINE q     == request[r]
           b     == q.bill
           total == IF q.total = Keep THEN q.seen.total ELSE q.total
           new   == Promise!WithPaid([q.seen EXCEPT !.total = total], q.seen.paid)
           inflow == TallyOf(Promise!Amount, Promise!Allocated(b))
           row   == [bill[b] EXCEPT
                        !.total = IF new.total # q.seen.total THEN new.total ELSE @,
                        !.status = IF new.status # q.seen.status THEN new.status ELSE @]
           ok    == /\ bill[b].refunded = 0
                    /\ q.seen.paid <= total
                    /\ row.paid <= row.total
                    /\ Postable(q, total, inflow)
<1>1. /\ TypeOK /\ r \in Editors /\ q.at = "write" /\ RequestInv(r)
      /\ q.seen \in BillRow /\ q.total \in Totals \cup {Keep}
  BY RequestFields DEF RowsInv, WriteEdit, At
<1>2. CASE ~ok
  <2>1. RollBack(r)
    BY <1>2 DEF WriteEdit
  <2> QED
    BY <2>1, RollingBack DEF RollBack, Committed
<1>3. CASE ok
  <2>1. /\ bill' = [bill EXCEPT ![b] = row] /\ booked' = [booked EXCEPT ![b] = total]
        /\ Commit(r) /\ pay' = pay
    BY <1>3 DEF WriteEdit
  <2>2. bill \in [Bills -> BillRow] /\ pay \in [Payments -> PayType] /\ booked \in [Bills -> Nat]
    BY <1>1, Types
  <2>3. r \notin Settlers \cup Voiders
    BY <1>1, KindAssumption
  <2>4. /\ b \in Bills /\ owner[b] = r /\ bill[b].live /\ q.seen.live /\ q.seen.total \in Totals
        /\ bill[b] \in BillRow /\ BillInv(b)
        /\ side = "purchase" => q.seen.status = "partial"
    BY <1>1, <2>2, <2>3, Bounds DEF RequestInv, PlaceInv, HeldInv, SeenInv, Late, RowsInv
  <2>5. total \in Totals /\ total \in 0 .. MaxAmount /\ total \in Nat
    <3>1. total \in Totals
      BY <1>1, <2>4
    <3> HIDE DEF total
    <3>2. total \in 0 .. MaxAmount
      BY <3>1, Bounds
    <3> QED
      BY <3>1, <3>2, Bounds
  <2>6. q.seen.paid \in 0 .. MaxAmount /\ q.seen.paid \in Int /\ q.seen.paid >= 0
    BY <1>1, RowFields
  <2> HIDE DEF total
  <2>7. new.total = total /\ new.status = Promise!StatusFor(q.seen.paid, total)
    <3> DEFINE seen == [q.seen EXCEPT !.total = total]
    <3>1. seen \in BillRow /\ seen.total = total
      BY <1>1, <2>5 DEF BillRow
    <3> HIDE DEF seen
    <3> QED
      BY ZenonT(40), <2>6, <3>1, WithPaidFields DEF seen
  <2>8. new.status \in {"partial", "completed"} /\ (side = "purchase" => new.status = "partial")
    BY <2>7, StatusType
  <2> HIDE DEF new
  <2>9. /\ row \in BillRow /\ row.live = bill[b].live /\ row.paid = bill[b].paid
        /\ row.refunded = bill[b].refunded /\ row.back = bill[b].back
        /\ row.total = IF total # q.seen.total THEN total ELSE bill[b].total
        /\ row.status = IF new.status # q.seen.status THEN new.status ELSE bill[b].status
    BY <2>4, <2>5, <2>7, <2>8 DEF BillRow
  <2>10. /\ bill' \in [Bills -> BillRow] /\ bill'[b] = row
         /\ \A c \in Bills \ {b} : bill'[c] = bill[c]
         /\ booked' \in [Bills -> Nat] /\ pay' \in [Payments -> PayType]
    BY <2>1, <2>2, <2>4, <2>5, <2>9
  <2>11. bill[b].refunded = 0 /\ q.seen.paid <= total /\ row.paid <= row.total
         /\ Postable(q, total, inflow)
    BY <1>3
  <2> HIDE DEF row
  <2>12. \A c \in Bills : Recorded(c)' = Recorded(c)
    BY <1>1, <2>1, SameRecorded
  <2>13. ASSUME NEW c \in Bills PROVE BillInv(c)'
    <3>1. BillInv(c)
      BY DEF RowsInv
    <3>2. CASE c # b
      BY <2>10, <2>12, <3>1, <3>2 DEF BillInv
    <3>3. CASE c = b
      <4>1. row.total \in Totals
        BY <2>4, <2>5, <2>9 DEF BillInv
      <4>2. side = "purchase" => row.status = "partial"
        BY <2>4, <2>8, <2>9 DEF BillInv
      <4>3. bill'[c] = row /\ Recorded(c)' = Recorded(c)
        BY <2>10, <2>12, <3>3
      <4> HIDE DEF b
      <4> QED
        BY <2>4, <2>9, <2>11, <3>3, <4>1, <4>2, <4>3 DEF BillInv
    <3> QED
      BY <3>2, <3>3
  <2>14. SparesHeldRows(r)
    <3>1. \A u \in Requests \ {r} : \A c \in Bills : owner[c] = u => c # b
      BY <2>4
    <3> HIDE DEF b
    <3> QED
      BY <2>1, <2>10, <3>1 DEF SparesHeldRows
  <2>15. RowsInv'
    BY <2>1, <2>10, <2>13, <2>14, WriteStep
  <2>16. CASE OutdatedEdit(r)
    BY <1>1, <2>15, <2>16
  <2>17. CASE ~OutdatedEdit(r)
    <3>1. /\ ~(q.seen.paid > bill[b].paid) /\ q.seen.total = bill[b].total
          /\ q.seen.paid = bill[b].paid => q.seen.status = bill[b].status
      BY <2>17 DEF OutdatedEdit
    <3>2. bill[b].paid \in Nat /\ bill[b].total \in Nat
      BY <2>4, RowFields
    <3>3. row.total = total
      BY <2>9, <3>1
    <3>4. row.status = Promise!StatusFor(bill[b].paid, total)
      <4>1. CASE q.seen.paid = bill[b].paid
        BY <2>7, <2>9, <3>1, <4>1
      <4>2. CASE q.seen.paid # bill[b].paid /\ side = "purchase"
        BY <2>4, <2>8, <2>9, <4>2, StatusType DEF BillInv
      <4>3. CASE q.seen.paid # bill[b].paid /\ side = "sale"
        <5>1. q.seen.paid < bill[b].paid
          BY <2>6, <3>1, <3>2, <4>3
        <5>2. inflow = bill[b].paid
          BY <2>4, <4>3 DEF BillInv, Recorded
        <5>3. total = 0
          <6> HIDE DEF inflow
          <6> QED
            BY <2>5, <2>6, <2>11, <3>2, <4>3, <5>1, <5>2 DEF Postable
        <5>4. FALSE
          BY <2>6, <2>9, <2>11, <3>2, <3>3, <5>1, <5>3
        <5> QED
          BY <5>4
      <4> QED
        BY <1>1, <4>1, <4>2, <4>3 DEF TypeOK
    <3>5. row = Promise!WithPaid([bill[b] EXCEPT !.total = total], bill[b].paid)
      <4> DEFINE wide == [bill[b] EXCEPT !.total = total]
      <4>1. /\ wide \in BillRow /\ wide.total = total /\ wide.paid = bill[b].paid
            /\ wide.live = bill[b].live /\ wide.refunded = bill[b].refunded
            /\ wide.back = bill[b].back
        BY <2>4, <2>5 DEF BillRow
      <4>2. bill[b].paid \in 0 .. MaxAmount
        BY <2>4, RowFields
      <4> DEFINE there == Promise!WithPaid(wide, bill[b].paid)
      <4> HIDE DEF wide
      <4>3. /\ there \in BillRow /\ there.total = total /\ there.paid = bill[b].paid
            /\ there.live = bill[b].live /\ there.refunded = bill[b].refunded
            /\ there.back = bill[b].back
            /\ there.status = Promise!StatusFor(bill[b].paid, total)
        BY <4>1, <4>2, WithPaidFields
      <4> HIDE DEF there
      <4>4. row = there
        BY <2>9, <3>3, <3>4, <4>3 DEF BillRow
      <4> QED
        BY <4>4 DEF there, wide
    <3>6. Promise!Edit(b, total)
      <4>1. bill[b].paid <= total
        BY <2>9, <2>11, <3>3
      <4>2. bill' = [bill EXCEPT ![b] = Promise!WithPaid([bill[b] EXCEPT !.total = total], bill[b].paid)]
        BY <2>1, <3>5
      <4> HIDE DEF b
      <4> QED
        BY <2>1, <2>4, <2>11, <4>1, <4>2 DEF Promise!Edit
    <3> QED
      BY <2>4, <2>5, <2>15, <3>6
  <2> QED
    BY <2>16, <2>17
<1> QED
  BY <1>2, <1>3

(* delete_sale, delete_purchase: Delete.                                    *)
LEMMA DeleteWrite ==
    ASSUME RowsInv, side' = side, NEW r \in Requests, WriteDelete(r)
    PROVE  RowsInv' /\ \E b \in Bills : Promise!Delete(b)
<1> DEFINE q == request[r]
           b == q.bill
<1>1. TypeOK /\ r \in Deleters /\ q.at = "write" /\ RequestInv(r)
  BY DEF RowsInv, WriteDelete, At
<1>2. r \notin Settlers \cup Voiders
  BY <1>1, KindAssumption
<1>3. /\ b \in Bills /\ owner[b] = r /\ bill[b].live /\ bill[b].refunded = 0
      /\ \A p \in Promise!Allocated(b) : owner[p] = r
  BY <1>1, <1>2, Bounds DEF RequestInv, PlaceInv, HeldInv, DeleteInv, Late
<1>4. /\ bill' = [bill EXCEPT ![b] = Promise!NoRow]
      /\ pay' = [p \in Payments |-> IF p \in Promise!Allocated(b)
                                    THEN Promise!NoPayment("deleted") ELSE pay[p]]
      /\ booked' = [booked EXCEPT ![b] = 0]
      /\ Commit(r)
  BY DEF WriteDelete
<1>5. bill \in [Bills -> BillRow] /\ pay \in [Payments -> PayType] /\ booked \in [Bills -> Nat]
  BY <1>1, Types
<1>6. Promise!Delete(b)
  <2> HIDE DEF b
  <2> QED
    BY <1>3, <1>4 DEF Promise!Delete
<1>7. Promise!NoPayment("deleted") \in PayType /\ Promise!NoPayment("deleted").state = "deleted"
  BY Bounds DEF PayType, Promise!NoPayment
<1> HIDE DEF b
<1>8. /\ bill' \in [Bills -> BillRow] /\ bill'[b] = Promise!NoRow
      /\ \A c \in Bills \ {b} : bill'[c] = bill[c]
      /\ pay' \in [Payments -> PayType] /\ booked' \in [Bills -> Nat]
  BY <1>3, <1>4, <1>5, <1>7, NoRowFields
<1>9. \A p \in Payments : /\ p \notin Promise!Allocated(b) => pay'[p] = pay[p]
                          /\ p \in Promise!Allocated(b) => pay'[p].state = "deleted"
  BY <1>4, <1>7
<1>10. SparesHeldRows(r)
  <2>1. \A u \in Requests \ {r} : \A c \in Bills : owner[c] = u => c # b
    BY <1>3
  <2>2. \A u \in Requests \ {r} : \A p \in Payments : owner[p] = u => pay'[p] = pay[p]
    BY <1>3, <1>9
  <2>3. \A p \in Payments : pay'[p].state = "live" => pay'[p] = pay[p]
    BY <1>9
  <2> QED
    BY <1>8, <2>1, <2>2, <2>3 DEF SparesHeldRows
<1>11. ASSUME NEW c \in Bills PROVE BillInv(c)'
  <2>1. BillInv(c)
    BY DEF RowsInv
  <2>2. CASE c = b
    BY <1>8, <2>2, NoRowFields DEF BillInv
  <2>3. CASE c # b
    <3>1. Recorded(c)' = Recorded(c)
      BY <1>1, <1>9, <2>3, SameRecorded DEF Promise!Allocated
    <3> QED
      BY <1>8, <2>1, <2>3, <3>1 DEF BillInv
  <2> QED
    BY <2>2, <2>3
<1>12. RowsInv'
  BY <1>4, <1>8, <1>10, <1>11, WriteStep
<1> QED
  BY <1>3, <1>6, <1>12

(* A refund is split into no more than itself.                              *)
LEMMA CreditBound ==
    ASSUME NEW row \in BillRow, NEW back \in 0 .. MaxAmount, NEW refund \in 0 .. MaxAmount
    PROVE  /\ Promise!Credited(row, back, refund) \in 0 .. MaxAmount
           /\ Promise!Credited(row, back, refund) <= refund
<1>1. row.total \in Int /\ row.paid \in Int /\ MaxAmount \in Nat
  BY RowFields, Bounds
<1> DEFINE due == Promise!Due(row)
<1>2. due \in Int
  BY <1>1 DEF Promise!Due
<1> HIDE DEF due
<1>3. Promise!Credited(row, back, refund)
         = LET left == IF due > back THEN due - back ELSE 0
           IN  IF side = "purchase" \/ refund <= left THEN refund ELSE left
  BY DEF Promise!Credited, due
<1> QED
  BY <1>1, <1>2, <1>3

(* The returns: Return, nothing, or an outdated return.                     *)
LEMMA ReturnWrite ==
    ASSUME RowsInv, side' = side, NEW r \in Requests, WriteReturn(r)
    PROVE  /\ RowsInv'
           /\ \/ UNCHANGED Committed
              \/ r \in Returners /\ OutdatedReturn(r)
              \/ \E b \in Bills, refund \in Promise!Amounts : Promise!Return(b, refund)
<1> DEFINE q == request[r]
           b == q.bill
           credit == Promise!Credited(q.seen, bill[b].back, q.amount)
<1>1. /\ TypeOK /\ r \in Returners /\ q.at = "write" /\ RequestInv(r)
      /\ q.seen \in BillRow
  BY RequestFields DEF RowsInv, WriteReturn, At
<1>2. CASE q.amount > q.seen.total - bill[b].refunded
  <2>1. RollBack(r)
    BY <1>2 DEF WriteReturn
  <2> QED
    BY <2>1, RollingBack DEF RollBack, Committed
<1>3. CASE ~(q.amount > q.seen.total - bill[b].refunded)
  <2>1. /\ Commit(r) /\ pay' = pay /\ booked' = booked
        /\ bill' = [bill EXCEPT ![b].refunded = bill[b].refunded + q.amount,
                                ![b].back = bill[b].back + credit]
    <3>1. bill \in [Bills -> BillRow]
      BY <1>1, Types
    <3> QED
      BY <1>3, <3>1 DEF WriteReturn
  <2>2. bill \in [Bills -> BillRow] /\ pay \in [Payments -> PayType] /\ booked \in [Bills -> Nat]
    BY <1>1, Types
  <2>3. r \notin Settlers \cup Voiders
    BY <1>1, KindAssumption
  <2>4. /\ b \in Bills /\ owner[b] = r /\ bill[b].live
        /\ bill[b] \in BillRow /\ BillInv(b) /\ q.amount \in Amounts
    BY <1>1, <2>2, <2>3, Bounds DEF RequestInv, PlaceInv, HeldInv, Late, RowsInv
  <2>5. q.amount \in 0 .. MaxAmount /\ q.amount \in Int /\ q.amount > 0
    <3> HIDE DEF q
    <3>1. q.amount \in 0 .. MaxAmount /\ q.amount > 0
      BY <2>4, Bounds
    <3> QED
      BY <3>1, Bounds
  <2>6. /\ bill[b].back \in 0 .. MaxAmount /\ bill[b].refunded \in 0 .. MaxAmount
        /\ q.seen.total \in 0 .. MaxAmount /\ bill[b].back <= bill[b].refunded
        /\ bill[b].total \in Int
    BY <1>1, <2>4, RowFields DEF BillInv
  <2>7. credit \in 0 .. MaxAmount /\ credit <= q.amount
    BY <1>1, <2>5, <2>6, CreditBound
  <2> DEFINE row == [bill[b] EXCEPT !.refunded = bill[b].refunded + q.amount,
                                    !.back = bill[b].back + credit]
  <2> HIDE DEF credit
  <2>8. /\ bill[b].refunded + q.amount \in 0 .. MaxAmount
        /\ bill[b].back + credit \in 0 .. MaxAmount
        /\ bill[b].back + credit <= bill[b].refunded + q.amount
    BY <1>3, <2>5, <2>6, <2>7, Bounds
  <2>9. /\ row \in BillRow /\ row.live = bill[b].live /\ row.paid = bill[b].paid
        /\ row.total = bill[b].total /\ row.status = bill[b].status
        /\ row.back <= row.refunded
    BY <2>4, <2>8 DEF BillRow
  <2>10. bill' = [bill EXCEPT ![b] = row]
    BY <2>1, <2>2, <2>4
  <2> HIDE DEF row
  <2>11. /\ bill' \in [Bills -> BillRow] /\ bill'[b] = row
         /\ \A c \in Bills \ {b} : bill'[c] = bill[c]
         /\ booked' \in [Bills -> Nat] /\ pay' \in [Payments -> PayType]
    BY ZenonT(40), <2>1, <2>2, <2>4, <2>9, <2>10
  <2>12. \A c \in Bills : Recorded(c)' = Recorded(c)
    BY <1>1, <2>1, SameRecorded
  <2>13. ASSUME NEW c \in Bills PROVE BillInv(c)'
    <3>1. BillInv(c)
      BY DEF RowsInv
    <3>2. bill'[c] = IF c = b THEN row ELSE bill[c]
      BY <2>11
    <3>3. Recorded(c)' = Recorded(c)
      BY <2>12
    <3> HIDE DEF b
    <3> QED
      BY <2>9, <3>1, <3>2, <3>3 DEF BillInv
  <2>14. SparesHeldRows(r)
    <3>1. \A u \in Requests \ {r} : \A c \in Bills : owner[c] = u => c # b
      BY <2>4
    <3> HIDE DEF b
    <3> QED
      BY <2>1, <2>11, <3>1 DEF SparesHeldRows
  <2>15. RowsInv'
    BY <2>1, <2>11, <2>13, <2>14, WriteStep
  <2>16. CASE OutdatedReturn(r)
    BY <1>1, <2>15, <2>16
  <2>17. CASE ~OutdatedReturn(r)
    <3>1. q.seen.paid = bill[b].paid /\ q.seen.total = bill[b].total
      BY <2>17 DEF OutdatedReturn
    <3>2. credit = Promise!Credited(bill[b], bill[b].back, q.amount)
      BY <3>1 DEF credit, Promise!Credited, Promise!Due
    <3>3. q.amount \in 1 .. bill[b].total - bill[b].refunded
      BY <1>3, <2>5, <2>6, <3>1
    <3>4. bill' = [bill EXCEPT ![b] =
                      [bill[b] EXCEPT
                          !.refunded = bill[b].refunded + q.amount,
                          !.back = bill[b].back + Promise!Credited(bill[b], bill[b].back, q.amount)]]
      BY <2>10, <3>2 DEF row
    <3>5. Promise!Return(b, q.amount)
      <4> HIDE DEF b, q
      <4> QED
        BY <2>1, <2>4, <3>3, <3>4 DEF Promise!Return
    <3>6. q.amount \in Promise!Amounts
      BY <2>4, SameTally
    <3> QED
      BY <2>4, <2>15, <3>5, <3>6
  <2> QED
    BY <2>16, <2>17
<1> QED
  BY <1>2, <1>3

-----------------------------------------------------------------------------
(* What a commit does to the rows.                                          *)
LEMMA StepOfPromise ==
    ASSUME RowsInv, Next
    PROVE  /\ RowsInv'
           /\ \/ UNCHANGED Committed
              \/ Promise!Next
              \/ \E r \in Editors : OutdatedEdit(r)
              \/ \E r \in Returners : OutdatedReturn(r)
<1>1. side' = side
  BY DEF Next
<1>2. PICK r \in Requests : Arrive(r) \/ Work(r) \/ Abort(r)
  BY DEF Next
<1>3. CASE Arrive(r)
  BY <1>1, <1>3, ArriveStep DEF Arrive, Committed
<1>4. CASE Load(r)
  BY <1>1, <1>4, LoadStep DEF Load, Committed
<1>5. CASE LockParty(r)
  BY <1>1, <1>5, LockPartyStep DEF LockParty
<1>6. CASE LockPayment(r)
  BY <1>1, <1>6, LockPaymentStep DEF LockPayment, RollBack, Committed
<1>7. CASE LockBill(r)
  BY <1>1, <1>7, LockBillStep DEF LockBill, RollBack, Committed
<1>8. CASE LockDoomed(r)
  BY <1>1, <1>8, LockDoomedStep DEF LockDoomed, RollBack, Committed
<1>9. CASE SumBills(r) \/ SumPayments(r) \/ SumReturns(r)
  BY <1>1, <1>9, SumStep DEF SumBills, SumPayments, SumReturns, Committed
<1>10. CASE WriteSettlement(r)
  BY <1>1, <1>10, SettlementWrite DEF Promise!Next
<1>11. CASE WriteVoid(r)
  BY <1>1, <1>11, VoidWrite DEF Promise!Next
<1>12. CASE WriteEdit(r)
  BY <1>1, <1>12, EditWrite DEF Promise!Next
<1>13. CASE WriteDelete(r)
  BY <1>1, <1>13, DeleteWrite DEF Promise!Next
<1>14. CASE WriteReturn(r)
  BY <1>1, <1>14, ReturnWrite DEF Promise!Next
<1>15. CASE Abort(r)
  BY <1>1, <1>15, RollingBack DEF Abort, RollBack, Committed
<1> QED
  BY <1>2, <1>3, <1>4, <1>5, <1>6, <1>7, <1>8, <1>9, <1>10, <1>11, <1>12, <1>13, <1>14, <1>15
     DEF Work

-----------------------------------------------------------------------------
(* The beginning: nothing is held, and what is paid has its payments.       *)
LEMMA InitFacts ==
    ASSUME Init
    PROVE  /\ RowsInv
           /\ \A p \in LivePayments : pay[p].bill \in Bills
           /\ \A b \in Bills : bill[b].live
<1>1. /\ side \in {"sale", "purchase"}
      /\ pay \in [Payments -> {Promise!NoPayment("unused")} \cup
                              [state : {"live"}, bill : Bills, amount : Amounts]]
      /\ owner = [row \in Rows |-> Nobody]
      /\ request = [r \in Requests |-> Fresh]
  BY SameTally DEF Init, Promise!Init
<1>2. PICK total \in [Bills -> Totals],
           stated \in [Bills -> IF side = "sale" THEN {0} ELSE Amounts \cup {0}] :
        /\ \A b \in Bills : stated[b] + Recorded(b) <= total[b]
        /\ bill = [b \in Bills |->
                      [Promise!NoRow EXCEPT
                          !.live = TRUE, !.total = total[b], !.paid = stated[b] + Recorded(b),
                          !.status = Promise!StatusFor(stated[b] + Recorded(b), total[b])]]
        /\ booked = total
  BY SameTally DEF Init, Promise!Init, Recorded
<1>3. pay \in [Payments -> PayType]
  <2>1. Promise!NoPayment("unused") \in PayType
    BY Bounds DEF PayType, Promise!NoPayment
  <2>2. [state : {"live"}, bill : Bills, amount : Amounts] \subseteq PayType
    BY Bounds DEF PayType
  <2> QED
    BY <1>1, <2>1, <2>2
<1>4. ASSUME NEW b \in Bills
      PROVE  /\ bill[b] \in BillRow /\ bill[b].live
             /\ bill[b].total \in Totals /\ bill[b].paid <= bill[b].total
             /\ Recorded(b) <= bill[b].paid
             /\ side = "sale" => bill[b].paid = Recorded(b)
             /\ side = "purchase" => bill[b].status = "partial"
             /\ bill[b].back = 0 /\ bill[b].refunded = 0
  <2> DEFINE paid == stated[b] + Recorded(b)
             status == Promise!StatusFor(paid, total[b])
  <2>1. /\ stated[b] \in 0 .. MaxAmount /\ (side = "sale" => stated[b] = 0)
        /\ total[b] \in Totals
    BY <1>2, Bounds
  <2>2. Recorded(b) \in Nat
    BY RecordedType
  <2>3. /\ total[b] \in 0 .. MaxAmount
        /\ MaxAmount \in Nat
    BY <2>1, Bounds
  <2>4. paid <= total[b] /\ paid \in 0 .. MaxAmount /\ Recorded(b) <= paid
        /\ (side = "sale" => paid = Recorded(b))
    <3>1. paid <= total[b]
      BY <1>2
    <3>2. stated[b] \in Int /\ stated[b] >= 0 /\ total[b] \in Int /\ total[b] <= MaxAmount
      BY <2>1, <2>3
    <3> QED
      BY <2>1, <2>2, <2>3, <3>1, <3>2
  <2>5. status \in {"partial", "completed"} /\ (side = "purchase" => status = "partial")
    BY StatusType
  <2> HIDE DEF paid, status
  <2>6. bill[b] = [Promise!NoRow EXCEPT !.live = TRUE, !.total = total[b], !.paid = paid,
                                        !.status = status]
    BY <1>2 DEF paid, status
  <2>7. /\ bill[b] \in BillRow /\ bill[b].live /\ bill[b].total = total[b]
        /\ bill[b].paid = paid /\ bill[b].status = status
        /\ bill[b].back = 0 /\ bill[b].refunded = 0
    BY <2>3, <2>4, <2>5, <2>6, NoRowFields DEF Promise!NoRow, BillRow
  <2> QED
    BY <2>1, <2>4, <2>5, <2>7
<1>5. TypeOK
  <2>1. bill \in [Bills -> BillRow]
    BY <1>2, <1>4
  <2>2. booked \in [Bills -> Nat]
    BY <1>2, Bounds
  <2>3. request \in [Requests -> RequestType]
    BY <1>1, FreshType
  <2>4. owner \in [Rows -> Requests \cup {Nobody}]
    BY <1>1
  <2> QED
    BY <1>1, <1>3, <2>1, <2>2, <2>3, <2>4, Types
<1>6. ASSUME NEW b \in Bills PROVE BillInv(b)
  BY <1>4 DEF BillInv
<1>7. ASSUME NEW r \in Requests PROVE RequestInv(r)
  <2>1. request[r] = Fresh
    BY <1>1
  <2> QED
    BY <2>1, FreshFields, NoRowFields
       DEF RequestInv, PlaceInv, SeenInv, HeldInv, VoidInv, DeleteInv, Late
<1>8. \A p \in LivePayments : pay[p].bill \in Bills
  BY <1>1 DEF LivePayments, Promise!NoPayment
<1> QED
  BY <1>4, <1>5, <1>6, <1>7, <1>8 DEF RowsInv

(* The requests know the rows they hold, always.                            *)
LEMMA RowsStay == Spec => []RowsInv
<1>1. Init => RowsInv
  BY InitFacts
<1>2. RowsInv /\ [Next]_vars => RowsInv'
  <2> SUFFICES ASSUME RowsInv, [Next]_vars PROVE RowsInv'
    OBVIOUS
  <2>1. CASE Next
    BY <2>1, StepOfPromise
  <2>2. CASE UNCHANGED vars
    <3>1. /\ side' = side /\ bill' = bill /\ pay' = pay /\ booked' = booked
          /\ owner' = owner /\ request' = request
      BY <2>2 DEF vars
    <3>2. TypeOK'
      BY <3>1 DEF RowsInv, TypeOK
    <3>3. ASSUME NEW b \in Bills PROVE BillInv(b)'
      <4>1. Recorded(b)' = Recorded(b)
        BY <3>1 DEF Recorded, Promise!Amount, Promise!Allocated
      <4> QED
        BY <3>1, <4>1 DEF RowsInv, BillInv
    <3>4. ASSUME NEW r \in Requests PROVE RequestInv(r)'
      <4>1. RequestInv(r)
        BY DEF RowsInv
      <4> QED
        BY <3>1, <4>1 DEF RequestInv, PlaceInv, SeenInv, HeldInv, VoidInv, DeleteInv,
                          Promise!Allocated
    <3> QED
      BY <3>2, <3>3, <3>4 DEF RowsInv
  <2> QED
    BY <2>1, <2>2
<1> QED
  BY <1>1, <1>2, PTL DEF Spec

(* SettlementRace implements SettledBills: each commit is one of its steps, *)
(* outdated edits and outdated returns of the assistant apart.              *)
THEOREM SettlementIsAtomic == Spec => SettlesAtomically
<1> DEFINE A == \/ Promise!Next
                \/ \E r \in Editors : OutdatedEdit(r)
                \/ \E r \in Returners : OutdatedReturn(r)
<1>1. Init => Promise!Init
  BY DEF Init
<1>2. RowsInv /\ [Next]_vars => [A]_Committed
  BY StepOfPromise DEF vars, Committed
<1> QED
  BY <1>1, <1>2, RowsStay, PTL DEF Spec, SettlesAtomically

-----------------------------------------------------------------------------
(* The Khata.  One settlement at a time is past the lock of the party, and  *)
(* the balance it computes stays within what is left: meanwhile payments    *)
(* may go but none comes.                                                   *)
TotalSum == TallyOf([b \in Bills |-> bill[b].total], Bills)

PaidSum == TallyOf(Promise!Amount, LivePayments)

InParty(r) == request[r].at \in {"bill", "bills", "payments", "returns", "write"}

BalanceInv(r) ==
    r \in Settlers =>
        /\ InParty(r) => owner[Khata] = r
        /\ At(r, "payments") => request[r].balance = TotalSum
        /\ At(r, "returns") \/ At(r, "write") => request[r].balance <= TotalSum - PaidSum

KhataInv ==
    NothingReworked =>
        /\ PaidSum <= TotalSum
        /\ \A r \in Requests : BalanceInv(r)

(* The sums are natural numbers.                                            *)
LEMMA SumTypes ==
    /\ TotalSum \in Nat
    /\ PaidSum \in Nat
    /\ LivePayments \subseteq Payments
    /\ IsFiniteSet(LivePayments)
    /\ TallyOf([b \in Bills |-> bill[b].back], Bills) \in Nat
<1>1. LivePayments \subseteq Payments
  BY DEF LivePayments
<1>2. IsFiniteSet(LivePayments) /\ IsFiniteSet(Bills)
  BY <1>1, Bounds, FS_Subset
<1> QED
  BY <1>1, <1>2, TallyType DEF TotalSum, PaidSum

(* Each bill covers its payments at first, so all bills cover all of them.  *)
LEMMA KhataAtFirst == Init => KhataInv
<1> SUFFICES ASSUME Init PROVE KhataInv
  OBVIOUS
<1>1. RowsInv /\ TypeOK
  BY InitFacts DEF RowsInv
<1> DEFINE home == [p \in LivePayments |-> pay[p].bill]
           total == [b \in Bills |-> bill[b].total]
<1>2. home \in [LivePayments -> Bills]
  BY InitFacts
<1>3. ASSUME NEW b \in Bills
      PROVE  /\ total[b] \in 0 .. MaxAmount
             /\ TallyOf(Promise!Amount, {p \in LivePayments : home[p] = b}) <= total[b]
  <2>1. {p \in LivePayments : home[p] = b} = Promise!Allocated(b)
    BY DEF LivePayments, Promise!Allocated
  <2>2. Recorded(b) <= bill[b].paid /\ bill[b].paid <= bill[b].total /\ bill[b] \in BillRow
    BY <1>1, InitFacts DEF RowsInv, BillInv, TypeOK
  <2>3. /\ bill[b].paid \in Int /\ bill[b].total \in Int /\ Recorded(b) \in Nat
        /\ bill[b].total \in 0 .. MaxAmount
    BY <2>2, RowFields, RecordedType
  <2>4. total[b] = bill[b].total
    OBVIOUS
  <2> HIDE DEF home, total
  <2>5. TallyOf(Promise!Amount, {p \in LivePayments : home[p] = b}) = Recorded(b)
    BY <2>1 DEF Recorded
  <2> QED
    BY <2>2, <2>3, <2>4, <2>5
<1>4. \A b \in Bills : total[b] \in 0 .. MaxAmount
  BY <1>3
<1>5. \A b \in Bills : TallyOf(Promise!Amount, {p \in LivePayments : home[p] = b}) <= total[b]
  BY <1>3
<1>6. IsFiniteSet(LivePayments) /\ IsFiniteSet(Bills)
  BY SumTypes, Bounds
<1> HIDE DEF home, total
<1>7. TallyOf(Promise!Amount, LivePayments) <= TallyOf(total, Bills)
  BY <1>2, <1>4, <1>5, <1>6, TallyOfGroups
<1>8. PaidSum <= TotalSum
  BY <1>7 DEF PaidSum, TotalSum, total
<1>9. \A r \in Requests : request[r].at = "idle"
  BY FreshFields DEF Init
<1> QED
  BY <1>8, <1>9 DEF KhataInv, BalanceInv, InParty, At

(* What a step of one request does to the others, whatever it is.           *)
LEMMA OneAtATime ==
    ASSUME TypeOK, NEW r \in Requests, Arrive(r) \/ Work(r) \/ Abort(r)
    PROVE  /\ request'[r].at # "idle"
           /\ \A u \in Requests \ {r} :
                 /\ request'[u] = request[u]
                 /\ owner[Khata] = u => owner'[Khata] = u
<1>1. /\ request \in [Requests -> RequestType]
      /\ owner \in [Rows -> Requests \cup {Nobody}]
      /\ Khata \in Rows /\ Nobody \notin Requests
  BY Types, RaceAssumption DEF Rows
<1>2. CASE Commit(r)
  <2>1. request' = [request EXCEPT ![r] = [Fresh EXCEPT !.at = "done"]]
    BY <1>2 DEF Commit
  <2>2. [Fresh EXCEPT !.at = "done"].at = "done"
    BY DEF Fresh
  <2> QED
    BY <1>1, <1>2, <2>1, <2>2 DEF Commit, Released
<1>3. CASE Arrive(r)
  <2>1. \A u \in Requests \ {r} : request'[u] = request[u]
    BY <1>1, <1>3 DEF Arrive
  <2>2. request'[r].at # "idle"
    BY ZenonT(40), <1>1, <1>3 DEF Arrive, Fresh
  <2> QED
    BY <1>3, <2>1, <2>2 DEF Arrive
<1>4. CASE Load(r) \/ SumBills(r) \/ SumPayments(r) \/ SumReturns(r)
  BY <1>1, <1>4 DEF Load, SumBills, SumPayments, SumReturns, RequestType
<1>5. CASE /\ owner' = owner \/ \E row \in Rows : Take(r, row)
           /\ \A u \in Requests \ {r} : request'[u] = request[u]
           /\ request'[r].at # "idle"
  BY <1>1, <1>5 DEF Take, Free
<1>6. CASE LockParty(r)
  <2>1. \A u \in Requests \ {r} : request'[u] = request[u]
    BY <1>1, <1>6 DEF LockParty, Move
  <2>2. request'[r].at # "idle"
    BY <1>1, <1>6 DEF LockParty, Move, RequestType
  <2> QED
    BY <1>1, <1>5, <1>6, <2>1, <2>2 DEF LockParty
<1>7. CASE LockPayment(r) /\ ~Commit(r)
  <2>1. Take(r, request[r].payment)
    BY <1>7 DEF LockPayment, RollBack
  <2>2. request[r].payment \in Rows \/ owner' = owner
    BY <1>1, <2>1 DEF Take
  <2>3. request' = [request EXCEPT
                       ![r].at = IF pay[request[r].payment].bill = NoBill THEN "write" ELSE "bill",
                       ![r].bill = pay[request[r].payment].bill]
    BY <1>7 DEF LockPayment, RollBack
  <2>4. request'[r].at # "idle" /\ \A u \in Requests \ {r} : request'[u] = request[u]
    BY <1>1, <2>3 DEF RequestType
  <2> QED
    BY <1>5, <2>1, <2>2, <2>4
<1>8. CASE LockBill(r) /\ ~Commit(r)
  <2> DEFINE b == request[r].bill
             at == CASE r \in Settlers -> "bills"
                     [] r \in Deleters -> "doomed"
                     [] OTHER          -> "write"
             doomed == IF r \in Deleters THEN Promise!Allocated(b) ELSE {}
  <2>1. /\ Take(r, b)
        /\ request' = [request EXCEPT ![r].seen = SeenUnderLock(r), ![r].doomed = doomed,
                                      ![r].at = at]
    BY <1>8 DEF LockBill, RollBack
  <2>2. b \in Rows \/ owner' = owner
    BY <1>1, <2>1 DEF Take
  <2>3. at # "idle"
    OBVIOUS
  <2> HIDE DEF at, doomed
  <2>4. request'[r].at # "idle" /\ \A u \in Requests \ {r} : request'[u] = request[u]
    BY <1>1, <2>1, <2>3 DEF RequestType
  <2> QED
    BY <1>5, <2>1, <2>2, <2>4
<1>9. CASE LockDoomed(r) /\ ~Commit(r)
  <2>1. request'[r].at # "idle" /\ \A u \in Requests \ {r} : request'[u] = request[u]
    BY <1>1, <1>9 DEF LockDoomed, RollBack, Move, At, RequestType
  <2>2. request[r].doomed \subseteq Rows
    BY RequestFields DEF Rows
  <2>3. owner' = owner \/ \E row \in Rows : Take(r, row)
    BY <1>9, <2>2 DEF LockDoomed, RollBack
  <2> QED
    BY <1>5, <2>1, <2>3
<1>10. CASE WriteSettlement(r) \/ WriteVoid(r) \/ WriteEdit(r) \/ WriteDelete(r) \/ WriteReturn(r)
            \/ Abort(r)
  BY <1>2, <1>10 DEF WriteSettlement, WriteVoid, WriteEdit, WriteDelete, WriteReturn, Abort, RollBack
<1> QED
  BY <1>2, <1>3, <1>4, <1>6, <1>7, <1>8, <1>9, <1>10 DEF Work

(* The sums change with the rows only.                                      *)
LEMMA SameSums ==
    ASSUME UNCHANGED Committed
    PROVE  TotalSum' = TotalSum /\ PaidSum' = PaidSum
  BY DEF Committed, TotalSum, PaidSum, LivePayments, Promise!Amount

(* A settlement, a void and a return leave the totals alone.                *)
LEMMA SameTotals ==
    ASSUME TypeOK, NEW r \in Requests, WriteSettlement(r) \/ WriteVoid(r) \/ WriteReturn(r)
    PROVE  TotalSum' = TotalSum
<1>1. bill \in [Bills -> BillRow]
  BY Types
<1>2. ASSUME NEW c \in Bills PROVE bill'[c].total = bill[c].total
  <2>1. CASE WriteSettlement(r)
    BY <1>1, <2>1 DEF WriteSettlement, RollBack, BillRow
  <2>2. CASE WriteVoid(r)
    BY <1>1, <2>2 DEF WriteVoid, BillRow
  <2>3. CASE WriteReturn(r)
    BY <1>1, <2>3 DEF WriteReturn, RollBack, BillRow
  <2> QED
    BY <2>1, <2>2, <2>3
<1> DEFINE total == [b \in Bills |-> bill[b].total]
           after == [b \in Bills |-> bill'[b].total]
<1>3. \A c \in Bills : after[c] = total[c]
  BY <1>2
<1>4. TallyOf(after, Bills) = TallyOf(total, Bills)
  BY <1>3, TallySame
<1> QED
  BY <1>4 DEF TotalSum

(* A new payment adds to what is paid.                                      *)
LEMMA PaidMore ==
    ASSUME TypeOK, NEW b, NEW p \in Payments, NEW a \in 0 .. MaxAmount,
           pay[p].state = "unused",
           pay' = [pay EXCEPT ![p] = [state |-> "live", bill |-> b, amount |-> a]]
    PROVE  PaidSum' = PaidSum + a
<1> DEFINE amount == [x \in Payments |-> pay'[x].amount]
           S == LivePayments
<1>1. pay \in [Payments -> PayType]
  BY Types
<1>2. /\ pay'[p] = [state |-> "live", bill |-> b, amount |-> a]
      /\ \A x \in Payments \ {p} : pay'[x] = pay[x]
  BY <1>1
<1>3. LivePayments' = S \cup {p} /\ p \notin S
  BY <1>2 DEF LivePayments
<1>4. amount[p] = a /\ \A x \in S : amount[x] = Promise!Amount[x]
  BY <1>2, <1>3, SumTypes, PaymentFields
<1>5. IsFiniteSet(S)
  BY SumTypes
<1> HIDE DEF S, amount
<1>6. TallyOf(amount, S \cup {p}) = TallyOf(amount, S) + a
  BY <1>3, <1>4, <1>5, TallyAdd
<1>7. TallyOf(amount, S) = TallyOf(Promise!Amount, S)
  BY <1>4, TallySame
<1> QED
  BY <1>3, <1>6, <1>7 DEF PaidSum, Promise!Amount, S, amount

(* A voided payment takes from it.                                          *)
LEMMA PaidLess ==
    ASSUME TypeOK, NEW p \in Payments, pay[p].state = "live",
           pay' = [pay EXCEPT ![p] = Promise!NoPayment("deleted")]
    PROVE  PaidSum' \in Nat /\ PaidSum' <= PaidSum
<1> DEFINE amount == [x \in Payments |-> pay'[x].amount]
           S == LivePayments \ {p}
<1>1. pay \in [Payments -> PayType]
  BY Types
<1>2. /\ pay'[p].state = "deleted"
      /\ \A x \in Payments \ {p} : pay'[x] = pay[x]
  BY <1>1 DEF Promise!NoPayment
<1>3. LivePayments' = S /\ LivePayments = S \cup {p} /\ p \notin S
  BY <1>2 DEF LivePayments
<1>4. \A x \in S : amount[x] = Promise!Amount[x]
  BY <1>2, SumTypes, PaymentFields
<1>5. IsFiniteSet(S)
  BY SumTypes, FS_Subset
<1>6. Promise!Amount[p] \in 0 .. MaxAmount
  BY PaymentFields
<1> HIDE DEF S, amount
<1>7. TallyOf(Promise!Amount, S \cup {p}) = TallyOf(Promise!Amount, S) + Promise!Amount[p]
  BY <1>3, <1>5, <1>6, TallyAdd
<1>8. TallyOf(amount, S) = TallyOf(Promise!Amount, S) /\ TallyOf(amount, S) \in Nat
  BY <1>4, <1>5, TallySame, TallyType
<1>9. PaidSum' = TallyOf(amount, S)
  BY <1>3 DEF PaidSum, Promise!Amount, amount
<1>10. PaidSum = TallyOf(Promise!Amount, S) + Promise!Amount[p]
  BY <1>3, <1>7 DEF PaidSum
<1> QED
  BY <1>6, <1>8, <1>9, <1>10, Bounds

(* Every step of a request keeps the Khata covered.                         *)
LEMMA KhataStep ==
    ASSUME RowsInv, KhataInv, NEW r \in Requests, Arrive(r) \/ Work(r) \/ Abort(r)
    PROVE  KhataInv'
<1> SUFFICES ASSUME NothingReworked'
             PROVE  PaidSum' <= TotalSum' /\ \A u \in Requests : BalanceInv(u)'
  BY DEF KhataInv
<1>1. TypeOK
  BY DEF RowsInv
<1>2. /\ request'[r].at # "idle"
      /\ \A u \in Requests \ {r} : request'[u] = request[u]
      /\ \A u \in Requests \ {r} : owner[Khata] = u => owner'[Khata] = u
  BY <1>1, OneAtATime
<1>3. r \notin Editors \cup Deleters
  BY <1>2 DEF NothingReworked, At
<1>4. NothingReworked
  <2>1. \A u \in Editors \cup Deleters : u # r /\ u \in Requests
    BY <1>3 DEF Requests
  <2> QED
    BY <1>2, <2>1 DEF NothingReworked, At
<1>5. PaidSum <= TotalSum /\ \A u \in Requests : BalanceInv(u)
  BY <1>4 DEF KhataInv
<1>6. /\ PaidSum \in Nat /\ TotalSum \in Nat
      /\ \A u \in Requests : request[u].balance \in Int
  BY <1>1, SumTypes, RequestFields
<1>7. SUFFICES ASSUME TRUE
               PROVE  \/ TotalSum' = TotalSum /\ PaidSum' \in Int /\ PaidSum' <= PaidSum /\ BalanceInv(r)'
                      \/ PaidSum' <= TotalSum' /\ \A u \in Requests : BalanceInv(u)'
  <2>1. ASSUME TotalSum' = TotalSum, PaidSum' \in Int, PaidSum' <= PaidSum, BalanceInv(r)',
               NEW u \in Requests
        PROVE  BalanceInv(u)'
    <3>1. CASE u = r
      BY <2>1, <3>1
    <3>2. CASE u # r
      <4>1. request'[u] = request[u] /\ (owner[Khata] = u => owner'[Khata] = u)
        BY <1>2, <3>2
      <4>2. BalanceInv(u)
        BY <1>5
      <4>3. request[u].balance \in Int
        BY <1>6
      <4> QED
        BY <1>6, <2>1, <4>1, <4>2, <4>3 DEF BalanceInv, InParty, At
    <3> QED
      BY <3>1, <3>2
  <2>2. ASSUME TotalSum' = TotalSum, PaidSum' \in Int, PaidSum' <= PaidSum
        PROVE  PaidSum' <= TotalSum'
    BY <1>5, <1>6, <2>2
  <2> QED
    BY <1>7, <2>1, <2>2
<1>8. request \in [Requests -> RequestType] /\ owner \in [Rows -> Requests \cup {Nobody}]
      /\ Khata \in Rows
  BY <1>1, Types DEF Rows
<1>9. RequestInv(r) /\ BalanceInv(r)
  BY <1>5 DEF RowsInv
<1>10. CASE r \notin Settlers /\ UNCHANGED Committed
  BY <1>6, <1>10, SameSums DEF BalanceInv
<1>11. CASE RollBack(r)
  <2>1. UNCHANGED Committed /\ Commit(r)
    BY <1>11 DEF RollBack, Committed
  <2>2. request'[r].at = "done"
    BY <1>8, <2>1 DEF Commit, Fresh
  <2> QED
    BY <1>6, <2>1, <2>2, SameSums DEF BalanceInv, InParty, At
<1>12. CASE r \in Settlers /\ Arrive(r)
  <2>1. request'[r].at = "party"
    <3>1. r \notin Voiders \cup Returners
      BY <1>12, KindAssumption
    <3> QED
      BY <1>3, <1>8, <1>12, <3>1 DEF Arrive, Fresh
  <2>2. UNCHANGED Committed
    BY <1>12 DEF Arrive, Committed
  <2> QED
    BY <1>6, <2>1, <2>2, SameSums DEF BalanceInv, InParty, At
<1>13. CASE LockParty(r)
  <2>1. request'[r].at \in {"bill", "bills"} /\ owner'[Khata] = r
    BY <1>8, <1>13 DEF LockParty, Move, Take, RequestType
  <2>2. UNCHANGED Committed
    BY <1>13 DEF LockParty
  <2> QED
    BY <1>6, <2>1, <2>2, SameSums DEF BalanceInv, At
<1>14. CASE r \in Settlers /\ LockBill(r) /\ ~RollBack(r)
  <2> DEFINE b == request[r].bill
             doomed == IF r \in Deleters THEN Promise!Allocated(b) ELSE {}
  <2>1. /\ At(r, "bill") /\ Take(r, b) /\ UNCHANGED Committed
        /\ request' = [request EXCEPT ![r].seen = SeenUnderLock(r), ![r].doomed = doomed,
                                      ![r].at = "bills"]
    <3>1. r \notin Deleters
      BY <1>14, KindAssumption
    <3> HIDE DEF doomed
    <3>2. /\ At(r, "bill") /\ Take(r, b) /\ UNCHANGED Committed
          /\ request' = [request EXCEPT
                             ![r].seen = SeenUnderLock(r), ![r].doomed = doomed,
                             ![r].at = CASE r \in Settlers -> "bills"
                                         [] r \in Deleters -> "doomed"
                                         [] OTHER          -> "write"]
      BY <1>14 DEF LockBill, doomed
    <3> QED
      BY <1>14, <3>1, <3>2
  <2>2. owner[Khata] = r
    BY <1>9, <1>14, <2>1 DEF BalanceInv, InParty, At
  <2>3. owner'[Khata] = r
    BY <1>8, <2>1, <2>2 DEF Take
  <2>4. request'[r].at = "bills"
    BY <1>8, <2>1 DEF RequestType
  <2> QED
    BY <1>6, <2>1, <2>3, <2>4, SameSums DEF BalanceInv, At
<1>15. CASE SumBills(r)
  <2>1. r \in Settlers /\ UNCHANGED Committed /\ owner' = owner /\ At(r, "bills")
    BY <1>9, <1>15 DEF SumBills, Committed, RequestInv, PlaceInv, At
  <2>2. request'[r].at = "payments" /\ request'[r].balance = TotalSum
    BY <1>8, <1>15 DEF SumBills, TotalSum, RequestType
  <2> QED
    BY <1>6, <1>9, <2>1, <2>2, SameSums DEF BalanceInv, InParty, At
<1>16. CASE SumPayments(r)
  <2>1. r \in Settlers /\ UNCHANGED Committed /\ owner' = owner /\ At(r, "payments")
    BY <1>9, <1>16 DEF SumPayments, Committed, RequestInv, PlaceInv, At
  <2>2. request' = [request EXCEPT ![r].at = "returns",
                                   ![r].balance = request[r].balance - PaidSum]
    BY <1>8, <1>16 DEF SumPayments, PaidSum
  <2>3. request'[r].at = "returns" /\ request'[r].balance = request[r].balance - PaidSum
    BY <1>8, <2>2 DEF RequestType
  <2> QED
    BY <1>6, <1>9, <2>1, <2>3, SameSums DEF BalanceInv, InParty, At
<1>17. CASE SumReturns(r)
  <2> DEFINE back == TallyOf([b \in Bills |-> bill[b].back], Bills)
  <2>1. r \in Settlers /\ UNCHANGED Committed /\ owner' = owner /\ At(r, "returns")
    BY <1>9, <1>17 DEF SumReturns, Committed, RequestInv, PlaceInv, At
  <2>2. request' = [request EXCEPT ![r].at = "write", ![r].balance = request[r].balance - back]
    BY <1>8, <1>17 DEF SumReturns
  <2>3. back \in Nat
    BY SumTypes
  <2> HIDE DEF back
  <2>4. request'[r].at = "write" /\ request'[r].balance = request[r].balance - back
    BY <1>8, <2>2 DEF RequestType
  <2>5. request[r].balance \in Int
    BY <1>6
  <2> QED
    BY <1>6, <1>9, <2>1, <2>3, <2>4, <2>5, SameSums DEF BalanceInv, InParty, At
<1>18. CASE WriteSettlement(r) /\ ~RollBack(r)
  <2> DEFINE q == request[r]
  <2>1. PICK p \in Payments :
            /\ pay[p].state = "unused"
            /\ pay' = [pay EXCEPT ![p] = [state |-> "live", bill |-> q.bill, amount |-> q.amount]]
    BY <1>18 DEF WriteSettlement
  <2>2. r \in Settlers /\ At(r, "write") /\ Commit(r) /\ q.amount <= q.balance
    BY <1>18 DEF WriteSettlement, Payable
  <2>3. q.amount \in 0 .. MaxAmount /\ q.amount \in Int
    BY <1>1, RequestFields
  <2>4. owner[Khata] = r /\ q.balance <= TotalSum - PaidSum
    BY <1>9, <2>2 DEF BalanceInv, InParty, At
  <2>5. TotalSum' = TotalSum
    BY <1>1, <1>18, SameTotals
  <2>6. PaidSum' = PaidSum + q.amount
    BY <1>1, <2>1, <2>3, PaidMore
  <2>7. request'[r].at = "done"
    BY <1>8, <2>2 DEF Commit, Fresh
  <2>8. ASSUME NEW u \in Requests PROVE BalanceInv(u)'
    <3>1. CASE u = r
      BY <2>7, <3>1 DEF BalanceInv, InParty, At
    <3>2. CASE u # r
      <4>1. BalanceInv(u) /\ request'[u] = request[u]
        BY <1>2, <1>5, <3>2
      <4> QED
        BY <2>4, <3>2, <4>1 DEF BalanceInv, InParty, At
    <3> QED
      BY <3>1, <3>2
  <2>9. q.balance \in Int
    BY <1>6
  <2> HIDE DEF q
  <2>10. PaidSum' <= TotalSum'
    BY <1>6, <2>2, <2>3, <2>4, <2>5, <2>6, <2>9
  <2> QED
    BY <2>8, <2>10
<1>19. CASE WriteVoid(r)
  <2>1. /\ r \in Voiders /\ request[r].payment \in Payments
        /\ pay[request[r].payment].state = "live"
        /\ pay' = [pay EXCEPT ![request[r].payment] = Promise!NoPayment("deleted")]
    BY <1>9, <1>19 DEF WriteVoid, RequestInv, VoidInv, At
  <2>2. PaidSum' \in Nat /\ PaidSum' <= PaidSum
    BY <1>1, <2>1, PaidLess
  <2>3. TotalSum' = TotalSum
    BY <1>1, <1>19, SameTotals
  <2>4. r \notin Settlers
    BY <2>1, KindAssumption
  <2>5. BalanceInv(r)'
    BY <2>4 DEF BalanceInv
  <2> QED
    BY <2>2, <2>3, <2>5
<1>20. CASE WriteReturn(r)
  <2>1. TotalSum' = TotalSum
    BY <1>1, <1>20, SameTotals
  <2>2. r \in Returners /\ pay' = pay
    BY <1>20 DEF WriteReturn, RollBack
  <2>3. PaidSum' = PaidSum
    BY <2>2 DEF PaidSum, LivePayments, Promise!Amount
  <2>4. r \notin Settlers
    BY <2>2, KindAssumption
  <2> QED
    BY <1>6, <2>1, <2>3, <2>4 DEF BalanceInv
<1>21. r \in Settlers => r \notin Voiders \cup Returners
  BY KindAssumption
<1>22. CASE r \notin Settlers /\ (Arrive(r) \/ Load(r) \/ LockPayment(r) \/ LockBill(r) \/ LockDoomed(r))
  BY <1>10, <1>22 DEF Arrive, Load, LockPayment, LockBill, LockDoomed, RollBack, Committed
<1>23. CASE r \in Settlers /\ (Load(r) \/ LockPayment(r) \/ LockDoomed(r))
  BY <1>3, <1>9, <1>21, <1>23
     DEF Load, LockPayment, LockDoomed, At, RequestInv, PlaceInv
<1>24. CASE WriteEdit(r) \/ WriteDelete(r)
  BY <1>3, <1>24 DEF WriteEdit, WriteDelete
<1> QED
  BY <1>11, <1>12, <1>13, <1>14, <1>15, <1>16, <1>17, <1>18, <1>19, <1>20, <1>22, <1>23, <1>24
     DEF Work, Abort

(* RaceInv holds however many requests overlap.                             *)
THEOREM SettlementsStayCovered == Spec => []RaceInv
<1>1. Init => KhataInv
  BY KhataAtFirst
<1>2. RowsInv /\ KhataInv /\ [Next]_vars => KhataInv'
  <2>1. RowsInv /\ KhataInv /\ Next => KhataInv'
    BY KhataStep DEF Next
  <2>2. KhataInv /\ UNCHANGED vars => KhataInv'
    BY DEF vars, KhataInv, NothingReworked, PaidSum, TotalSum, LivePayments, Promise!Amount,
           BalanceInv, InParty, At
  <2> QED
    BY <2>1, <2>2
<1>3. RowsInv /\ KhataInv => RaceInv
  BY DEF RowsInv, KhataInv, RaceInv, KhataCovered, PaidSum, TotalSum
<1> QED
  BY <1>1, <1>2, <1>3, RowsStay, PTL DEF Spec
=============================================================================
