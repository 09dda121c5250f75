------------------------------- MODULE Reports -------------------------------
(***************************************************************************)
(* The reports (services/reporting.py, the account ledger of               *)
(* services/accounting.py) over the books that Bookkeeping writes.  A      *)
(* report is several statements and, under READ COMMITTED, each of them    *)
(* sees what is committed when it runs.                                    *)
(***************************************************************************)
EXTENDS Bookkeeping, Sequences

CONSTANTS Readers

VARIABLE report   \* where each report is and what its statements returned

vars == <<accounts, document, ledger, day, request, arrivals, report>>

Kinds == {"trial_balance", "profit_and_loss", "balance_sheet", "dashboard", "account_ledger"}

Resting == [at |-> "resting"]

Init == BookInit /\ report = [q \in Readers |-> Resting]

-----------------------------------------------------------------------------
(* Statements: sums over the committed rows.  SUM(column) is the number of  *)
(* money units in the rows: row x contributes <<x, 1>>, ..., <<x, f[x]>>.   *)

Units(f, S) == UNION {{x} \X (1 .. f[x]) : x \in S}

SumOf(f, S) == Cardinality(Units(f, S))

Entries == UNION {{d} \X ledger[d] : d \in Documents}

Picked(codes, side, from, to) ==
    {p \in Entries : p[2].account \in codes /\ p[2].side = side /\ p[2].day \in from .. to}

AmountOf(P) == [p \in P |-> p[2].amount]

Summed(codes, side, from, to) ==
    LET P == Picked(codes, side, from, to) IN SumOf(AmountOf(P), P)

_account_activity(from, to) ==
    [account \in Accounts |-> [debit  |-> Summed({account}, "debit", from, to),
                               credit |-> Summed({account}, "credit", from, to)]]

_revenue_for_period(from, to) ==
    Summed({"sales_revenue"}, "credit", from, to) - Summed({"sales_revenue"}, "debit", from, to)

Balance(codes, from, to) == Summed(codes, "debit", from, to) - Summed(codes, "credit", from, to)

(* Counting the cost of goods among the expenses as well. *)
CogsCountedTwice(include_cogs, from, to) ==
    Balance(IF include_cogs THEN {"cogs"} ELSE Categories \cup {"cogs"}, from, to)

_expense_activity_for_period(include_cogs, from, to) ==
    Balance(IF include_cogs THEN {"cogs"} ELSE Categories, from, to)

SoldOn(today) == {s \in Sales : There(s) /\ document[s].day = today}

Turnover(S) == SumOf([s \in S |-> document[s].figure.total], S)

Statements(kind, today) ==
    CASE kind = "trial_balance" ->
            <<accounts, _account_activity(today, today), _account_activity(1, today)>>
      [] kind = "balance_sheet" ->
            <<accounts, _account_activity(1, today)>>
      [] kind = "profit_and_loss" ->
            <<_revenue_for_period(1, today), _expense_activity_for_period(TRUE, 1, today),
              _expense_activity_for_period(FALSE, 1, today)>>
      [] kind = "dashboard" ->
            <<Turnover(SoldOn(today)), _expense_activity_for_period(TRUE, today, today),
              _expense_activity_for_period(FALSE, today, today)>>
      [] kind = "account_ledger" ->
            <<Balance({"cash"}, 1, today - 1), Balance({"cash"}, today, today)>>

Length(kind) == IF kind \in {"balance_sheet", "account_ledger"} THEN 2 ELSE 3

-----------------------------------------------------------------------------
Ask(q) ==
    /\ report[q].at = "resting"
    /\ \E kind \in Kinds :
          report' = [report EXCEPT ![q] =
              [at |-> "reading", kind |-> kind, today |-> day, got |-> <<>>,
               quiet |-> TRUE, grew |-> FALSE]]
    /\ UNCHANGED bookVars

ReadOn(q) ==
    LET n == Len(report[q].got) + 1
    IN  /\ report[q].at = "reading"
        /\ n <= Length(report[q].kind)
        /\ report' = [report EXCEPT
              ![q].got = Append(@, Statements(report[q].kind, report[q].today)[n]),
              ![q].at = IF n = Length(report[q].kind) THEN "told" ELSE @]
        /\ UNCHANGED bookVars

Close(q) ==
    /\ report[q].at = "told"
    /\ report' = [report EXCEPT ![q] = Resting]
    /\ UNCHANGED bookVars

(* What a commit does to the reports under way: quiet until one happens,    *)
(* grew when it adds accounts while statements are still to come.           *)
Overtaken(q) ==
    IF report[q].at = "resting" \/ UNCHANGED <<accounts, document, ledger>> THEN report[q]
    ELSE [report[q] EXCEPT
            !.quiet = FALSE,
            !.grew = @ \/ (report[q].at = "reading" /\ report[q].got # <<>> /\ accounts' # accounts)]

Next ==
    \/ BookNext /\ report' = [q \in Readers |-> Overtaken(q)]
    \/ \E q \in Readers : Ask(q) \/ ReadOn(q) \/ Close(q)

Spec == Init /\ [][Next]_vars

-----------------------------------------------------------------------------
(* Properties.                                                              *)

Told(q, kind) == report[q].at = "told" /\ report[q].kind = kind

Total(q, n, side) ==
    SumOf([a \in report[q].got[1] |-> report[q].got[n][a][side]], report[q].got[1])

(* A trial balance balances, for its period and at its close, whatever is   *)
(* committed between its statements, unless one of the commits adds an      *)
(* account to the chart it has already read.                                *)
TrialBalanceBalances ==
    \A q \in Readers : Told(q, "trial_balance") /\ ~report[q].grew =>
        \A n \in {2, 3} : Total(q, n, "debit") = Total(q, n, "credit")

(* What a report says of the documents, when nothing is committed between   *)
(* its statements: profit is sales less their cost less expenses, the       *)
(* difference a balance sheet shows is that profit, an account ledger       *)
(* closes with the balance of the account, and today's profit is that of    *)
(* today's documents, unless an earlier one was edited today and so posted  *)
(* again.  All but the closing balance need the books to match the          *)
(* documents, which an outdated edit may prevent (BooksMatchDocuments).     *)
ProfitOf(docs) ==
    LET sold  == {s \in docs \cap Sales : There(s)}
        spent == {e \in docs \cap Expenses : There(e)}
    IN  Turnover(sold) - SumOf([s \in sold |-> document[s].figure.cost], sold)
                       - SumOf([e \in spent |-> document[e].amount], spent)

Profit(q) == report[q].got[1] - report[q].got[2] - report[q].got[3]

Assets(q) ==
    LET held == (Methods \cup {"receivable", "inventory"}) \cap report[q].got[1]
    IN  SumOf([a \in held |-> report[q].got[2][a].debit], held)
          - SumOf([a \in held |-> report[q].got[2][a].credit], held)

OnTheirDay(docs) == \A d \in docs : There(d) => \A e \in ledger[d] : e.day = document[d].day

QuietReportsAgree ==
    \A q \in Readers : report[q].at = "told" /\ report[q].quiet =>
        LET today   == report[q].today
            ofToday == {d \in Documents : There(d) /\ document[d].day = today}
            known   == {d \in Documents : There(d) /\ \E e \in ledger[d] : e.day <= today}
            matched == \A d \in Documents : Matched(d)
        IN  CASE report[q].kind = "profit_and_loss" -> matched => Profit(q) = ProfitOf(known)
              [] report[q].kind = "balance_sheet"   -> matched => Assets(q) = ProfitOf(known)
              [] report[q].kind = "dashboard"       ->
                    matched /\ OnTheirDay(Documents) => Profit(q) = ProfitOf(ofToday)
              [] report[q].kind = "account_ledger"  ->
                    report[q].got[1] + report[q].got[2] = Balance({"cash"}, 1, today)
              [] OTHER                              -> TRUE
=============================================================================
