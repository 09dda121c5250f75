------------------------------- MODULE Tally -------------------------------
(***************************************************************************)
(* SUM(column) over a set of rows, the aggregate the services ask the      *)
(* database for.  A sum of amounts is the number of money units in the     *)
(* rows: row r contributes the units <<r, 1>>, ..., <<r, f[r]>>.  Counting *)
(* units, instead of folding, makes the facts about sums consequences of   *)
(* the theorems on finite cardinalities.                                   *)
(***************************************************************************)
EXTENDS Integers, FiniteSets

CONSTANT MaxAmount      \* the largest amount a money column holds

ASSUME MaxAmountIsNat == MaxAmount \in Nat

Amounts == 1 .. MaxAmount

Units(f, S) == {u \in S \X Amounts : u[2] <= f[u[1]]}

TallyOf(f, S) == Cardinality(Units(f, S))
=============================================================================
