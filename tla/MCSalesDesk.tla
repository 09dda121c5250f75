---------------------------- MODULE MCSalesDesk ----------------------------
EXTENDS SalesDesk, TLC

Symmetry == Permutations(Sales) \cup Permutations(Payments)
=============================================================================
