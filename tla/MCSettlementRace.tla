-------------------------- MODULE MCSettlementRace --------------------------
EXTENDS SettlementRace, TLC

Symmetry == Permutations(Settlers) \cup Permutations(Payments)
=============================================================================
