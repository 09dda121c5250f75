---------------------------- MODULE MCAiApproval ----------------------------
EXTENDS AiApproval, TLC

Symmetry == Permutations(Keys) \cup Permutations(Requests)
=============================================================================
