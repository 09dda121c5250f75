--------------------------- MODULE MCPurchaseDesk ---------------------------
EXTENDS PurchaseDesk, TLC

Symmetry ==
    Permutations(Purchases) \cup Permutations(Payments)
    \cup Permutations(Suppliers) \cup Permutations(Variants)
=============================================================================
