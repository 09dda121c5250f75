----------------------------- MODULE MCRowLocks -----------------------------
EXTENDS RowLocks, TLC
CONSTANTS sale, purchase, cash, bank, customer, buyer, supplier, vendor
SaleSide == [document |-> sale, payment |-> cash, party |-> customer, other |-> buyer]
PurchaseSide == [document |-> purchase, payment |-> bank, party |-> supplier, other |-> vendor]
=============================================================================
