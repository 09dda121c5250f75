CONSTANTS
  Purchases = {b1, b2}
  Payments = {p1}
  SaleLines = {l1}
  Suppliers = {madina, faisal}
  NoSupplier = NoSupplier
  NoPurchase = NoPurchase
  Variants = {v1}
  Quantities = {1, 2}
  Costs = {3}
  Discounts = {0, 1}
  Advances = {0, 1}
  MaxAmount = 2
  MaxStock = 2
  QuantityScale = 4
  AverageScale = 2
SYMMETRY Symmetry
SPECIFICATION Spec
INVARIANTS EveryPaymentHasItsKhata LedgerAgreesWithKhata StockIsAccountedFor AverageWithinCosts
PROPERTIES PaidMovesWithPayments ReturnedPurchasesAreFrozen
CHECK_DEADLOCK FALSE
