CONSTANTS
  Sales = {s1, s2}
  Payments = {p1, p2}
  Customers = {ahmed}
  NoCustomer = NoCustomer
  NoSale = NoSale
  Variants = {v1}
  Quantities = {1}
  Prices = {1, 2}
  Discounts = {0}
  Costs = {1}
  MaxTender = 1
  MaxStock = 2
  QuantityScale = 1
  AverageScale = 1
  MaxAmount = 2
SYMMETRY Symmetry
SPECIFICATION Spec
INVARIANTS TypeOK PaidIsRecorded PaymentsNameTheirSale
PROPERTIES OnlyReworkPartsTheBooks
CHECK_DEADLOCK FALSE
