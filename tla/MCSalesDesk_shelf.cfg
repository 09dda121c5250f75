CONSTANTS
  Sales = {s1}
  Payments = {p1}
  Customers = {ahmed}
  NoCustomer = NoCustomer
  NoSale = NoSale
  Variants = {v1, v2}
  Quantities = {1, 2}
  Prices = {3}
  Discounts = {0,1}
  Costs = {1, 2}
  MaxTender = 1
  MaxStock = 2
  QuantityScale = 2
  AverageScale = 1
  MaxAmount = 3
SYMMETRY Symmetry
SPECIFICATION Spec
INVARIANT StockIsAccountedFor BooksFollowSale
PROPERTY ReturnedSalesAreFrozen RefundsWithinPayments
CHECK_DEADLOCK FALSE
