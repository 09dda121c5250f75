CONSTANTS
  Shop = Shop
  Expense = Expense
  Variants = {1, 2}
  sale = sale
  purchase = purchase
  cash = cash
  bank = bank
  customer = customer
  buyer = buyer
  supplier = supplier
  vendor = vendor
  Sale <- SaleSide
  Purchase <- PurchaseSide
  MaxArrivals = 2
SPECIFICATION FairSpec
INVARIANT LocksInv
PROPERTY EveryRequestEnds
CHECK_DEADLOCK FALSE
