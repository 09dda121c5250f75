CONSTANTS
  Customers = {c1}
  Suppliers = {s1}
  Variants = {v1}
  NoParty = NoParty
  Stores = {redis}
  Requests = {r1, r2}
  Operations = {"books", "stock", "names", "catalog", "assistant"}
  Faulty = TRUE
SPECIFICATION FairSpec
INVARIANT TypeOK
PROPERTIES  Settles
CHECK_DEADLOCK FALSE
