CONSTANTS
  Customers = {c1}
  Suppliers = {s1}
  Variants = {v1}
  NoParty = NoParty
  Stores = {redis}
  Requests = {r1}
  Operations = {"assistant"}
  Faulty = FALSE
SPECIFICATION Spec
INVARIANT NothingRolledBackStays
CHECK_DEADLOCK FALSE
