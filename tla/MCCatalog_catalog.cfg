CONSTANTS
  Variants = {v1, v2}
  v1 = v1
  v2 = v2
  Requested <- MCRequested
  Costs = {1, 2}
  Keys = {k1, k2}
  Documents = {d1}
  Posters = {p1, p2}
  Buyers = {b1}
  Cleaners = {c1, c2}
  Shop = Shop
  Nobody = Nobody
  NoKey = NoKey
  MaxArrivals = 3
SPECIFICATION FairSpec
INVARIANT TypeOK
PROPERTIES RetriesAreRecognised DeletesSpareWhatTheySaw EveryRequestIsAnswered
CHECK_DEADLOCK FALSE
