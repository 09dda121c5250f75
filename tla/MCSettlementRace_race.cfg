CONSTANTS
  NoBill = NoBill
  Bills = {b1}
  Payments = {p1, p2}
  Totals = {1, 2}
  MaxAmount = 2
  Settlers = {r1, r2}
  Voiders = {v1}
  Editors = {e1}
  Deleters = {d1}
  Returners = {t1}
  Khata = Khata
  Nobody = Nobody
  Keep = Keep
  MaxArrivals = 3
SYMMETRY Symmetry
SPECIFICATION Spec
INVARIANT RaceInv
PROPERTY SettlesAtomically
CHECK_DEADLOCK FALSE
