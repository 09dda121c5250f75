CONSTANTS
  Threads = {t1, t2}
  Keys = {k1, k2}
  NoKey = NoKey
  Requests = {r1, r2}
  Endpoints = {"chat", "voice"}
  Faulty = TRUE
SYMMETRY Symmetry
SPECIFICATION Spec
INVARIANTS PerformedOnce NothingUnapproved
PROPERTY OnlyFailureOrChatPauseLoses
CHECK_DEADLOCK FALSE
