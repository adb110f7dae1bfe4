SPECIFICATION StreamFairSpec
CONSTANTS
  Orders = {o1}
  Procs = {p1}
  NoOrder = NoOrder
  Algos = {"limit", "maker"}
  Amount = 2
  MaxAttempts = 2
  Slow = FALSE
  Faults = {"crash", "lostReply", "project", "audit"}
  MaxFaults = 1
  Streamers = {p1}
  Cumulative = TRUE
  MaxTries = 2
CHECK_DEADLOCK FALSE
INVARIANTS FillRecordedOnce 
PROPERTIES EventsSettle
