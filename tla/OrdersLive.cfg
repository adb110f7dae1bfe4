SPECIFICATION FairSpec
CONSTANTS
  Orders = {o1}
  Procs = {p1, p2}
  NoOrder = NoOrder
  Algos = {"signal", "market", "limit", "maker", "alpaca"}
  Amount = 2
  MaxAttempts = 2
  Slow = FALSE
  Faults = {"crash", "syncCrash", "lostReply", "query", "noPrice"}
  MaxFaults = 2
CHECK_DEADLOCK FALSE
INVARIANTS PlacedOnce
  
