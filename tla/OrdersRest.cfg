SPECIFICATION Spec
CONSTANTS
  Orders = {o1, o2}
  Procs = {p1}
  NoOrder = NoOrder
  Algos = {"signal", "market", "limit", "alpaca"}
  Amount = 2
  MaxAttempts = 1
  Slow = FALSE
  Faults = {"query", "lostReply", "noPrice", "crash", "syncCrash"}
  MaxFaults = 2
CHECK_DEADLOCK FALSE
SYMMETRY Symmetry
INVARIANTS PendingTypeOK   
