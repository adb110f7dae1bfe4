SPECIFICATION Spec
CONSTANTS
  Cells = {c1}
  NoCell = NoCell
  Amount = 2
  MaxOrders = 2
  Faults = {"crash", "refuse", "cancel", "cleanup", "insert", "query", "post", "raise", "overlap", "stop", "late", "boundary", "ownership", "venueCancel"}
  MaxFaults = 1
INVARIANTS GridTypeOK  
