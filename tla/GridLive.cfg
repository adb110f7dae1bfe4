SPECIFICATION FairSpec
CONSTANTS
  Cells = {c1}
  NoCell = NoCell
  Amount = 2
  MaxOrders = 3
  Faults = {}
  MaxFaults = 0
PROPERTIES HeldCovered FillPosted ExitsDeduped
