SPECIFICATION Spec
CONSTANTS
  Users = {u1}
  Amounts = {a1}
  Handlers = {h1, h2}
  Worker = Worker
  Expire = 1
  Confirm = 1
  Grace = 0
  RetryLimit = 2
  MaxOrders = 2
  MaxTransfers = 1
  Faults = {"probe", "watcher"}
  MaxFaults = 1
SYMMETRY Symmetry
INVARIANTS UsdtTypeOK ActivatedIsConfirmed PaidByTransfer
PROPERTIES StatusForward
