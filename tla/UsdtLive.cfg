SPECIFICATION FairSpec
CONSTANTS
  Users = {u1}
  Amounts = {a1}
  Handlers = {h1}
  Worker = Worker
  Expire = 1
  Confirm = 1
  Grace = 0
  RetryLimit = 2
  MaxOrders = 2
  MaxTransfers = 1
  Faults = {"crash", "db", "purchase"}
  MaxFaults = 1
PROPERTIES OnTimePaymentConfirms 
