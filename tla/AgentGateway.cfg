SPECIFICATION FairSpec
CONSTANTS
  OrderKeys = {k1, k2}
  JobKeys = {j1}
  NoKey = NoKey
  Bodies = {b1, b2}
  Handlers = {h1, h2}
  NoHandler = NoHandler
  Grants <- MCGrants
  Clients = {c1, c2}
  Notional <- MCNotional
  DailyCap = 3
  JobCap = 1
  Modes = {"celery", "local"}
  Faults = {"crash", "workerCrash", "broker", "complete", "record", "lookup", "lostReply"}
  MaxFaults = 2
CHECK_DEADLOCK FALSE
INVARIANTS GatewayTypeOK  DailyCapHolds ToldIsFinal
PROPERTIES JobEnds
