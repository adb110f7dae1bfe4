SPECIFICATION FairSpec
CONSTANTS
  Workers = {w1, w2}
  Strategies = {s1}
  Requests = {r1}
  Kinds = {"start", "stop", "reconcile"}
  NoOwner = NoOwner
  StableIds = TRUE
  MaxAttempts = 2
  CmdLease = 1
  RtLease = 3
  RenewEvery = 1
  RetryDelay <- MCRetryDelay
  CmdKeep = 0
  LeaseKeep = 0
  MaxStall = 1
  MaxCmds = 1
  Faults = {"crash", "preflight"}
  MaxFaults = 1
PROPERTIES CommandsFinish StopTakesEffect 
