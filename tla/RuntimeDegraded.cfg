SPECIFICATION FairSpec
CONSTANTS
  Workers = {w1, w2}
  Strategies = {s1}
  Requests = {r1}
  Kinds = {"close"}
  NoOwner = NoOwner
  StableIds = FALSE
  MaxAttempts = 2
  CmdLease = 0
  RtLease = 0
  RenewEvery = 1
  RetryDelay <- MCRetryDelay
  CmdKeep = 0
  LeaseKeep = 0
  MaxStall = 1
  MaxCmds = 1
  Faults = {"stopFail", "renewError", "autoStop", "shutdown"}
  MaxFaults = 1
PROPERTIES LostLeaseStops
