SPECIFICATION Spec
CONSTANTS
  Workers = {w1, w2}
  Strategies = {s1}
  Requests = {r1}
  Kinds = {"start", "close", "agentStop", "restart"}
  NoOwner = NoOwner
  StableIds = FALSE
  MaxAttempts = 2
  CmdLease = 1
  RtLease = 3
  RenewEvery = 1
  RetryDelay <- MCRetryDelay
  CmdKeep = 0
  LeaseKeep = 0
  MaxStall = 1
  MaxCmds = 1
  Faults = {"crash", "shutdown", "preflight", "threadCrash", "autoStop", "enqueueError"}
  MaxFaults = 2
SYMMETRY Symmetry
INVARIANTS TypeOK RuntimeHoldsLease OneRuntime
PROPERTIES FencedTakeover 
