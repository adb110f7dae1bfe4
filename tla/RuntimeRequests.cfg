SPECIFICATION Spec
CONSTANTS
  Workers = {w1, w2}
  Strategies = {s1}
  Requests = {r1, r2}
  Kinds = {"start", "stop", "close"}
  NoOwner = NoOwner
  StableIds = FALSE
  MaxAttempts = 2
  CmdLease = 1
  RtLease = 3
  RenewEvery = 1
  RetryDelay <- MCRetryDelay
  CmdKeep = 0
  LeaseKeep = 0
  MaxStall = 1
  MaxCmds = 2
  Faults = {}
  MaxFaults = 0
SYMMETRY Symmetry
INVARIANTS CommandOwned OneOpenCommand PendingIsClaimable
PROPERTIES TerminalIsFinal
