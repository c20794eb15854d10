SPECIFICATION Spec
CONSTANTS
  Services = {"egress", "cage"}
  Needs <- BuiltinNeeds
  Policy <- MixedPolicies
  Pids = {p1, p2, p3}
  NoPid = NoPid
  Nobody = Nobody
  InitialBackoff = 1
  MaxBackoff = 3
  Stable = 3
  Grace = 1
  MaxRestarts = 2
  MaxOrphans = 1
SYMMETRY PidSymmetry
INVARIANTS
  TypeOK
  OneProcess
  SignalsOwnChild
  CleanShutdown
  StopOrder
  ExitJudged
PROPERTIES
  RestartsSpaced
CHECK_DEADLOCK FALSE
