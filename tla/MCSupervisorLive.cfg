SPECIFICATION FairSpec
CONSTANTS
  Services = {"egress", "cage"}
  Needs <- BuiltinNeeds
  Policy <- MixedPolicies
  Pids = {p1, p2}
  NoPid = NoPid
  Nobody = Nobody
  InitialBackoff = 1
  MaxBackoff = 2
  Stable = 2
  Grace = 1
  MaxRestarts = 1
  MaxOrphans = 1
PROPERTIES
  ShutdownCompletes
  RestartHappens
  ZombiesReaped
CHECK_DEADLOCK FALSE
