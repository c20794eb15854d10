SPECIFICATION Spec
CONSTANTS
  a1 = a1  a2 = a2
  shared = shared  own = own  private = private
  Agents = {a1, a2}
  Ips = {shared, own, private}
  Blocked = {private}
  Domains <- AgentDomains
  NoEntry = NoEntry
  MaxInbox = 2
  Pids = {p1, p2}
  NoPid = NoPid
  Free = Free
  Watched = {a1}
  MaxFailures = 1
INVARIANTS TypeOK TracksOwnVm NoStrayVm ReachKept ReachRevoked
SYMMETRY Interchangeable
