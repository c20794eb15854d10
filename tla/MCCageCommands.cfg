SPECIFICATION FairSpec
CONSTANTS
  a1 = a1  a2 = a2
  shared = shared  own = own  private = private
  Agents = {a1}
  Ips = {own}
  Blocked = {}
  Domains <- OneDomain
  NoEntry = NoEntry
  MaxInbox = 1
  Pids = {p1, p2}
  NoPid = NoPid
  Free = Free
  Watched = {a1}
  MaxFailures = 1
PROPERTY CommandsHeard
