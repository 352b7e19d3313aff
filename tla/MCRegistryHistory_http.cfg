SPECIFICATION ClaimedSpec
CONSTANTS
  t1 = t1
  t2 = t2
  bob = bob
  two = two
  api = api
  u1 = u1
  u2 = u2
  Users = {u1, u2}
  Tunnels = {t1, t2}
  Names <- ApiNames
  Slug <- BobSlugs
  MaxConn = 3
  PortStart = 1
  PortEnd = 1
  MaxTunnels = 2
  Role = "server"
  DefLists <- HttpLists
  AdminActs = FALSE
  NoUser = NoUser
  NoTarget = NoTarget
INVARIANT TenantIsolation
INVARIANT NamesFollowLastAsker
CHECK_DEADLOCK FALSE
