SPECIFICATION AdminOrPoolSpec
CONSTANTS
  n1 = n1
  t1 = t1
  t2 = t2
  Users = {u1}
  Tunnels = {t1, t2}
  Names <- OneWordName
  Slug <- OneWordSlug
  MaxConn = 2
  PortStart = 1
  PortEnd = 2
  MaxTunnels = 2
  Role = "relay"
  DefLists <- AdminLists
  AdminActs = TRUE
  NoUser = NoUser
  NoTarget = NoTarget
INVARIANT PortsExclusive
INVARIANT NoPortLost
INVARIANT AckedPortsBound
INVARIANT RoutesLeadToClients
INVARIANT PortsOfLiveConns
CHECK_DEADLOCK FALSE
