------------------------------ MODULE Registry ------------------------------
(***************************************************************************)
(* The shared registry of the tunnel server (registry.rs) together with    *)
(* the life of the control connections that write to it (routes_ws.rs) and *)
(* the administrator who disables users and tunnels (routes_admin.rs).     *)
(*                                                                         *)
(* Every method of Registry takes the RwLock once, so each method is one   *)
(* step.  A Register message is handled by several awaits - release_ports, *)
(* one database read and allocate_port per tunnel, persist,                *)
(* register_client - and those steps of one connection interleave with the *)
(* steps of all the others.                                                *)
(*                                                                         *)
(* by_subdomain and by_path are one function from route keys to targets;   *)
(* how the by_path vector implements such a function is module RouteTable. *)
(***************************************************************************)
EXTENDS Naturals, Sequences, FiniteSets

CONSTANTS
  Users,        \* users.id
  Tunnels,      \* tunnel_id values a client reports
  Names,        \* requested subdomains and path prefixes, as sequences of words
  Slug,         \* users.slug of each user, as a sequence of words
  MaxConn,      \* bound: connection ids handed out are 1..MaxConn
  PortStart,    \* TCP_PORT_START
  PortEnd,      \* TCP_PORT_END
  MaxTunnels,   \* users.max_tunnels
  Role,         \* ROLE: "server" or "relay"
  DefLists,     \* the Register payloads clients send
  AdminActs,    \* whether an administrator intervenes in this instance
  NoUser,
  NoTarget      \* an absent entry of by_subdomain / by_path

ConnId  == 1 .. MaxConn
NoPort  == 0
Port    == PortStart .. PortEnd

\* The public name <slug>-<sub> or <slug>/<prefix>.  A slug is one segment of a
\* path, but it may itself consist of several words joined by dashes: joining is
\* concatenation, and two users may have a subdomain in common.
PublicName(u, n) == Slug[u] \o n

Key     == {PublicName(u, n) : u \in Users, n \in Names}
Binding == ConnId \X Tunnels
Target  == [conn : ConnId, tunnel : Tunnels]
Def     == [tunnel : Tunnels, proto : {"http", "tcp"}, name : Names]
Input   == [tunnel : Tunnels, proto : {"http", "tcp"}, key : Key,
            port : Port \cup {NoPort}, disabled : BOOLEAN]

ASSUME RegistryAssumption ==
  /\ MaxConn \in Nat
  /\ PortStart \in Nat \ {0} /\ PortEnd \in Nat
  /\ MaxTunnels \in Nat
  /\ Role \in {"server", "relay"}
  /\ DefLists \subseteq Seq(Def)
  /\ AdminActs \in BOOLEAN
  /\ NoUser \notin Users
  /\ NoTarget \notin Target

VARIABLES
  \* registry.rs, struct Inner
  routes,        \* by_subdomain and by_path
  owned,         \* conn_id -> keys it registered last
  clients,       \* conn_ids that have a sender (and an entry in conn_user)
  tcp_ports,     \* (conn_id, tunnel_id) -> public port
  used_ports,
  next_conn_id,
  \* routes_ws.rs, one handle_socket task per connection
  conn,          \* where the task of a connection is
  user,          \* the User the token named when the socket was upgraded
  todo,          \* definitions of the Register message not prepared yet
  prepared,      \* what prepare() has produced so far
  acked,         \* tunnels and ports of the last RegisterAck
  \* the database, as far as this component reads it
  disabled,      \* users with users.disabled = 1
  rows,          \* the tunnels table: absent, on or off (disabled = 1)
  \* the request of the administrator who disables a user
  admin,         \* where it is, and for which user
  admin_conns    \* the connections it has still to remove

regVars   == <<routes, owned, clients, tcp_ports, used_ports>>
connVars  == <<next_conn_id, conn, user, todo, prepared, acked>>
adminVars == <<disabled, admin, admin_conns>>
vars      == <<regVars, connVars, rows, adminVars>>

Init ==
  /\ routes       = [k \in Key |-> NoTarget]
  /\ owned        = [c \in ConnId |-> {}]
  /\ clients      = {}
  /\ tcp_ports    = [b \in Binding |-> NoPort]
  /\ used_ports   = {}
  /\ next_conn_id = 0
  /\ conn         = [c \in ConnId |-> "none"]
  /\ user         = [c \in ConnId |-> NoUser]
  /\ todo         = [c \in ConnId |-> <<>>]
  /\ prepared     = [c \in ConnId |-> <<>>]
  /\ acked        = [c \in ConnId |-> {}]
  /\ disabled     = {}
  /\ rows         = [r \in Users \X Tunnels |-> "absent"]
  /\ admin        = [pc |-> "idle", user |-> NoUser]
  /\ admin_conns  = {}

-----------------------------------------------------------------------------
(* What the methods of Registry compute.                                   *)

\* Mutant: ports in use not left out.
FreePortsUnchecked == Port

FreePorts == Port \ used_ports

\* The port allocate_port returns: the first of start..=end not in use.
FirstFree(p) == \A q \in FreePorts : p <= q

\* Ports bound to a connection, as release_ports and remove_client find them.
PortsOf(c) == {tcp_ports[<<c, t>>] : t \in Tunnels} \ {NoPort}

\* Mutant: bindings looked up by tunnel_id alone.
DropBindingsOfTunnels(c) ==
  [b \in Binding |-> IF tcp_ports[<<c, b[2]>>] # NoPort THEN NoPort ELSE tcp_ports[b]]

DropBindings(c) == [b \in Binding |-> IF b[1] = c THEN NoPort ELSE tcp_ports[b]]

\* Mutant: everything of the connection's user is cleared.
KeysToClearOfUser(c) == {PublicName(user[c], n) : n \in Names}

\* The keys whose routes register_client and remove_client take away: every
\* key the connection registered, whoever its route belongs to by now.
KeysToClear(c) == owned[c]

WithoutRoutes(ks) == [k \in Key |-> IF k \in ks THEN NoTarget ELSE routes[k]]

\* Mutant: one slug for all users.
KeyOfAnyUser(u, d) == PublicName(CHOOSE w \in Users : TRUE, d.name)

\* The public name of an HTTP tunnel.
KeyOf(u, d) == PublicName(u, d.name)

\* The inputs register_client receives: not disabled, and those with a route
\* (a TCP tunnel has neither effective_sub nor effective_path).
Routed(c) == {i \in DOMAIN prepared[c] :
                ~ prepared[c][i].disabled /\ prepared[c][i].proto = "http"}

KeysOf(c) == {prepared[c][i].key : i \in Routed(c)}

\* Inputs are inserted in order, so the last one with key k stays.
Wins(c, i, k) ==
  /\ prepared[c][i].key = k
  /\ \A j \in Routed(c) : prepared[c][j].key = k => j <= i

\* Mutant: the ports stay marked as used.
ReleaseBindingsOnly(c) == tcp_ports' = DropBindings(c) /\ UNCHANGED used_ports

ReleasePorts(c) ==
  /\ tcp_ports'  = DropBindings(c)
  /\ used_ports' = used_ports \ PortsOf(c)

\* Mutant: a name that is taken stays with its holder.
RegisterClientFirstCome(c) ==
  /\ \E win \in [KeysOf(c) -> Routed(c)] :
       /\ \A k \in KeysOf(c) : Wins(c, win[k], k)
       /\ routes' = [k \in Key |->
                       IF k \in KeysOf(c) /\ WithoutRoutes(KeysToClear(c))[k] = NoTarget
                         THEN [conn |-> c, tunnel |-> prepared[c][win[k]].tunnel]
                         ELSE WithoutRoutes(KeysToClear(c))[k]]
  /\ owned'   = [owned EXCEPT ![c] = KeysOf(c)]
  /\ clients' = clients \cup {c}
  /\ UNCHANGED <<tcp_ports, used_ports>>

RegisterClient(c) ==
  /\ \E win \in [KeysOf(c) -> Routed(c)] :
       /\ \A k \in KeysOf(c) : Wins(c, win[k], k)
       /\ routes' = [k \in Key |->
                       IF k \in KeysOf(c)
                         THEN [conn |-> c, tunnel |-> prepared[c][win[k]].tunnel]
                         ELSE WithoutRoutes(KeysToClear(c))[k]]
  /\ owned'   = [owned EXCEPT ![c] = KeysOf(c)]
  /\ clients' = clients \cup {c}
  /\ UNCHANGED <<tcp_ports, used_ports>>

\* Mutant: the ports of the connection are not released.
RemoveClientKeepsPorts(c) ==
  /\ routes'  = WithoutRoutes(KeysToClear(c))
  /\ owned'   = [owned EXCEPT ![c] = {}]
  /\ clients' = clients \ {c}
  /\ UNCHANGED <<tcp_ports, used_ports>>

RemoveClient(c) ==
  /\ routes'  = WithoutRoutes(KeysToClear(c))
  /\ owned'   = [owned EXCEPT ![c] = {}]
  /\ clients' = clients \ {c}
  /\ ReleasePorts(c)

-----------------------------------------------------------------------------
(* The control connection: tunnel_handler and handle_socket.               *)

\* The upgrade: a connection id is taken and the token is checked, once.
OpenConn(u) ==
  LET c == next_conn_id + 1 IN
  /\ next_conn_id < MaxConn
  /\ u \notin disabled
  /\ next_conn_id' = c
  /\ conn' = [conn EXCEPT ![c] = "open"]
  /\ user' = [user EXCEPT ![c] = u]
  /\ UNCHANGED <<regVars, todo, prepared, acked, rows, adminVars>>

\* A Register message over the quota is refused; nothing else changes.
RegisterRefused(c) ==
  /\ conn[c] = "open"
  /\ \E ds \in DefLists : Len(ds) > MaxTunnels
  /\ acked' = [acked EXCEPT ![c] = {}]
  /\ UNCHANGED <<regVars, next_conn_id, conn, user, todo, prepared, rows, adminVars>>

\* A Register message is accepted: the connection's old ports are released.
RegisterBegin(c) ==
  /\ conn[c] = "open"
  /\ \E ds \in DefLists :
       /\ Len(ds) <= MaxTunnels
       /\ todo' = [todo EXCEPT ![c] = ds]
  /\ prepared' = [prepared EXCEPT ![c] = <<>>]
  /\ conn' = [conn EXCEPT ![c] = "prepare"]
  /\ ReleasePorts(c)
  /\ UNCHANGED <<routes, owned, clients, next_conn_id, user, acked, rows, adminVars>>

\* What prepare() makes of one definition, given the port it was allocated.
Prepare(c, d, port) ==
  [tunnel |-> d.tunnel, proto |-> d.proto, key |-> KeyOf(user[c], d), port |-> port,
   disabled |-> rows[<<user[c], d.tunnel>>] = "off"]

PrepareHttp(c) ==
  /\ conn[c] = "prepare" /\ todo[c] # <<>>
  /\ Head(todo[c]).proto = "http"
  /\ prepared' = [prepared EXCEPT ![c] = Append(@, Prepare(c, Head(todo[c]), NoPort))]
  /\ todo' = [todo EXCEPT ![c] = Tail(@)]
  /\ UNCHANGED <<regVars, next_conn_id, conn, user, acked, rows, adminVars>>

\* A TCP tunnel gets the first free port; a second definition with the same
\* tunnel_id replaces the binding of the first and keeps its port in use.
PrepareTcp(c) ==
  /\ conn[c] = "prepare" /\ todo[c] # <<>>
  /\ Head(todo[c]).proto = "tcp"
  /\ Role = "relay"
  /\ \E p \in FreePorts :
       /\ FirstFree(p)
       /\ tcp_ports'  = [tcp_ports EXCEPT ![<<c, Head(todo[c]).tunnel>>] = p]
       /\ used_ports' = used_ports \cup {p}
       /\ prepared'   = [prepared EXCEPT ![c] = Append(@, Prepare(c, Head(todo[c]), p))]
  /\ todo'       = [todo EXCEPT ![c] = Tail(@)]
  /\ UNCHANGED <<routes, owned, clients, next_conn_id, conn, user, acked, rows, adminVars>>

\* Mutant: an exhausted pool undoes the ports allocated so far.
PrepareTcpFailsUndoes(c) ==
  /\ conn[c] = "prepare" /\ todo[c] # <<>>
  /\ Head(todo[c]).proto = "tcp"
  /\ Role # "relay" \/ FreePorts = {}
  /\ todo' = [todo EXCEPT ![c] = Tail(@)]
  /\ ReleasePorts(c)
  /\ UNCHANGED <<routes, owned, clients, next_conn_id, conn, user, prepared, acked, rows, adminVars>>

\* Not a relay, or the pool is exhausted: an error entry, no tunnel.
PrepareTcpFails(c) ==
  /\ conn[c] = "prepare" /\ todo[c] # <<>>
  /\ Head(todo[c]).proto = "tcp"
  /\ Role # "relay" \/ FreePorts = {}
  /\ todo' = [todo EXCEPT ![c] = Tail(@)]
  /\ UNCHANGED <<regVars, next_conn_id, conn, user, prepared, acked, rows, adminVars>>

\* The rows of the prepared tunnels are upserted; `disabled` is left as it is.
Persist(c) ==
  /\ conn[c] = "prepare" /\ todo[c] = <<>>
  /\ conn' = [conn EXCEPT ![c] = "commit"]
  /\ rows' = [r \in Users \X Tunnels |->
                IF /\ rows[r] = "absent"
                   /\ \E i \in DOMAIN prepared[c] : r = <<user[c], prepared[c][i].tunnel>>
                  THEN "on" ELSE rows[r]]
  /\ UNCHANGED <<regVars, next_conn_id, user, todo, prepared, acked, adminVars>>

\* register_client, then the acknowledgement with the effective tunnels.
RegisterCommit(c) ==
  /\ conn[c] = "commit"
  /\ RegisterClient(c)
  /\ conn'     = [conn EXCEPT ![c] = "open"]
  /\ acked'    = [acked EXCEPT ![c] =
                    {[tunnel |-> prepared[c][i].tunnel, port |-> prepared[c][i].port] :
                       i \in DOMAIN prepared[c]}]
  /\ prepared' = [prepared EXCEPT ![c] = <<>>]
  /\ UNCHANGED <<next_conn_id, user, todo, rows, adminVars>>

\* The socket ends; the task sees it only between two messages.
CloseConn(c) ==
  /\ conn[c] = "open"
  /\ conn' = [conn EXCEPT ![c] = "closed"]
  /\ acked' = [acked EXCEPT ![c] = {}]
  /\ RemoveClient(c)
  /\ UNCHANGED <<next_conn_id, user, todo, prepared, rows, adminVars>>

-----------------------------------------------------------------------------
(* The administrator and the owner's own tunnel management.                *)

\* PATCH user {disabled: true}: the row first, the connections afterwards.
DisableUser(u) ==
  /\ AdminActs /\ admin.pc = "idle"
  /\ disabled' = disabled \cup {u}
  /\ admin' = [pc |-> "list", user |-> u]
  /\ UNCHANGED <<regVars, connVars, rows, admin_conns>>

\* remove_user_conns, first half: the user's connections, under a read lock.
ListUserConns ==
  /\ admin.pc = "list"
  /\ admin_conns' = {c \in clients : user[c] = admin.user}
  /\ admin' = [admin EXCEPT !.pc = "remove"]
  /\ UNCHANGED <<regVars, connVars, rows, disabled>>

\* Mutant: only the sender is dropped.
RemoveUserSender(c) ==
  /\ admin.pc = "remove" /\ c \in admin_conns
  /\ clients' = clients \ {c}
  /\ admin_conns' = admin_conns \ {c}
  /\ UNCHANGED <<routes, owned, tcp_ports, used_ports, connVars, rows, disabled, admin>>

\* remove_user_conns, second half: remove_client one connection at a time.
RemoveUserConn(c) ==
  /\ admin.pc = "remove" /\ c \in admin_conns
  /\ RemoveClient(c)
  /\ admin_conns' = admin_conns \ {c}
  /\ UNCHANGED <<connVars, rows, disabled, admin>>

DisableUserDone ==
  /\ admin.pc = "remove" /\ admin_conns = {}
  /\ admin' = [pc |-> "idle", user |-> NoUser]
  /\ UNCHANGED <<regVars, connVars, rows, disabled, admin_conns>>

EnableUser(u) ==
  /\ AdminActs /\ u \in disabled
  /\ disabled' = disabled \ {u}
  /\ UNCHANGED <<regVars, connVars, rows, admin, admin_conns>>

\* PATCH tunnel {disabled}: only the row; routes follow at the next Register.
SetTunnel(r) ==
  /\ AdminActs /\ rows[r] # "absent"
  /\ \E s \in {"on", "off"} : rows' = [rows EXCEPT ![r] = s]
  /\ UNCHANGED <<regVars, connVars, adminVars>>

DeleteTunnel(r) ==
  /\ AdminActs /\ rows[r] # "absent"
  /\ rows' = [rows EXCEPT ![r] = "absent"]
  /\ UNCHANGED <<regVars, connVars, adminVars>>

-----------------------------------------------------------------------------

ConnStep(c) ==
  \/ RegisterRefused(c) \/ RegisterBegin(c)
  \/ PrepareHttp(c) \/ PrepareTcp(c) \/ PrepareTcpFails(c)
  \/ Persist(c) \/ RegisterCommit(c) \/ CloseConn(c)

AdminStep ==
  \/ \E u \in Users : DisableUser(u) \/ EnableUser(u)
  \/ ListUserConns \/ DisableUserDone
  \/ \E c \in ConnId : RemoveUserConn(c)
  \/ \E r \in Users \X Tunnels : SetTunnel(r) \/ DeleteTunnel(r)

Next ==
  \/ \E u \in Users : OpenConn(u)
  \/ \E c \in ConnId : ConnStep(c)
  \/ AdminStep

Spec == Init /\ [][Next]_vars

-----------------------------------------------------------------------------
(* Properties.                                                             *)

Live == {"open", "prepare", "commit"}

TypeOK ==
  /\ routes \in [Key -> Target \cup {NoTarget}]
  /\ owned \in [ConnId -> SUBSET Key]
  /\ clients \subseteq ConnId
  /\ tcp_ports \in [Binding -> Port \cup {NoPort}]
  /\ used_ports \subseteq Port
  /\ next_conn_id \in 0 .. MaxConn
  /\ conn \in [ConnId -> Live \cup {"none", "closed"}]
  /\ user \in [ConnId -> Users \cup {NoUser}]
  /\ todo \in [ConnId -> Seq(Def)]
  /\ prepared \in [ConnId -> Seq(Input)]
  /\ acked \in [ConnId -> SUBSET [tunnel : Tunnels, port : Port \cup {NoPort}]]
  /\ disabled \subseteq Users
  /\ rows \in [Users \X Tunnels -> {"absent", "on", "off"}]
  /\ admin \in [pc : {"idle", "list", "remove"}, user : Users \cup {NoUser}]
  /\ admin_conns \subseteq ConnId

\* A visitor is never sent to a connection that is gone: whatever connections
\* register, take routes over, close or are removed by the administrator, a
\* route leads to a connection that has a sender and an open socket, and that
\* lists the route's key among its own (or remove_client would miss it).
RoutesLeadToClients ==
  \A k \in Key : routes[k] # NoTarget =>
    /\ routes[k].conn \in clients
    /\ k \in owned[routes[k].conn]
    /\ conn[routes[k].conn] \in Live

\* Does the name k begin with the slug of u?
NamedBy(u, k) == \E n \in Names : k = PublicName(u, n)

\* The slug in every public name keeps tenants apart: a route leads to a
\* connection of a user whose slug the name begins with.
TenantIsolation ==
  \A k \in Key : routes[k] # NoTarget => NamedBy(user[routes[k].conn], k)

\* The pool never hands one port to two bindings, and a bound port is marked
\* as used for as long as it is bound, through re-registrations, closes and
\* removals that interleave with allocations.
PortsExclusive ==
  /\ \A a, b \in Binding : a # b /\ tcp_ports[a] # NoPort => tcp_ports[a] # tcp_ports[b]
  /\ \A b \in Binding : tcp_ports[b] # NoPort => tcp_ports[b] \in used_ports

\* A port is bound only while the connection it was allocated to is open:
\* a closed connection leaves no binding that the relay would go on serving.
PortsOfLiveConns ==
  \A b \in Binding : tcp_ports[b] # NoPort => conn[b[1]] \in Live

\* No port is lost: one that is in use is bound to some tunnel, so that the
\* release by connection finds it again.
NoPortLost == \A p \in used_ports : \E b \in Binding : tcp_ports[b] = p
=============================================================================
