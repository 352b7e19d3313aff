--------------------------- MODULE RegistryProofs ---------------------------
(* Safety of the registry for every number of connections, users, names,   *)
(* tunnels and ports, every set of Register payloads and both roles.       *)
EXTENDS RegistryRemovals, RegistryClaims, SequenceTheorems, TLAPS

\* Connections not handed out yet are untouched.
Fresh == \A c \in ConnId : c > next_conn_id => conn[c] = "none" /\ prepared[c] = <<>>

\* What prepare() produced carries the slug of the connection's own user.
PreparedKeys ==
  \A c \in ConnId : \A i \in DOMAIN prepared[c] : NamedBy(user[c], prepared[c][i].key)

\* A connection has a user once its socket is upgraded.
UserKnown == \A c \in ConnId : conn[c] # "none" => user[c] \in Users

\* The inductive invariant: what the theorems say, with what is needed of the
\* connections not handed out yet and of a Register under way.
IInv ==
  /\ TypeOK
  /\ Fresh
  /\ UserKnown
  /\ PreparedKeys
  /\ RoutesLeadToClients
  /\ TenantIsolation
  /\ PortsExclusive
  /\ PortsOfLiveConns

-----------------------------------------------------------------------------
(* What the registry's helpers return.                                     *)

LEMMA PortFacts == Port \subseteq Nat /\ NoPort \notin Port
BY RegistryAssumption DEF Port, NoPort

\* Releasing a connection's ports leaves the others' bindings as they were.
LEMMA ReleaseKeeps ==
  ASSUME TypeOK, PortsExclusive, NEW c \in ConnId, ReleasePorts(c)
  PROVE  /\ tcp_ports' \in [Binding -> Port \cup {NoPort}]
         /\ used_ports' \subseteq Port
         /\ PortsExclusive'
         /\ \A b \in Binding : tcp_ports'[b] # NoPort => tcp_ports[b] # NoPort /\ b[1] # c
<1>1. tcp_ports' \in [Binding -> Port \cup {NoPort}] /\ used_ports' \subseteq Port
  BY DEF ReleasePorts, DropBindings, TypeOK
<1>2. \A b \in Binding : tcp_ports'[b] # NoPort =>
        tcp_ports[b] # NoPort /\ b[1] # c /\ tcp_ports'[b] = tcp_ports[b]
  BY DEF ReleasePorts, DropBindings
<1>3. ASSUME NEW b \in Binding, tcp_ports'[b] # NoPort
      PROVE  tcp_ports'[b] \in used_ports'
  <2>1. tcp_ports[b] \in used_ports
    BY <1>2, <1>3 DEF PortsExclusive
  <2>2. ASSUME NEW t \in Tunnels, tcp_ports[<<c, t>>] = tcp_ports[b] PROVE FALSE
    <3>1. <<c, t>> \in Binding /\ <<c, t>> # b
      BY <1>2, <1>3 DEF Binding
    <3>2. QED
      BY <3>1, <2>2, <1>2, <1>3 DEF PortsExclusive
  <2>3. tcp_ports[b] \notin PortsOf(c)
    BY <2>2 DEF PortsOf
  <2>4. QED
    BY <1>2, <1>3, <2>1, <2>3 DEF ReleasePorts
<1>4. ASSUME NEW a \in Binding, NEW b \in Binding, a # b, tcp_ports'[a] # NoPort
      PROVE  tcp_ports'[a] # tcp_ports'[b]
  BY <1>2, <1>4 DEF PortsExclusive
<1>5. QED
  BY <1>1, <1>2, <1>3, <1>4 DEF PortsExclusive

\* remove_client: routes that stay are routes of other connections.
LEMMA RemoveKeeps ==
  ASSUME TypeOK, RoutesLeadToClients, NEW c \in ConnId, RemoveClient(c)
  PROVE  /\ routes' \in [Key -> Target \cup {NoTarget}]
         /\ owned' \in [ConnId -> SUBSET Key]
         /\ clients' \subseteq ConnId
         /\ \A k \in Key : routes'[k] # NoTarget =>
              /\ routes'[k] = routes[k]
              /\ routes[k].conn # c
              /\ routes[k].conn \in clients'
              /\ k \in owned'[routes[k].conn]
<1>1. /\ routes' \in [Key -> Target \cup {NoTarget}]
      /\ owned' \in [ConnId -> SUBSET Key]
      /\ clients' \subseteq ConnId
  BY DEF RemoveClient, WithoutRoutes, TypeOK
<1>2. ASSUME NEW k \in Key, routes'[k] # NoTarget
      PROVE  routes'[k] = routes[k] /\ k \notin owned[c]
  BY <1>2 DEF RemoveClient, WithoutRoutes, KeysToClear
<1>3. ASSUME NEW k \in Key, routes'[k] # NoTarget
      PROVE  /\ routes[k].conn # c
             /\ routes[k].conn \in clients'
             /\ k \in owned'[routes[k].conn]
  <2>1. routes[k].conn \in clients /\ k \in owned[routes[k].conn]
    BY <1>2, <1>3 DEF RoutesLeadToClients
  <2>2. routes[k].conn # c
    BY <1>2, <1>3, <2>1
  <2>3. QED
    BY <2>1, <2>2 DEF RemoveClient, TypeOK
<1>4. QED
  BY <1>1, <1>2, <1>3

\* register_client: a key of the message leads to the connection, any other
\* route that stays is one of another connection.
LEMMA RegisterKeeps ==
  ASSUME TypeOK, RoutesLeadToClients, NEW c \in ConnId, RegisterClient(c)
  PROVE  /\ routes' \in [Key -> Target \cup {NoTarget}]
         /\ owned' \in [ConnId -> SUBSET Key]
         /\ clients' \subseteq ConnId
         /\ \A k \in KeysOf(c) : routes'[k].conn = c /\ c \in clients' /\ k \in owned'[c]
         /\ \A k \in Key \ KeysOf(c) : routes'[k] # NoTarget =>
              /\ routes'[k] = routes[k]
              /\ routes[k].conn \in clients'
              /\ k \in owned'[routes[k].conn]
<1>0. /\ \A i \in Routed(c) : prepared[c][i] \in Input
      /\ KeysOf(c) \subseteq Key
  <2>1. \A i \in DOMAIN prepared[c] : prepared[c][i] \in Input
    BY DEF TypeOK
  <2>2. \A i \in Routed(c) : prepared[c][i] \in Input /\ prepared[c][i].key \in Key
    BY <2>1 DEF Routed, Input
  <2>3. QED
    BY <2>2 DEF KeysOf
<1>1. PICK win \in [KeysOf(c) -> Routed(c)] :
        routes' = [k \in Key |->
                     IF k \in KeysOf(c)
                       THEN [conn |-> c, tunnel |-> prepared[c][win[k]].tunnel]
                       ELSE WithoutRoutes(KeysToClear(c))[k]]
  BY DEF RegisterClient
<1>2. ASSUME NEW k \in KeysOf(c)
      PROVE  [conn |-> c, tunnel |-> prepared[c][win[k]].tunnel] \in Target
  BY <1>0, <1>1 DEF Input, Target
<1>3. WithoutRoutes(KeysToClear(c)) \in [Key -> Target \cup {NoTarget}]
  BY DEF WithoutRoutes, TypeOK
<1>4. routes' \in [Key -> Target \cup {NoTarget}]
  BY <1>0, <1>1, <1>2, <1>3
<1>5. owned' \in [ConnId -> SUBSET Key] /\ clients' \subseteq ConnId
  BY <1>0 DEF RegisterClient, TypeOK
<1>6. \A k \in KeysOf(c) : routes'[k].conn = c /\ c \in clients' /\ k \in owned'[c]
  BY <1>0, <1>1 DEF RegisterClient, TypeOK
<1>7. ASSUME NEW k \in Key \ KeysOf(c), routes'[k] # NoTarget
      PROVE  /\ routes'[k] = routes[k]
             /\ routes[k].conn \in clients'
             /\ k \in owned'[routes[k].conn]
  <2>1. routes'[k] = routes[k] /\ k \notin owned[c]
    BY <1>1, <1>7 DEF WithoutRoutes, KeysToClear
  <2>2. routes[k].conn \in clients /\ k \in owned[routes[k].conn]
    BY <2>1, <1>7 DEF RoutesLeadToClients
  <2>3. QED
    BY <2>1, <2>2 DEF RegisterClient, TypeOK
<1>8. QED
  BY <1>4, <1>5, <1>6, <1>7

-----------------------------------------------------------------------------
(* The initial state, and each action.                                     *)

LEMMA InitInv == Init => IInv
<1> SUFFICES ASSUME Init PROVE IInv
  OBVIOUS
<1>1. TypeOK
  BY RegistryAssumption, EmptySeq DEF Init, TypeOK, Live
<1>2. Fresh /\ UserKnown /\ PreparedKeys
  BY DEF Init, Fresh, UserKnown, PreparedKeys
<1>3. RoutesLeadToClients /\ TenantIsolation
  BY DEF Init, RoutesLeadToClients, TenantIsolation
<1>4. PortsExclusive /\ PortsOfLiveConns
  BY DEF Init, PortsExclusive, PortsOfLiveConns
<1>5. QED
  BY <1>1, <1>2, <1>3, <1>4 DEF IInv

\* Steps that leave Registry's own variables alone and only move a
\* connection's task between live places.
LEMMA RegistryUntouched ==
  ASSUME IInv, UNCHANGED regVars,
         \A c \in ConnId : conn[c] \in Live => conn'[c] \in Live,
         \A c \in ConnId : conn[c] \in Live => user'[c] = user[c]
  PROVE  RoutesLeadToClients' /\ TenantIsolation' /\ PortsExclusive' /\ PortsOfLiveConns'
<1> USE DEF IInv, regVars
<1>1. RoutesLeadToClients'
  BY DEF RoutesLeadToClients, TypeOK
<1>2. TenantIsolation'
  <2> SUFFICES ASSUME NEW k \in Key, routes'[k] # NoTarget
               PROVE  NamedBy(user'[routes'[k].conn], k)
    BY DEF TenantIsolation
  <2>1. routes[k].conn \in ConnId /\ conn[routes[k].conn] \in Live
    BY DEF RoutesLeadToClients, TypeOK
  <2>2. QED
    BY <2>1 DEF TenantIsolation
<1>3. PortsExclusive' /\ PortsOfLiveConns'
  BY DEF PortsExclusive, PortsOfLiveConns, Binding
<1>4. QED
  BY <1>1, <1>2, <1>3

LEMMA OpenConnInv == ASSUME IInv, NEW u \in Users, OpenConn(u) PROVE IInv'
<1> DEFINE c == next_conn_id + 1
<1>1. c \in ConnId /\ conn[c] = "none" /\ prepared[c] = <<>>
  BY RegistryAssumption DEF IInv, Fresh, TypeOK, OpenConn, ConnId
<1>2. /\ conn' = [conn EXCEPT ![c] = "open"] /\ user' = [user EXCEPT ![c] = u]
      /\ next_conn_id' = c
      /\ UNCHANGED <<regVars, todo, prepared, acked, rows, adminVars>>
  BY DEF OpenConn
<1>3. TypeOK'
  BY <1>1, <1>2 DEF IInv, TypeOK, ConnId, Live, regVars, adminVars
<1>4. Fresh'
  BY <1>1, <1>2 DEF IInv, Fresh, TypeOK, ConnId
<1>5. UserKnown' /\ PreparedKeys'
  BY <1>1, <1>2 DEF IInv, UserKnown, PreparedKeys, TypeOK
<1>6. RoutesLeadToClients' /\ TenantIsolation' /\ PortsExclusive' /\ PortsOfLiveConns'
  BY <1>1, <1>2, RegistryUntouched DEF IInv, TypeOK, Live
<1>7. QED
  BY <1>3, <1>4, <1>5, <1>6 DEF IInv

LEMMA RegisterRefusedInv == ASSUME IInv, NEW c \in ConnId, RegisterRefused(c) PROVE IInv'
<1> USE DEF RegisterRefused
<1>1. TypeOK'
  BY DEF IInv, TypeOK, regVars, adminVars
<1>2. Fresh' /\ UserKnown' /\ PreparedKeys'
  BY DEF IInv, Fresh, UserKnown, PreparedKeys
<1>3. RoutesLeadToClients' /\ TenantIsolation' /\ PortsExclusive' /\ PortsOfLiveConns'
  BY RegistryUntouched
<1>4. QED
  BY <1>1, <1>2, <1>3 DEF IInv

LEMMA RegisterBeginInv == ASSUME IInv, NEW c \in ConnId, RegisterBegin(c) PROVE IInv'
<1> USE DEF RegisterBegin
<1>1. ReleasePorts(c)
  OBVIOUS
<1>2. PICK ds \in DefLists : todo' = [todo EXCEPT ![c] = ds]
  OBVIOUS
<1>3. TypeOK'
  BY <1>1, <1>2, ReleaseKeeps, RegistryAssumption, EmptySeq DEF IInv, TypeOK, Live, adminVars
<1>4. Fresh' /\ UserKnown' /\ PreparedKeys'
  BY DEF IInv, TypeOK, Fresh, UserKnown, PreparedKeys, Live
<1>5. RoutesLeadToClients' /\ TenantIsolation'
  BY DEF IInv, TypeOK, RoutesLeadToClients, TenantIsolation, Live
<1>6. PortsExclusive' /\ PortsOfLiveConns'
  BY <1>1, ReleaseKeeps DEF IInv, TypeOK, PortsOfLiveConns, Live, Binding
<1>7. QED
  BY <1>3, <1>4, <1>5, <1>6 DEF IInv

\* The entry prepare() appends is well formed and carries the user's slug.
LEMMA PreparedFact ==
  ASSUME IInv, NEW c \in ConnId, conn[c] = "prepare", todo[c] # <<>>,
         NEW p \in Port \cup {NoPort}
  PROVE  /\ Prepare(c, Head(todo[c]), p) \in Input
         /\ NamedBy(user[c], Prepare(c, Head(todo[c]), p).key)
         /\ Head(todo[c]) \in Def
         /\ Tail(todo[c]) \in Seq(Def)
<1>1. Head(todo[c]) \in Def /\ Tail(todo[c]) \in Seq(Def)
  BY HeadTailProperties DEF IInv, TypeOK
<1>2. user[c] \in Users
  BY DEF IInv, UserKnown
<1>3. QED
  BY <1>1, <1>2 DEF Prepare, KeyOf, Input, Def, Key, NamedBy

\* Appending it keeps PreparedKeys and the type of prepared.
LEMMA AppendPrepared ==
  ASSUME IInv, NEW c \in ConnId, NEW e \in Input, NamedBy(user[c], e.key),
         prepared' = [prepared EXCEPT ![c] = Append(@, e)], UNCHANGED user
  PROVE  PreparedKeys' /\ prepared' \in [ConnId -> Seq(Input)]
<1>1. prepared[c] \in Seq(Input)
  BY DEF IInv, TypeOK
<1>2. /\ Append(prepared[c], e) \in Seq(Input)
      /\ DOMAIN Append(prepared[c], e) = 1 .. Len(prepared[c]) + 1
      /\ \A i \in 1 .. Len(prepared[c]) : Append(prepared[c], e)[i] = prepared[c][i]
      /\ Append(prepared[c], e)[Len(prepared[c]) + 1] = e
  BY <1>1, AppendProperties
<1>3. prepared' \in [ConnId -> Seq(Input)]
  BY <1>2 DEF IInv, TypeOK
<1>4. ASSUME NEW d \in ConnId, NEW i \in DOMAIN prepared'[d]
      PROVE  NamedBy(user'[d], prepared'[d][i].key)
  <2>1. CASE d # c
    BY <2>1, <1>4 DEF IInv, TypeOK, PreparedKeys
  <2>2. CASE d = c
    <3>1. prepared'[d] = Append(prepared[c], e)
      BY <2>2 DEF IInv, TypeOK
    <3>2. i \in 1 .. Len(prepared[c]) \/ i = Len(prepared[c]) + 1
      BY <3>1, <1>1, <1>2, <1>4
    <3>3. DOMAIN prepared[c] = 1 .. Len(prepared[c])
      BY <1>1
    <3>4. QED
      BY <3>1, <3>2, <3>3, <1>2, <2>2 DEF IInv, PreparedKeys
  <2>3. QED
    BY <2>1, <2>2
<1>5. QED
  BY <1>3, <1>4 DEF PreparedKeys

LEMMA PrepareHttpInv == ASSUME IInv, NEW c \in ConnId, PrepareHttp(c) PROVE IInv'
<1> USE DEF PrepareHttp
<1> DEFINE e == Prepare(c, Head(todo[c]), NoPort)
<1>1. e \in Input /\ NamedBy(user[c], e.key) /\ Tail(todo[c]) \in Seq(Def)
  BY PreparedFact
<1>2. PreparedKeys' /\ prepared' \in [ConnId -> Seq(Input)]
  BY <1>1, AppendPrepared
<1>3. TypeOK'
  BY <1>1, <1>2 DEF IInv, TypeOK, regVars, adminVars
<1>4. Fresh' /\ UserKnown'
  BY DEF IInv, TypeOK, Fresh, UserKnown
<1>5. RoutesLeadToClients' /\ TenantIsolation' /\ PortsExclusive' /\ PortsOfLiveConns'
  BY RegistryUntouched
<1>6. QED
  BY <1>2, <1>3, <1>4, <1>5 DEF IInv

LEMMA PrepareTcpInv == ASSUME IInv, NEW c \in ConnId, PrepareTcp(c) PROVE IInv'
<1> USE DEF PrepareTcp
<1>1. PICK p \in FreePorts :
        /\ tcp_ports'  = [tcp_ports EXCEPT ![<<c, Head(todo[c]).tunnel>>] = p]
        /\ used_ports' = used_ports \cup {p}
        /\ prepared'   = [prepared EXCEPT ![c] = Append(@, Prepare(c, Head(todo[c]), p))]
  OBVIOUS
<1>0. p \in Port /\ p \notin used_ports
  BY DEF FreePorts
<1> DEFINE e == Prepare(c, Head(todo[c]), p)
           b == <<c, Head(todo[c]).tunnel>>
<1>2. e \in Input /\ NamedBy(user[c], e.key) /\ Head(todo[c]) \in Def /\ Tail(todo[c]) \in Seq(Def)
  BY <1>0, PreparedFact
<1>3. b \in Binding
  BY <1>2 DEF Binding, Def
<1>4. PreparedKeys' /\ prepared' \in [ConnId -> Seq(Input)]
  BY <1>1, <1>2, AppendPrepared
<1>5. TypeOK'
  BY <1>0, <1>1, <1>2, <1>3, <1>4 DEF IInv, TypeOK, adminVars
<1>6. Fresh' /\ UserKnown'
  BY DEF IInv, TypeOK, Fresh, UserKnown
<1>7. RoutesLeadToClients' /\ TenantIsolation'
  BY DEF IInv, RoutesLeadToClients, TenantIsolation
<1>8. PortsExclusive'
  <2>1. p \notin used_ports /\ p # NoPort
    BY <1>0, PortFacts
  <2>2. \A a \in Binding : tcp_ports[a] # p
    BY <2>1 DEF IInv, PortsExclusive
  <2>3. \A a \in Binding : tcp_ports'[a] = IF a = b THEN p ELSE tcp_ports[a]
    BY <1>1, <1>3 DEF IInv, TypeOK
  <2>4. QED
    BY SMTT(30), <1>1, <2>2, <2>3 DEF IInv, PortsExclusive
<1>9. PortsOfLiveConns'
  <2>1. \A a \in Binding : tcp_ports'[a] # NoPort => a = b \/ tcp_ports[a] # NoPort
    BY <1>1, <1>3 DEF IInv, TypeOK
  <2>2. QED
    BY <2>1 DEF IInv, PortsOfLiveConns, Live
<1>10. QED
  BY <1>4, <1>5, <1>6, <1>7, <1>8, <1>9 DEF IInv

LEMMA PrepareTcpFailsInv == ASSUME IInv, NEW c \in ConnId, PrepareTcpFails(c) PROVE IInv'
<1> USE DEF PrepareTcpFails
<1>1. Tail(todo[c]) \in Seq(Def)
  BY HeadTailProperties DEF IInv, TypeOK
<1>2. TypeOK'
  BY <1>1 DEF IInv, TypeOK, regVars, adminVars
<1>3. Fresh' /\ UserKnown' /\ PreparedKeys'
  BY DEF IInv, Fresh, UserKnown, PreparedKeys
<1>4. RoutesLeadToClients' /\ TenantIsolation' /\ PortsExclusive' /\ PortsOfLiveConns'
  BY RegistryUntouched
<1>5. QED
  BY <1>2, <1>3, <1>4 DEF IInv

LEMMA PersistInv == ASSUME IInv, NEW c \in ConnId, Persist(c) PROVE IInv'
<1> USE DEF Persist
<1>1. TypeOK'
  BY DEF IInv, TypeOK, Live, regVars, adminVars
<1>2. Fresh' /\ UserKnown' /\ PreparedKeys'
  BY DEF IInv, TypeOK, Fresh, UserKnown, PreparedKeys
<1>3. RoutesLeadToClients' /\ TenantIsolation' /\ PortsExclusive' /\ PortsOfLiveConns'
  BY RegistryUntouched DEF IInv, TypeOK, Live
<1>4. QED
  BY <1>1, <1>2, <1>3 DEF IInv

LEMMA RegisterCommitInv == ASSUME IInv, NEW c \in ConnId, RegisterCommit(c) PROVE IInv'
<1> USE DEF RegisterCommit
<1>1. RegisterClient(c)
  OBVIOUS
<1>2. \A i \in DOMAIN prepared[c] : prepared[c][i] \in Input
  BY DEF IInv, TypeOK
<1>3. TypeOK'
  <2>1. {[tunnel |-> prepared[c][i].tunnel, port |-> prepared[c][i].port] :
           i \in DOMAIN prepared[c]} \subseteq [tunnel : Tunnels, port : Port \cup {NoPort}]
    BY <1>2 DEF Input
  <2>2. acked' \in [ConnId -> SUBSET [tunnel : Tunnels, port : Port \cup {NoPort}]]
    BY <2>1 DEF IInv, TypeOK
  <2>3. tcp_ports' = tcp_ports /\ used_ports' = used_ports
    BY DEF RegisterClient
  <2>4. QED
    BY <1>1, <2>2, <2>3, RegisterKeeps, EmptySeq DEF IInv, TypeOK, Live, adminVars
<1>4. Fresh' /\ UserKnown' /\ PreparedKeys'
  BY DEF IInv, TypeOK, Fresh, UserKnown, PreparedKeys
<1>5. \A k \in KeysOf(c) : k \in Key /\ NamedBy(user[c], k)
  BY <1>2 DEF KeysOf, Routed, Input, IInv, PreparedKeys
<1>6. RoutesLeadToClients'
  <2> SUFFICES ASSUME NEW k \in Key, routes'[k] # NoTarget
               PROVE  /\ routes'[k].conn \in clients'
                      /\ k \in owned'[routes'[k].conn]
                      /\ conn'[routes'[k].conn] \in Live
    BY DEF RoutesLeadToClients
  <2>1. CASE k \in KeysOf(c)
    BY <2>1, <1>1, RegisterKeeps DEF IInv, TypeOK, Live
  <2>2. CASE k \notin KeysOf(c)
    <3>1. /\ routes'[k] = routes[k] /\ routes[k].conn \in clients'
          /\ k \in owned'[routes[k].conn]
      BY <2>2, <1>1, RegisterKeeps DEF IInv
    <3>2. conn[routes[k].conn] \in Live
      BY <3>1 DEF IInv, RoutesLeadToClients
    <3>3. conn'[routes[k].conn] \in Live
      BY <3>2 DEF IInv, TypeOK, Live
    <3>4. QED
      BY <3>1, <3>3
  <2>3. QED
    BY <2>1, <2>2
<1>7. TenantIsolation'
  <2> SUFFICES ASSUME NEW k \in Key, routes'[k] # NoTarget
               PROVE  NamedBy(user'[routes'[k].conn], k)
    BY DEF TenantIsolation
  <2>1. CASE k \in KeysOf(c)
    BY <2>1, <1>1, <1>5, RegisterKeeps DEF IInv
  <2>2. CASE k \notin KeysOf(c)
    BY <2>2, <1>1, RegisterKeeps DEF IInv, TenantIsolation
  <2>3. QED
    BY <2>1, <2>2
<1>8. PortsExclusive' /\ PortsOfLiveConns'
  BY DEF RegisterClient, IInv, TypeOK, PortsExclusive, PortsOfLiveConns, Live, Binding
<1>9. QED
  BY <1>3, <1>4, <1>6, <1>7, <1>8 DEF IInv

\* remove_client, whoever calls it: afterwards no binding and no route is left
\* for the connection, and the others keep theirs.
LEMMA RemoveClientInv ==
  ASSUME IInv, NEW c \in ConnId, RemoveClient(c), UNCHANGED user,
         \A d \in ConnId : d # c => conn'[d] = conn[d]
  PROVE  RoutesLeadToClients' /\ TenantIsolation' /\ PortsExclusive' /\ PortsOfLiveConns'
<1>1. ReleasePorts(c)
  BY DEF RemoveClient
<1>2. ASSUME NEW k \in Key, routes'[k] # NoTarget
      PROVE  /\ routes'[k] = routes[k]
             /\ routes[k].conn # c
             /\ routes[k].conn \in clients'
             /\ k \in owned'[routes[k].conn]
  BY <1>2, RemoveKeeps DEF IInv
<1>3. RoutesLeadToClients'
  BY <1>2 DEF IInv, TypeOK, RoutesLeadToClients
<1>4. TenantIsolation'
  BY <1>2 DEF IInv, TenantIsolation
<1>5. PortsExclusive'
  BY <1>1, ReleaseKeeps DEF IInv
<1>6. PortsOfLiveConns'
  BY <1>1, ReleaseKeeps DEF IInv, PortsOfLiveConns, Binding
<1>7. QED
  BY <1>3, <1>4, <1>5, <1>6

LEMMA CloseConnInv == ASSUME IInv, NEW c \in ConnId, CloseConn(c) PROVE IInv'
<1> USE DEF CloseConn
<1>1. RemoveClient(c) /\ ReleasePorts(c)
  BY DEF RemoveClient
<1>2. TypeOK'
  BY <1>1, RemoveKeeps, ReleaseKeeps DEF IInv, TypeOK, Live, adminVars
<1>3. Fresh' /\ UserKnown' /\ PreparedKeys'
  BY DEF IInv, TypeOK, Fresh, UserKnown, PreparedKeys
<1>4. RoutesLeadToClients' /\ TenantIsolation' /\ PortsExclusive' /\ PortsOfLiveConns'
  BY <1>1, RemoveClientInv DEF IInv, TypeOK
<1>5. QED
  BY <1>2, <1>3, <1>4 DEF IInv

LEMMA RemoveUserConnInv == ASSUME IInv, NEW c \in ConnId, RemoveUserConn(c) PROVE IInv'
<1> USE DEF RemoveUserConn
<1>1. RemoveClient(c) /\ ReleasePorts(c)
  BY DEF RemoveClient
<1>2. TypeOK'
  BY <1>1, RemoveKeeps, ReleaseKeeps DEF IInv, TypeOK, connVars
<1>3. Fresh' /\ UserKnown' /\ PreparedKeys'
  BY DEF IInv, Fresh, UserKnown, PreparedKeys, connVars
<1>4. RoutesLeadToClients' /\ TenantIsolation' /\ PortsExclusive' /\ PortsOfLiveConns'
  BY <1>1, RemoveClientInv DEF connVars
<1>5. QED
  BY <1>2, <1>3, <1>4 DEF IInv

\* The other steps of administrators and owners touch no connection and no
\* variable of the registry.
LEMMA AdminInv ==
  ASSUME IInv,
         \/ \E u \in Users : DisableUser(u) \/ EnableUser(u)
         \/ ListUserConns \/ DisableUserDone
         \/ \E r \in Users \X Tunnels : SetTunnel(r) \/ DeleteTunnel(r)
  PROVE  IInv'
<1> USE DEF DisableUser, EnableUser, ListUserConns, DisableUserDone, SetTunnel, DeleteTunnel
<1>1. UNCHANGED <<regVars, connVars>>
  OBVIOUS
<1>2. TypeOK'
  <2>1. disabled' \subseteq Users
    BY DEF IInv, TypeOK, adminVars
  <2>2. rows' \in [Users \X Tunnels -> {"absent", "on", "off"}]
    BY DEF IInv, TypeOK
  <2>3. admin' \in [pc : {"idle", "list", "remove"}, user : Users \cup {NoUser}]
    BY DEF IInv, TypeOK, adminVars
  <2>4. admin_conns' \subseteq ConnId
    BY DEF IInv, TypeOK, adminVars
  <2>5. QED
    BY <1>1, <2>1, <2>2, <2>3, <2>4 DEF IInv, TypeOK, regVars, connVars
<1>3. Fresh' /\ UserKnown' /\ PreparedKeys'
  BY <1>1 DEF IInv, Fresh, UserKnown, PreparedKeys, connVars
<1>4. RoutesLeadToClients' /\ TenantIsolation' /\ PortsExclusive' /\ PortsOfLiveConns'
  BY <1>1, RegistryUntouched DEF connVars
<1>5. QED
  BY <1>2, <1>3, <1>4 DEF IInv

LEMMA NextInv == IInv /\ [Next]_vars => IInv'
<1> SUFFICES ASSUME IInv, [Next]_vars PROVE IInv'
  OBVIOUS
<1>1. ASSUME NEW u \in Users, OpenConn(u) PROVE IInv'
  BY <1>1, OpenConnInv
<1>2. ASSUME NEW c \in ConnId, ConnStep(c) PROVE IInv'
  BY <1>2, RegisterRefusedInv, RegisterBeginInv, PrepareHttpInv, PrepareTcpInv,
     PrepareTcpFailsInv, PersistInv, RegisterCommitInv, CloseConnInv DEF ConnStep
<1>3. CASE AdminStep
  BY <1>3, RemoveUserConnInv, AdminInv DEF AdminStep
<1>4. CASE UNCHANGED vars
  <2>1. TypeOK'
    BY <1>4 DEF IInv, TypeOK, vars, regVars, connVars, adminVars
  <2>2. Fresh' /\ UserKnown' /\ PreparedKeys'
    BY <1>4 DEF IInv, Fresh, UserKnown, PreparedKeys, vars, connVars
  <2>3. RoutesLeadToClients' /\ TenantIsolation' /\ PortsExclusive' /\ PortsOfLiveConns'
    BY <1>4, RegistryUntouched DEF vars, connVars
  <2>4. QED
    BY <2>1, <2>2, <2>3 DEF IInv
<1>5. QED
  BY <1>1, <1>2, <1>3, <1>4 DEF Next

-----------------------------------------------------------------------------
(* The theorems.                                                           *)

\* IInv holds in every reachable state: the strengthening the others rest on.
THEOREM Inductive == Spec => []IInv
<1>1. Init => IInv
  BY InitInv
<1>2. IInv /\ [Next]_vars => IInv'
  BY NextInv
<1>3. QED
  BY <1>1, <1>2, PTL DEF Spec

\* Every variable of the registry and of the connections keeps its type.
THEOREM TypeCorrect == Spec => []TypeOK
<1>1. IInv => TypeOK
  BY DEF IInv
<1>2. QED
  BY <1>1, Inductive, PTL

\* lookup never yields a connection without a sender or a closed socket, in
\* whatever order connections register, take over, close or are removed.
THEOREM NoDanglingRoute == Spec => []RoutesLeadToClients
<1>1. IInv => RoutesLeadToClients
  BY DEF IInv
<1>2. QED
  BY <1>1, Inductive, PTL

\* A public name only ever leads to a connection of a user whose slug it begins
\* with.
THEOREM TenantsApart == Spec => []TenantIsolation
<1>1. IInv => TenantIsolation
  BY DEF IInv
<1>2. QED
  BY <1>1, Inductive, PTL

\* The port pool never binds one port twice nor frees one that is bound.
THEOREM PortPoolSound == Spec => []PortsExclusive
<1>1. IInv => PortsExclusive
  BY DEF IInv
<1>2. QED
  BY <1>1, Inductive, PTL

\* No binding outlives its connection: what the relay serves was allocated to
\* one whose task still runs.
THEOREM PortsDieWithConns == Spec => []PortsOfLiveConns
<1>1. IInv => PortsOfLiveConns
  BY DEF IInv
<1>2. QED
  BY <1>1, Inductive, PTL

-----------------------------------------------------------------------------
(* Names several connections ask for (RegistryClaims).                     *)

\* Who asked last, and who is served.
ClaimsType == asked \in [Key -> ConnId \cup {NoConn}] /\ dropped \subseteq Key

ClaimInv == ClaimsType /\ NamesFollowLastAsker

\* No Register takes effect with this step.
NobodyAsks == \A c \in ConnId : ~ (conn[c] = "commit" /\ conn'[c] = "open")

\* Only register_client and remove_client write routes and owned keys, and the
\* Register of a connection takes effect with its own register_client only.
LEMMA WhoWritesRoutes ==
  ASSUME IInv, [Next]_vars
  PROVE  \/ UNCHANGED <<routes, owned>> /\ NobodyAsks
         \/ \E c \in ConnId : RemoveClient(c) /\ NobodyAsks
         \/ \E c \in ConnId : /\ RegisterClient(c)
                              /\ conn[c] = "commit"
                              /\ conn' = [conn EXCEPT ![c] = "open"]
<1>0. conn \in [ConnId -> Live \cup {"none", "closed"}]
  BY DEF IInv, TypeOK
<1>1. ASSUME NEW u \in Users, OpenConn(u)
      PROVE  UNCHANGED <<routes, owned>> /\ NobodyAsks
  <2>1. next_conn_id \in Nat /\ conn[next_conn_id + 1] # "commit"
    BY <1>1, RegistryAssumption DEF OpenConn, IInv, TypeOK, Fresh, ConnId
  <2>2. QED
    BY <1>0, <1>1, <2>1 DEF OpenConn, regVars, NobodyAsks
<1>2. ASSUME NEW c \in ConnId, ConnStep(c)
      PROVE  \/ UNCHANGED <<routes, owned>> /\ NobodyAsks
             \/ RemoveClient(c) /\ NobodyAsks
             \/ /\ RegisterClient(c)
                /\ conn[c] = "commit"
                /\ conn' = [conn EXCEPT ![c] = "open"]
  BY <1>0, <1>2 DEF ConnStep, RegisterRefused, RegisterBegin, PrepareHttp, PrepareTcp,
     PrepareTcpFails, Persist, RegisterCommit, CloseConn, regVars, NobodyAsks
<1>3. CASE AdminStep
  BY <1>3 DEF AdminStep, DisableUser, EnableUser, ListUserConns, DisableUserDone,
     RemoveUserConn, SetTunnel, DeleteTunnel, regVars, connVars, NobodyAsks
<1>4. CASE UNCHANGED vars
  BY <1>4 DEF vars, regVars, connVars, NobodyAsks
<1>5. QED
  BY <1>1, <1>2, <1>3, <1>4 DEF Next

\* A step in which nobody asks keeps the last to ask, and a name another
\* connection gives up is recorded.
LEMMA NobodyAsksKeeps ==
  ASSUME ClaimsType, ClaimedNext, NobodyAsks
  PROVE  /\ \A k \in Key : asked'[k] = asked[k]
         /\ \A k \in Key : k \notin dropped' =>
              k \notin dropped /\ \A c \in ConnId \ {asked[k]} : ~ GivesUp(c, k)
<1>1. \A k \in Key : AskNow(k) = {}
  BY DEF NobodyAsks, AskNow
<1>2. QED
  BY <1>1 DEF ClaimedNext, ClaimsType

LEMMA ClaimInvNext ==
  ASSUME IInv, ClaimInv, [ClaimedNext]_<<vars, claimVars>>
  PROVE  ClaimInv'
<1>1. CASE UNCHANGED <<vars, claimVars>>
  BY <1>1 DEF ClaimInv, ClaimsType, NamesFollowLastAsker, vars, regVars, claimVars
<1>2. CASE ClaimedNext
  <2>1. ClaimsType'
    <3>1. \A k \in Key : AskNow(k) # {} => (CHOOSE c \in AskNow(k) : TRUE) \in ConnId
      BY DEF AskNow
    <3>2. QED
      BY <1>2, <3>1 DEF ClaimedNext, ClaimsType, ClaimInv
  <2>2. owned \in [ConnId -> SUBSET Key] /\ routes \in [Key -> Target \cup {NoTarget}]
    BY DEF IInv, TypeOK
  <2>3. NoTarget \notin Target /\ NoConn \notin ConnId
    BY RegistryAssumption DEF NoConn, ConnId
  <2>4. [Next]_vars
    BY <1>2 DEF ClaimedNext
  <2>5. ASSUME UNCHANGED <<routes, owned>>, NobodyAsks PROVE NamesFollowLastAsker'
    <3>1. /\ \A k \in Key : asked'[k] = asked[k]
          /\ \A k \in Key : k \notin dropped' => k \notin dropped
      BY <1>2, <2>5, NobodyAsksKeeps DEF ClaimInv
    <3>2. QED
      BY <2>5, <3>1 DEF ClaimInv, NamesFollowLastAsker
  <2>6. ASSUME NEW d \in ConnId, RemoveClient(d), NobodyAsks PROVE NamesFollowLastAsker'
    <3>1. /\ owned' = [owned EXCEPT ![d] = {}]
          /\ routes' = [l \in Key |-> IF l \in owned[d] THEN NoTarget ELSE routes[l]]
      BY <2>6 DEF RemoveClient, WithoutRoutes, KeysToClear
    <3> SUFFICES ASSUME NEW k \in Key
                 PROVE  /\ routes'[k] # NoTarget => routes'[k].conn = asked'[k]
                        /\ asked'[k] # NoConn /\ k \in owned'[asked'[k]] /\ k \notin dropped' =>
                             routes'[k] # NoTarget
      BY DEF NamesFollowLastAsker
    <3>2. asked'[k] = asked[k]
      BY <1>2, <2>6, NobodyAsksKeeps DEF ClaimInv
    <3>3. routes'[k] # NoTarget => routes'[k] = routes[k]
      BY <3>1
    <3>4. ASSUME asked'[k] # NoConn, k \in owned'[asked'[k]], k \notin dropped'
          PROVE  routes'[k] # NoTarget
      <4>1. asked[k] \in ConnId /\ asked[k] # d /\ k \in owned[asked[k]]
        BY <2>2, <3>1, <3>2, <3>4 DEF ClaimInv, ClaimsType
      <4>2. k \notin dropped /\ ~ GivesUp(d, k)
        BY <1>2, <2>6, <3>4, <4>1, NobodyAsksKeeps DEF ClaimInv
      <4>3. k \notin owned[d]
        BY <2>2, <3>1, <4>2 DEF GivesUp
      <4>4. QED
        BY <3>1, <4>1, <4>2, <4>3, <2>3 DEF ClaimInv, NamesFollowLastAsker
    <3>5. QED
      BY <3>2, <3>3, <3>4 DEF ClaimInv, NamesFollowLastAsker
  <2>7. ASSUME NEW d \in ConnId, RegisterClient(d), conn[d] = "commit",
               conn' = [conn EXCEPT ![d] = "open"]
        PROVE  NamesFollowLastAsker'
    <3>1. /\ routes' \in [Key -> Target \cup {NoTarget}]
          /\ \A l \in KeysOf(d) : routes'[l].conn = d
      BY <2>7, RegisterKeeps DEF IInv
    <3>2. /\ \A l \in KeysOf(d) : routes'[l] # NoTarget
          /\ \A l \in Key \ KeysOf(d) :
               routes'[l] = IF l \in owned[d] THEN NoTarget ELSE routes[l]
          /\ KeysOf(d) \subseteq Key
      <4>1. \A i \in DOMAIN prepared[d] : prepared[d][i] \in Input
        BY DEF IInv, TypeOK
      <4>2. KeysOf(d) \subseteq Key /\ \A i \in Routed(d) : prepared[d][i].tunnel \in Tunnels
        BY <4>1 DEF KeysOf, Routed, Input
      <4>3. PICK win \in [KeysOf(d) -> Routed(d)] :
              routes' = [l \in Key |->
                           IF l \in KeysOf(d)
                             THEN [conn |-> d, tunnel |-> prepared[d][win[l]].tunnel]
                             ELSE WithoutRoutes(KeysToClear(d))[l]]
        BY <2>7 DEF RegisterClient
      <4>4. \A l \in KeysOf(d) :
              routes'[l] = [conn |-> d, tunnel |-> prepared[d][win[l]].tunnel]
        BY <4>2, <4>3
      <4>5. \A l \in KeysOf(d) : routes'[l] \in Target
        BY <4>2, <4>3, <4>4 DEF Target
      <4>6. \A l \in Key \ KeysOf(d) :
              routes'[l] = IF l \in owned[d] THEN NoTarget ELSE routes[l]
        BY <4>3 DEF WithoutRoutes, KeysToClear
      <4>7. QED
        BY <2>3, <4>2, <4>5, <4>6
    <3>3. owned' = [owned EXCEPT ![d] = KeysOf(d)]
      BY <2>7 DEF RegisterClient
    <3>4. \A k \in KeysOf(d) : AskNow(k) = {d}
      BY <2>2, <2>7, <3>3 DEF AskNow, IInv, TypeOK
    <3>5. \A k \in Key \ KeysOf(d) : AskNow(k) = {}
      BY <2>2, <2>7, <3>3 DEF AskNow, IInv, TypeOK
    <3>6. \A k \in KeysOf(d) : asked'[k] = d
      BY <1>2, <3>2, <3>4 DEF ClaimedNext
    <3>7. \A k \in Key \ KeysOf(d) : asked'[k] = asked[k]
      BY <1>2, <3>5 DEF ClaimedNext
    <3>8. ASSUME NEW k \in Key \ KeysOf(d), asked[k] # NoConn, k \in owned'[asked[k]],
                 k \notin dropped'
          PROVE  routes'[k] # NoTarget
      <4>1. asked[k] \in ConnId /\ asked[k] # d /\ k \in owned[asked[k]]
        BY <2>2, <3>3, <3>8 DEF ClaimInv, ClaimsType
      <4>2. k \notin dropped /\ ~ GivesUp(d, k)
        BY <1>2, <3>5, <3>8, <4>1 DEF ClaimedNext
      <4>3. k \notin owned[d]
        BY <2>2, <3>3, <3>8, <4>2 DEF GivesUp
      <4>4. QED
        BY <3>2, <4>1, <4>2, <4>3, <2>3 DEF ClaimInv, NamesFollowLastAsker
    <3>9. \A k \in Key : routes'[k] # NoTarget => routes'[k].conn = asked'[k]
      BY <3>1, <3>2, <3>6, <3>7 DEF ClaimInv, NamesFollowLastAsker
    <3>10. \A k \in Key :
             asked'[k] # NoConn /\ k \in owned'[asked'[k]] /\ k \notin dropped' =>
               routes'[k] # NoTarget
      BY <3>2, <3>6, <3>7, <3>8
    <3>11. QED
      BY <3>9, <3>10 DEF NamesFollowLastAsker
  <2>8. QED
    BY <2>1, <2>4, <2>5, <2>6, <2>7, WhoWritesRoutes DEF ClaimInv
<1>3. QED
  BY <1>1, <1>2

\* Whatever two users' slugs and names join to, and however connections take
\* names over, close and are removed: a name leads to the one who asked for it
\* last, and that one is served unless an earlier holder gave the name up.
THEOREM LastAskerIsServed == ClaimedSpec => []NamesFollowLastAsker
<1> DEFINE J == IInv /\ ClaimInv
<1>1. ClaimedInit => J
  BY InitInv DEF ClaimedInit, ClaimInv, ClaimsType, NamesFollowLastAsker, Init
<1>2. J /\ [ClaimedNext]_<<vars, claimVars>> => J'
  BY ClaimInvNext, NextInv DEF ClaimedNext, vars
<1>3. J => NamesFollowLastAsker
  BY DEF ClaimInv
<1>4. QED
  BY <1>1, <1>2, <1>3, PTL DEF ClaimedSpec


-----------------------------------------------------------------------------
(* Ports that are bound, and ports that were acknowledged                  *)
(* (RegistryRemovals).  A Register that names one TCP tunnel twice has the *)
(* second allocation replace the binding of the first, whose port nobody   *)
(* releases any more: what follows is about payloads that do not.          *)

OncePerTunnel(s) ==
  \A i, j \in DOMAIN s :
    s[i].proto = "tcp" /\ s[j].proto = "tcp" /\ s[i].tunnel = s[j].tunnel => i = j

TunnelsOnce == \A ds \in DefLists : OncePerTunnel(ds)

\* A TCP tunnel prepare() has still to come to has no port.
TodoUnbound ==
  \A c \in ConnId : conn[c] = "prepare" =>
    /\ OncePerTunnel(todo[c])
    /\ \A i \in DOMAIN todo[c] :
         todo[c][i].proto = "tcp" => tcp_ports[<<c, todo[c][i].tunnel>>] = NoPort

PortsInv == IInv /\ TodoUnbound /\ NoPortLost

\* What is left of a payload names no TCP tunnel twice, nor the one just taken.
LEMMA TailOnce ==
  ASSUME NEW s \in Seq(Def), s # <<>>, OncePerTunnel(s)
  PROVE  /\ OncePerTunnel(Tail(s))
         /\ \A i \in DOMAIN Tail(s) : i + 1 \in DOMAIN s /\ Tail(s)[i] = s[i + 1]
         /\ Head(s).proto = "tcp" =>
              \A i \in DOMAIN Tail(s) :
                Tail(s)[i].proto = "tcp" => Tail(s)[i].tunnel # Head(s).tunnel
<1>1. /\ Tail(s) \in Seq(Def) /\ Len(Tail(s)) = Len(s) - 1 /\ Head(s) = s[1]
      /\ \A i \in 1 .. Len(Tail(s)) : Tail(s)[i] = s[i + 1]
      /\ Len(s) \in Nat /\ Len(s) >= 1 /\ DOMAIN s = 1 .. Len(s)
  BY HeadTailProperties, EmptySeq, LenProperties
<1>2. DOMAIN Tail(s) = 1 .. Len(Tail(s))
  BY <1>1, LenProperties
<1>3. 1 \in DOMAIN s /\ \A i \in DOMAIN Tail(s) : i + 1 \in DOMAIN s /\ i + 1 # 1
  BY <1>1, <1>2
<1>4. \A i \in DOMAIN Tail(s) : Tail(s)[i] = s[i + 1]
  BY <1>1, <1>2
<1>5. OncePerTunnel(Tail(s))
  <2> SUFFICES ASSUME NEW i \in DOMAIN Tail(s), NEW j \in DOMAIN Tail(s),
                      Tail(s)[i].proto = "tcp", Tail(s)[j].proto = "tcp",
                      Tail(s)[i].tunnel = Tail(s)[j].tunnel
               PROVE  i = j
    BY DEF OncePerTunnel
  <2>1. i + 1 = j + 1
    BY <1>3, <1>4 DEF OncePerTunnel
  <2>2. QED
    BY <2>1, <1>1, <1>2
<1>6. ASSUME Head(s).proto = "tcp", NEW i \in DOMAIN Tail(s), Tail(s)[i].proto = "tcp"
      PROVE  Tail(s)[i].tunnel # Head(s).tunnel
  BY <1>1, <1>3, <1>4, <1>6 DEF OncePerTunnel
<1>7. QED
  BY <1>3, <1>4, <1>5, <1>6

\* Releasing a connection's ports leaves no port in use without a binding: the
\* ports of the other bindings are not among those it frees.
LEMMA ReleaseLosesNone ==
  ASSUME PortsInv, NEW c \in ConnId, ReleasePorts(c)
  PROVE  /\ NoPortLost'
         /\ \A t \in Tunnels : tcp_ports'[<<c, t>>] = NoPort
         /\ \A b \in Binding : b[1] # c => tcp_ports'[b] = tcp_ports[b]
<1>1. /\ \A t \in Tunnels : tcp_ports'[<<c, t>>] = NoPort
      /\ \A b \in Binding : b[1] # c => tcp_ports'[b] = tcp_ports[b]
  BY DEF ReleasePorts, DropBindings, Binding
<1>2. ASSUME NEW p \in used_ports' PROVE \E b \in Binding : tcp_ports'[b] = p
  <2>1. p \in used_ports /\ p \notin PortsOf(c)
    BY DEF ReleasePorts
  <2>2. PICK b \in Binding : tcp_ports[b] = p
    BY <2>1 DEF PortsInv, NoPortLost
  <2>3. p # NoPort
    BY <2>1, PortFacts DEF PortsInv, IInv, TypeOK
  <2>4. b[1] # c
    BY <2>1, <2>2, <2>3 DEF PortsOf, Binding
  <2>5. QED
    BY <1>1, <2>2, <2>4
<1>3. QED
  BY <1>1, <1>2 DEF NoPortLost

\* Every step is one of those that release a connection's ports, the one that
\* allocates a port, or leaves the pool alone.
LEMMA WhoWritesPorts ==
  ASSUME [Next]_vars
  PROVE  \/ UNCHANGED <<tcp_ports, used_ports>>
         \/ \E c \in ConnId : RegisterBegin(c) \/ PrepareTcp(c) \/ CloseConn(c)
                                \/ RemoveUserConn(c)
<1>1. ASSUME NEW u \in Users, OpenConn(u) PROVE UNCHANGED <<tcp_ports, used_ports>>
  BY <1>1 DEF OpenConn, regVars
<1>2. ASSUME NEW c \in ConnId, ConnStep(c)
      PROVE  \/ UNCHANGED <<tcp_ports, used_ports>>
             \/ RegisterBegin(c) \/ PrepareTcp(c) \/ CloseConn(c)
  BY <1>2 DEF ConnStep, RegisterRefused, PrepareHttp, PrepareTcpFails, Persist,
     RegisterCommit, RegisterClient, regVars
<1>3. CASE AdminStep
  BY <1>3 DEF AdminStep, DisableUser, EnableUser, ListUserConns, DisableUserDone,
     SetTunnel, DeleteTunnel, regVars
<1>4. CASE UNCHANGED vars
  BY <1>4 DEF vars, regVars
<1>5. QED
  BY <1>1, <1>2, <1>3, <1>4 DEF Next

\* What a step may do to the payload of a connection that is being prepared.
LEMMA TodoSteps ==
  ASSUME [Next]_vars, IInv, NEW c \in ConnId, conn'[c] = "prepare"
  PROVE  \/ RegisterBegin(c)
         \/ /\ conn[c] = "prepare"
            /\ \/ todo'[c] = todo[c]
               \/ todo[c] # <<>> /\ todo'[c] = Tail(todo[c])
<1> USE DEF IInv, TypeOK
<1>1. ASSUME NEW u \in Users, OpenConn(u) PROVE conn[c] = "prepare" /\ todo'[c] = todo[c]
  BY <1>1 DEF OpenConn
<1>2. ASSUME NEW d \in ConnId, ConnStep(d), d # c
      PROVE  conn[c] = "prepare" /\ todo'[c] = todo[c]
  BY <1>2 DEF ConnStep, RegisterRefused, RegisterBegin, PrepareHttp, PrepareTcp,
     PrepareTcpFails, Persist, RegisterCommit, CloseConn
<1>3. CASE ConnStep(c)
  BY <1>3 DEF ConnStep, RegisterRefused, PrepareHttp, PrepareTcp,
     PrepareTcpFails, Persist, RegisterCommit, CloseConn
<1>4. CASE AdminStep
  BY <1>4 DEF AdminStep, DisableUser, EnableUser, ListUserConns, DisableUserDone,
     RemoveUserConn, SetTunnel, DeleteTunnel, connVars
<1>5. CASE UNCHANGED vars
  BY <1>5 DEF vars, connVars
<1>6. QED
  BY <1>1, <1>2, <1>3, <1>4, <1>5 DEF Next


\* What a step may do to a binding of a connection.
LEMMA BindingSteps ==
  ASSUME [Next]_vars, PortsInv, NEW c \in ConnId, NEW t \in Tunnels
  PROVE  \/ tcp_ports'[<<c, t>>] \in {tcp_ports[<<c, t>>], NoPort}
         \/ PrepareTcp(c) /\ t = Head(todo[c]).tunnel
<1>1. CASE UNCHANGED <<tcp_ports, used_ports>>
  BY <1>1
<1>2. ASSUME NEW d \in ConnId, RegisterBegin(d) \/ CloseConn(d) \/ RemoveUserConn(d)
      PROVE  tcp_ports'[<<c, t>>] \in {tcp_ports[<<c, t>>], NoPort}
  BY <1>2 DEF RegisterBegin, CloseConn, RemoveUserConn, RemoveClient, ReleasePorts,
     DropBindings, Binding
<1>3. ASSUME NEW d \in ConnId, PrepareTcp(d)
      PROVE  \/ tcp_ports'[<<c, t>>] = tcp_ports[<<c, t>>]
             \/ d = c /\ t = Head(todo[c]).tunnel
  BY <1>3 DEF PrepareTcp, PortsInv, IInv, TypeOK, Binding
<1>4. QED
  BY <1>1, <1>2, <1>3, WhoWritesPorts

LEMMA PortsNext ==
  ASSUME PortsInv, [Next]_vars, TunnelsOnce, IInv'
  PROVE  PortsInv'
<1>1. NoPortLost'
  <2>1. CASE UNCHANGED <<tcp_ports, used_ports>>
    BY <2>1 DEF PortsInv, NoPortLost
  <2>2. ASSUME NEW c \in ConnId, RegisterBegin(c) \/ CloseConn(c) \/ RemoveUserConn(c)
        PROVE  NoPortLost'
    BY <2>2, ReleaseLosesNone DEF RegisterBegin, CloseConn, RemoveUserConn, RemoveClient
  <2>3. ASSUME NEW c \in ConnId, PrepareTcp(c) PROVE NoPortLost'
    <3> DEFINE b == <<c, Head(todo[c]).tunnel>>
    <3>1. PICK p \in FreePorts : /\ tcp_ports'  = [tcp_ports EXCEPT ![b] = p]
                                 /\ used_ports' = used_ports \cup {p}
      BY <2>3 DEF PrepareTcp
    <3>2. conn[c] = "prepare" /\ todo[c] # <<>> /\ Head(todo[c]).proto = "tcp"
      BY <2>3 DEF PrepareTcp
    <3>3. /\ todo[c] \in Seq(Def) /\ Head(todo[c]) = todo[c][1] /\ 1 \in DOMAIN todo[c]
          /\ Head(todo[c]) \in Def
      BY <3>2, HeadTailProperties, EmptySeq, LenProperties DEF PortsInv, IInv, TypeOK
    <3>4. b \in Binding /\ tcp_ports[b] = NoPort
      BY <3>2, <3>3 DEF PortsInv, TodoUnbound, Binding, Def
    <3>5. tcp_ports'[b] = p /\ \A a \in Binding : a # b => tcp_ports'[a] = tcp_ports[a]
      BY <3>1, <3>4 DEF PortsInv, IInv, TypeOK
    <3>6. \A q \in used_ports : q # NoPort
      BY PortFacts DEF PortsInv, IInv, TypeOK
    <3>7. ASSUME NEW q \in used_ports PROVE \E a \in Binding : tcp_ports'[a] = q
      BY <3>4, <3>5, <3>6 DEF PortsInv, NoPortLost
    <3>8. QED
      BY <3>1, <3>4, <3>5, <3>7 DEF NoPortLost
  <2>4. QED
    BY <2>1, <2>2, <2>3, WhoWritesPorts
<1>2. TodoUnbound'
  <2> SUFFICES ASSUME NEW c \in ConnId, conn'[c] = "prepare"
               PROVE  /\ OncePerTunnel(todo'[c])
                      /\ \A i \in DOMAIN todo'[c] :
                           todo'[c][i].proto = "tcp" =>
                             tcp_ports'[<<c, todo'[c][i].tunnel>>] = NoPort
    BY DEF TodoUnbound, OncePerTunnel
  <2>0. todo'[c] \in Seq(Def) /\ \A i \in DOMAIN todo'[c] : todo'[c][i].tunnel \in Tunnels
    <3>1. todo'[c] \in Seq(Def)
      BY DEF IInv, TypeOK
    <3>2. \A i \in DOMAIN todo'[c] : todo'[c][i] \in Def
      BY <3>1
    <3>3. QED
      BY <3>1, <3>2 DEF Def
  <2>1. CASE RegisterBegin(c)
    <3>1. PICK ds \in DefLists : todo' = [todo EXCEPT ![c] = ds]
      BY <2>1 DEF RegisterBegin
    <3>2. OncePerTunnel(todo'[c])
      BY <3>1 DEF TunnelsOnce, PortsInv, IInv, TypeOK
    <3>3. \A t \in Tunnels : tcp_ports'[<<c, t>>] = NoPort
      BY <2>1, ReleaseLosesNone DEF RegisterBegin
    <3>4. QED
      BY <2>0, <3>2, <3>3
  <2>2. CASE conn[c] = "prepare" /\ todo'[c] = todo[c]
    <3>1. /\ OncePerTunnel(todo[c])
          /\ \A i \in DOMAIN todo[c] :
               todo[c][i].proto = "tcp" => tcp_ports[<<c, todo[c][i].tunnel>>] = NoPort
      BY <2>2 DEF PortsInv, TodoUnbound
    <3>2. ~ PrepareTcp(c)
      <4> SUFFICES ASSUME PrepareTcp(c) PROVE FALSE
        OBVIOUS
      <4>1. todo[c] # <<>> /\ todo'[c] = Tail(todo[c]) /\ todo[c] \in Seq(Def)
        BY DEF PrepareTcp, PortsInv, IInv, TypeOK
      <4>2. Len(Tail(todo[c])) = Len(todo[c]) - 1 /\ Len(todo[c]) \in Nat
        BY <4>1, HeadTailProperties, LenProperties
      <4>3. Tail(todo[c]) = todo[c]
        BY <2>2, <4>1
      <4>4. PICK n \in Nat : n = Len(todo[c])
        BY <4>2
      <4>5. Len(Tail(todo[c])) = n - 1 /\ Len(Tail(todo[c])) = n
        BY <4>2, <4>3, <4>4
      <4>6. QED
        BY <4>4, <4>5
    <3>3. \A t \in Tunnels : tcp_ports'[<<c, t>>] \in {tcp_ports[<<c, t>>], NoPort}
      BY <3>2, BindingSteps
    <3>4. QED
      BY <2>0, <2>2, <3>1, <3>3
  <2>3. CASE conn[c] = "prepare" /\ todo[c] # <<>> /\ todo'[c] = Tail(todo[c])
    <3>1. /\ OncePerTunnel(todo[c]) /\ todo[c] \in Seq(Def)
          /\ \A i \in DOMAIN todo[c] :
               todo[c][i].proto = "tcp" => tcp_ports[<<c, todo[c][i].tunnel>>] = NoPort
      BY <2>3 DEF PortsInv, TodoUnbound, IInv, TypeOK
    <3>2. /\ OncePerTunnel(Tail(todo[c]))
          /\ \A i \in DOMAIN Tail(todo[c]) :
               i + 1 \in DOMAIN todo[c] /\ Tail(todo[c])[i] = todo[c][i + 1]
          /\ Head(todo[c]).proto = "tcp" =>
               \A i \in DOMAIN Tail(todo[c]) :
                 Tail(todo[c])[i].proto = "tcp" =>
                   Tail(todo[c])[i].tunnel # Head(todo[c]).tunnel
      BY <2>3, <3>1, TailOnce
    <3>3. ASSUME NEW i \in DOMAIN todo'[c], todo'[c][i].proto = "tcp"
          PROVE  tcp_ports'[<<c, todo'[c][i].tunnel>>] = NoPort
      <4>1. PICK t \in Tunnels : t = todo'[c][i].tunnel
        BY <2>0
      <4>2. tcp_ports[<<c, t>>] = NoPort
        <5>1. PICK j \in DOMAIN todo[c] : Tail(todo[c])[i] = todo[c][j]
          BY <2>3, <3>2
        <5>2. todo[c][j].proto = "tcp" /\ todo[c][j].tunnel = t
          BY <2>3, <3>3, <4>1, <5>1
        <5>3. QED
          BY <3>1, <5>2
      <4>3. PrepareTcp(c) => t # Head(todo[c]).tunnel
        BY <2>3, <3>2, <3>3, <4>1 DEF PrepareTcp
      <4>4. QED
        BY <4>1, <4>2, <4>3, BindingSteps
    <3>4. QED
      BY <2>3, <3>2, <3>3
  <2>4. QED
    BY <2>1, <2>2, <2>3, TodoSteps DEF PortsInv
<1>3. QED
  BY <1>1, <1>2 DEF PortsInv


\* Every port in use is bound to a tunnel, so that the release by connection
\* finds it again and the pool does not shrink - as long as clients name a TCP
\* tunnel once in a Register.
THEOREM NoPortIsLost ==
  ASSUME TunnelsOnce
  PROVE  Spec => []NoPortLost
<1>1. Init => PortsInv
  BY InitInv DEF PortsInv, Init, TodoUnbound, NoPortLost
<1>2. PortsInv /\ [Next]_vars => PortsInv'
  BY PortsNext, NextInv DEF PortsInv
<1>3. PortsInv => NoPortLost
  BY DEF PortsInv
<1>4. QED
  BY <1>1, <1>2, <1>3, PTL DEF Spec

\* The ports prepare() has noted so far, and those of the last acknowledgement,
\* are bound to the tunnels they were noted for.
PreparedBound(c) ==
  conn[c] \in {"prepare", "commit"} =>
    \A i \in DOMAIN prepared[c] : prepared[c][i].port # NoPort =>
      tcp_ports[<<c, prepared[c][i].tunnel>>] = prepared[c][i].port

AckedBound(c) ==
  conn[c] = "open" =>
    \A a \in acked[c] : a.port # NoPort => tcp_ports[<<c, a.tunnel>>] = a.port

StruckKept ==
  /\ admin_conns \subseteq struck
  /\ \A c \in ConnId : c > next_conn_id => acked[c] = {}
  /\ \A c \in ConnId \ struck : PreparedBound(c) /\ AckedBound(c)

\* A step that leaves the connection's bindings and notes as they are.
LEMMA BoundUntouched ==
  ASSUME IInv, NEW c \in ConnId, PreparedBound(c), AckedBound(c),
         \A t \in Tunnels : tcp_ports'[<<c, t>>] = tcp_ports[<<c, t>>],
         \/ conn'[c] = conn[c]
         \/ conn[c] = "prepare" /\ conn'[c] = "commit",
         prepared'[c] = prepared[c], acked'[c] \in {acked[c], {}}
  PROVE  PreparedBound(c)' /\ AckedBound(c)'
<1>1. /\ \A i \in DOMAIN prepared[c] : prepared[c][i].tunnel \in Tunnels
      /\ \A a \in acked[c] : a.tunnel \in Tunnels
  <2>1. /\ \A i \in DOMAIN prepared[c] : prepared[c][i] \in Input
        /\ \A a \in acked[c] : a \in [tunnel : Tunnels, port : Port \cup {NoPort}]
    BY DEF IInv, TypeOK
  <2>2. QED
    BY <2>1 DEF Input
<1>2. PreparedBound(c)'
  BY <1>1 DEF PreparedBound
<1>3. AckedBound(c)'
  BY <1>1 DEF AckedBound
<1>4. QED
  BY <1>2, <1>3

\* A step of another connection is such a step.
LEMMA OthersLeaveAlone ==
  ASSUME [Next]_vars, PortsInv, NEW c \in ConnId, ~ ConnStep(c), ~ RemoveUserConn(c)
  PROVE  /\ \A t \in Tunnels : tcp_ports'[<<c, t>>] = tcp_ports[<<c, t>>]
         /\ prepared'[c] = prepared[c] /\ acked'[c] = acked[c]
         /\ \/ conn'[c] = conn[c]
            \/ c > next_conn_id /\ conn'[c] = "open"
<1> USE DEF PortsInv, IInv, TypeOK
<1>1. ASSUME NEW t \in Tunnels PROVE tcp_ports'[<<c, t>>] = tcp_ports[<<c, t>>]
  <2>1. CASE UNCHANGED <<tcp_ports, used_ports>>
    BY <2>1
  <2>2. ASSUME NEW d \in ConnId, d # c, RegisterBegin(d) \/ CloseConn(d) \/ RemoveUserConn(d)
        PROVE  tcp_ports'[<<c, t>>] = tcp_ports[<<c, t>>]
    BY <2>2 DEF RegisterBegin, CloseConn, RemoveUserConn, RemoveClient, ReleasePorts,
       DropBindings, Binding
  <2>3. ASSUME NEW d \in ConnId, d # c, PrepareTcp(d)
        PROVE  tcp_ports'[<<c, t>>] = tcp_ports[<<c, t>>]
    BY <2>3 DEF PrepareTcp, Binding
  <2>4. QED
    BY <2>1, <2>2, <2>3, WhoWritesPorts DEF ConnStep
<1>2. /\ prepared'[c] = prepared[c] /\ acked'[c] = acked[c]
      /\ conn'[c] = conn[c] \/ (c > next_conn_id /\ conn'[c] = "open")
  <2>1. ASSUME NEW u \in Users, OpenConn(u)
        PROVE  /\ prepared'[c] = prepared[c] /\ acked'[c] = acked[c]
               /\ conn'[c] = conn[c] \/ (c > next_conn_id /\ conn'[c] = "open")
    BY <2>1, RegistryAssumption DEF OpenConn, ConnId
  <2>2. ASSUME NEW d \in ConnId, d # c, ConnStep(d)
        PROVE  prepared'[c] = prepared[c] /\ acked'[c] = acked[c] /\ conn'[c] = conn[c]
    BY <2>2 DEF ConnStep, RegisterRefused, RegisterBegin, PrepareHttp, PrepareTcp,
       PrepareTcpFails, Persist, RegisterCommit, CloseConn
  <2>3. CASE AdminStep
    BY <2>3 DEF AdminStep, DisableUser, EnableUser, ListUserConns, DisableUserDone,
       RemoveUserConn, SetTunnel, DeleteTunnel, connVars
  <2>4. CASE UNCHANGED vars
    BY <2>4 DEF vars, connVars
  <2>5. QED
    BY <2>1, <2>2, <2>3, <2>4 DEF Next
<1>3. QED
  BY <1>1, <1>2

\* What the connection's own steps do to its notes and bindings.
LEMMA OwnStepsBound ==
  ASSUME PortsInv, NEW c \in ConnId, PreparedBound(c), AckedBound(c), ConnStep(c)
  PROVE  PreparedBound(c)' /\ AckedBound(c)'
<1>0. /\ IInv /\ TypeOK /\ prepared[c] \in Seq(Input) /\ todo[c] \in Seq(Def)
      /\ \A i \in DOMAIN prepared[c] : prepared[c][i] \in Input
  BY DEF PortsInv, IInv, TypeOK
<1>1. CASE RegisterRefused(c)
  BY <1>0, <1>1, BoundUntouched DEF RegisterRefused, regVars, TypeOK
<1>2. CASE RegisterBegin(c)
  BY <1>0, <1>2, EmptySeq DEF RegisterBegin, TypeOK, PreparedBound, AckedBound
<1>3. CASE PrepareTcpFails(c)
  BY <1>0, <1>3, BoundUntouched DEF PrepareTcpFails, regVars
<1>4. CASE Persist(c)
  BY <1>0, <1>4, BoundUntouched DEF Persist, regVars, TypeOK
<1>5. CASE CloseConn(c)
  BY <1>0, <1>5 DEF CloseConn, TypeOK, PreparedBound, AckedBound
<1>6. CASE RegisterCommit(c)
  <2>1. /\ conn[c] = "commit" /\ conn'[c] = "open" /\ tcp_ports' = tcp_ports
        /\ acked'[c] = {[tunnel |-> prepared[c][i].tunnel, port |-> prepared[c][i].port] :
                          i \in DOMAIN prepared[c]}
    BY <1>0, <1>6 DEF RegisterCommit, RegisterClient, TypeOK
  <2>2. \A i \in DOMAIN prepared[c] : prepared[c][i].port # NoPort =>
          tcp_ports[<<c, prepared[c][i].tunnel>>] = prepared[c][i].port
    BY <2>1 DEF PreparedBound
  <2>3. AckedBound(c)'
    BY <2>1, <2>2 DEF AckedBound
  <2>4. PreparedBound(c)'
    BY <2>1 DEF PreparedBound
  <2>5. QED
    BY <2>3, <2>4
<1>7. ASSUME NEW e \in Input, conn[c] = "prepare", UNCHANGED conn,
             prepared' = [prepared EXCEPT ![c] = Append(@, e)],
             e.port # NoPort => tcp_ports'[<<c, e.tunnel>>] = e.port,
             \A t \in Tunnels : tcp_ports[<<c, t>>] # NoPort =>
               tcp_ports'[<<c, t>>] = tcp_ports[<<c, t>>]
      PROVE  PreparedBound(c)' /\ AckedBound(c)'
  <2>1. /\ DOMAIN Append(prepared[c], e) = 1 .. Len(prepared[c]) + 1
        /\ \A i \in 1 .. Len(prepared[c]) : Append(prepared[c], e)[i] = prepared[c][i]
        /\ Append(prepared[c], e)[Len(prepared[c]) + 1] = e
        /\ DOMAIN prepared[c] = 1 .. Len(prepared[c]) /\ Len(prepared[c]) \in Nat
    BY <1>0, AppendProperties, LenProperties
  <2>2. prepared'[c] = Append(prepared[c], e)
    BY <1>0, <1>7 DEF TypeOK
  <2>3. ASSUME NEW i \in DOMAIN prepared'[c], prepared'[c][i].port # NoPort
        PROVE  tcp_ports'[<<c, prepared'[c][i].tunnel>>] = prepared'[c][i].port
    <3>1. CASE i = Len(prepared[c]) + 1
      BY <1>7, <2>1, <2>2, <2>3, <3>1
    <3>2. CASE i # Len(prepared[c]) + 1
      <4>1. i \in DOMAIN prepared[c] /\ prepared'[c][i] = prepared[c][i]
        BY <2>1, <2>2, <2>3, <3>2
      <4>2. prepared[c][i].tunnel \in Tunnels
        BY <1>0, <4>1 DEF Input
      <4>3. tcp_ports[<<c, prepared[c][i].tunnel>>] = prepared[c][i].port
        BY <1>7, <2>3, <4>1 DEF PreparedBound
      <4>4. QED
        BY <1>7, <2>3, <4>1, <4>2, <4>3
    <3>3. QED
      BY <3>1, <3>2
  <2>4. QED
    BY <1>7, <2>3 DEF PreparedBound, AckedBound
<1>8. CASE PrepareHttp(c)
  <2>1. Prepare(c, Head(todo[c]), NoPort) \in Input
    BY <1>0, <1>8, PreparedFact DEF PrepareHttp
  <2>2. Prepare(c, Head(todo[c]), NoPort).port = NoPort
    BY DEF Prepare
  <2>3. QED
    BY <1>7, <1>8, <2>1, <2>2 DEF PrepareHttp, regVars
<1>9. CASE PrepareTcp(c)
  <2> DEFINE b == <<c, Head(todo[c]).tunnel>>
  <2>1. PICK p \in FreePorts :
          /\ tcp_ports' = [tcp_ports EXCEPT ![b] = p]
          /\ prepared'  = [prepared EXCEPT ![c] = Append(@, Prepare(c, Head(todo[c]), p))]
    BY <1>9 DEF PrepareTcp
  <2>2. /\ conn[c] = "prepare" /\ UNCHANGED conn /\ todo[c] # <<>>
        /\ Head(todo[c]).proto = "tcp"
    BY <1>9 DEF PrepareTcp
  <2>3. Head(todo[c]) = todo[c][1] /\ 1 \in DOMAIN todo[c] /\ Head(todo[c]) \in Def
    BY <1>0, <2>2, HeadTailProperties, EmptySeq, LenProperties
  <2>4. b \in Binding /\ tcp_ports[b] = NoPort
    BY <2>2, <2>3 DEF PortsInv, TodoUnbound, Binding, Def
  <2>5. p \in Port \cup {NoPort}
    BY DEF FreePorts
  <2>6. PICK e \in Input : e = Prepare(c, Head(todo[c]), p)
    BY <1>0, <2>2, <2>5, PreparedFact
  <2>7. e.port = p /\ e.tunnel = Head(todo[c]).tunnel
    BY <2>6 DEF Prepare
  <2>8. tcp_ports'[b] = p /\ \A a \in Binding : a # b => tcp_ports'[a] = tcp_ports[a]
    BY <1>0, <2>1, <2>4 DEF TypeOK
  <2>9. \A t \in Tunnels : tcp_ports[<<c, t>>] # NoPort =>
          tcp_ports'[<<c, t>>] = tcp_ports[<<c, t>>]
    BY <2>4, <2>8 DEF Binding
  <2>10. prepared' = [prepared EXCEPT ![c] = Append(@, e)]
    BY <2>1, <2>6
  <2>11. QED
    BY <1>7, <2>2, <2>7, <2>8, <2>9, <2>10
<1>10. QED
  BY <1>1, <1>2, <1>3, <1>4, <1>5, <1>6, <1>8, <1>9 DEF ConnStep

LEMMA StruckNextKept ==
  ASSUME PortsInv, StruckKept, [StruckNext]_<<vars, struck>>, [Next]_vars
  PROVE  StruckKept'
<1>1. admin_conns' \subseteq struck' /\ struck \subseteq struck'
  BY DEF StruckKept, StruckNext, vars, adminVars
<1>2. ASSUME NEW c \in ConnId, c > next_conn_id' PROVE acked'[c] = {}
  <2>1. next_conn_id' \in Nat /\ next_conn_id \in Nat /\ next_conn_id' >= next_conn_id
    <3>1. next_conn_id \in Nat
      BY RegistryAssumption DEF PortsInv, IInv, TypeOK
    <3>2. next_conn_id' \in {next_conn_id, next_conn_id + 1}
      BY DEF Next, OpenConn, ConnStep, RegisterRefused, RegisterBegin, PrepareHttp,
         PrepareTcp, PrepareTcpFails, Persist, RegisterCommit, CloseConn, AdminStep,
         DisableUser, EnableUser, ListUserConns, DisableUserDone, RemoveUserConn,
         SetTunnel, DeleteTunnel, vars, connVars
    <3>3. QED
      BY <3>1, <3>2
  <2>2. c > next_conn_id
    BY <1>2, <2>1 DEF ConnId
  <2>3. conn[c] = "none" /\ acked[c] = {}
    BY <2>2 DEF PortsInv, IInv, Fresh, StruckKept
  <2>4. ~ ConnStep(c)
    BY <2>3 DEF ConnStep, RegisterRefused, RegisterBegin, PrepareHttp, PrepareTcp,
       PrepareTcpFails, Persist, RegisterCommit, CloseConn
  <2>5. CASE RemoveUserConn(c)
    BY <2>3, <2>5 DEF RemoveUserConn, connVars
  <2>6. CASE ~ RemoveUserConn(c)
    BY <2>3, <2>4, <2>6, OthersLeaveAlone
  <2>7. QED
    BY <2>5, <2>6
<1>3. ASSUME NEW c \in ConnId \ struck' PROVE PreparedBound(c)' /\ AckedBound(c)'
  <2>1. PreparedBound(c) /\ AckedBound(c) /\ ~ RemoveUserConn(c)
    BY <1>1, <1>3 DEF StruckKept, RemoveUserConn
  <2>2. CASE ConnStep(c)
    BY <2>1, <2>2, OwnStepsBound
  <2>3. CASE ~ ConnStep(c)
    <3>1. /\ \A t \in Tunnels : tcp_ports'[<<c, t>>] = tcp_ports[<<c, t>>]
          /\ prepared'[c] = prepared[c] /\ acked'[c] = acked[c]
          /\ \/ conn'[c] = conn[c]
             \/ c > next_conn_id /\ conn'[c] = "open"
      BY <2>1, <2>3, OthersLeaveAlone
    <3>2. CASE conn'[c] = conn[c]
      BY <2>1, <3>1, <3>2, BoundUntouched DEF PortsInv
    <3>3. CASE c > next_conn_id /\ conn'[c] = "open"
      BY <3>1, <3>3 DEF StruckKept, PreparedBound, AckedBound
    <3>4. QED
      BY <3>1, <3>2, <3>3
  <2>4. QED
    BY <2>2, <2>3
<1>4. QED
  BY <1>1, <1>2, <1>3 DEF StruckKept

\* A registered, idle connection still has every port it was told of, unless the
\* administrator ever set out to remove it - as long as clients name a TCP
\* tunnel once in a Register.
THEOREM AckedPortsStayBound ==
  ASSUME TunnelsOnce
  PROVE  StruckSpec => []AckedPortsBound
<1>1. StruckInit => PortsInv /\ StruckKept
  BY InitInv DEF StruckInit, PortsInv, Init, TodoUnbound, NoPortLost, StruckKept,
     PreparedBound, AckedBound
<1>2. PortsInv /\ StruckKept /\ [StruckNext]_<<vars, struck>> => (PortsInv /\ StruckKept)'
  <2> SUFFICES ASSUME PortsInv, StruckKept, [StruckNext]_<<vars, struck>>
               PROVE  PortsInv' /\ StruckKept'
    OBVIOUS
  <2>1. [Next]_vars
    BY DEF StruckNext
  <2>2. PortsInv'
    BY <2>1, PortsNext, NextInv DEF PortsInv
  <2>3. StruckKept'
    BY <2>1, StruckNextKept
  <2>4. QED
    BY <2>2, <2>3
<1>3. PortsInv /\ StruckKept => AckedPortsBound
  BY DEF PortsInv, IInv, TypeOK, StruckKept, AckedBound, AckedPortsBound
<1>4. QED
  BY <1>1, <1>2, <1>3, PTL DEF StruckSpec

=============================================================================
