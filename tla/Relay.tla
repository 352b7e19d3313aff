------------------------------- MODULE Relay -------------------------------
(***************************************************************************)
(* The relay role: relay::run turns the TCP ports of the registry into     *)
(* listeners by polling, handle_conn carries one visitor's bytes over the  *)
(* control connection, and the client carries them to the local service.   *)
(*                                                                         *)
(* Of the registry this module keeps the port bindings and the senders;    *)
(* module Registry has the whole Register.  Every connection registers one *)
(* TCP tunnel.  A stream is named by its visitor: next_stream_id never     *)
(* repeats a number.                                                       *)
(***************************************************************************)
EXTENDS Naturals, Sequences, FiniteSets

CONSTANTS
  Ports,       \* the port pool, a set of numbers
  Users,
  Visitors,
  MaxConn,     \* bound: connections that are ever opened
  MaxStreams,  \* MAX_STREAMS_PER_USER
  MaxChunks,   \* bound: chunks in either direction of one stream
  Owner,       \* the user of each connection
  EndsOnClose, \* does the client answer CloseStream with an End?  Qt: yes, lite: no
  Faults       \* what may go wrong in this instance

ConnId == 1 .. MaxConn
None   == 0    \* no connection, and the user id tcp_bindings has for one that is not registered yet

ASSUME RelayAssumption ==
  /\ Ports \subseteq Nat \ {0} /\ IsFiniteSet(Visitors)
  /\ MaxConn \in Nat /\ MaxChunks \in Nat /\ MaxStreams \in Nat \ {0}
  /\ None \notin Users /\ Owner \in [ConnId -> Users]
  /\ EndsOnClose \in BOOLEAN /\ Faults \subseteq {"bind", "abort", "drop"}

VARIABLES
  \* the registry
  bound,     \* tcp_ports: the connection each port is bound to
  clients,   \* connections that have a sender
  pending,   \* streams with a sender in the pending table
  events,    \* the event channel of each stream
  active,    \* streams: what stream_acquire has counted for each user
  \* relay.rs
  listener,  \* the connection and the user a port's listener was started for
  vis,       \* where the handle_conn of a visitor is
  writer,    \* its writer task
  goal,      \* the listener's values handle_conn was started with
  up, got,   \* chunks the visitor has sent, and has been given
  \* the control connections and the client
  link,      \* none, prepared (port allocated), up, down (lost, not noticed), closed
  to_client, to_server,
  work,      \* what the client does with a stream
  sent,      \* chunks the local service has answered
  local      \* chunks the local service has received, or that wait for it

regVars   == <<bound, clients, pending, events, active>>
relayVars == <<listener, vis, writer, goal, up, got>>
connVars  == <<link, to_client, to_server, work, sent, local>>
vars      == <<regVars, relayVars, connVars>>

NoListener == [conn |-> None, user |-> None]

Init ==
  /\ bound = [p \in Ports |-> None] /\ clients = {} /\ pending = {}
  /\ events = [v \in Visitors |-> <<>>]
  /\ active = [u \in Users \cup {None} |-> 0]
  /\ listener = [p \in Ports |-> NoListener]
  /\ vis = [v \in Visitors |-> "new"] /\ writer = [v \in Visitors |-> "none"]
  /\ goal = [v \in Visitors |-> NoListener]
  /\ up = [v \in Visitors |-> 0] /\ got = [v \in Visitors |-> 0]
  /\ link = [c \in ConnId |-> "none"]
  /\ to_client = [c \in ConnId |-> <<>>] /\ to_server = [c \in ConnId |-> <<>>]
  /\ work = [v \in Visitors |-> "none"]
  /\ sent = [v \in Visitors |-> 0] /\ local = [v \in Visitors |-> 0]

-----------------------------------------------------------------------------
(* AppState and Registry.                                                  *)

CanAcquire(u) == active[u] < MaxStreams

\* stream_release never goes below zero.
Release(u) == active' = [active EXCEPT ![u] = IF @ > 0 THEN @ - 1 ELSE 0]

\* send_to_conn reaches the client only over a link that holds.
SendToConn(v, kind) ==
  LET c == goal[v].conn IN
  to_client' = IF c \in clients /\ link[c] = "up"
                 THEN [to_client EXCEPT ![c] = Append(@, [stream |-> v, kind |-> kind])]
                 ELSE to_client

\* route_event: the send fails when the writer, which has the receiver, is over.
RouteEvent(v, kind) ==
  events' = IF v \in pending /\ writer[v] = "running"
              THEN [events EXCEPT ![v] = Append(@, kind)] ELSE events

\* tcp_bindings: a port is listed as soon as it is allocated; its user is known
\* only once the connection is registered.
Wanted(p) ==
  IF bound[p] = None THEN NoListener
  ELSE [conn |-> bound[p], user |-> IF bound[p] \in clients THEN Owner[bound[p]] ELSE None]

-----------------------------------------------------------------------------
(* Register on the relay, in the two steps other tasks can see.            *)

PrepareTcp(c) ==
  /\ link[c] = "none" /\ \A d \in ConnId : d < c => link[d] # "none"
  /\ \/ \E p \in Ports :
          /\ bound[p] = None /\ \A q \in Ports : q < p => bound[q] # None
          /\ bound' = [bound EXCEPT ![p] = c]
     \/ (\A p \in Ports : bound[p] # None) /\ UNCHANGED bound
  /\ link' = [link EXCEPT ![c] = "prepared"]
  /\ UNCHANGED <<clients, pending, events, active, relayVars, to_client, to_server, work, sent, local>>

RegisterClient(c) ==
  /\ link[c] = "prepared"
  /\ clients' = clients \cup {c}
  /\ link' = [link EXCEPT ![c] = "up"]
  /\ UNCHANGED <<bound, pending, events, active, relayVars, to_client, to_server, work, sent, local>>

LinkLost(c) ==
  /\ "drop" \in Faults
  /\ link[c] = "up"
  /\ link' = [link EXCEPT ![c] = "down"]
  /\ to_client' = [to_client EXCEPT ![c] = <<>>]
  /\ work' = [v \in Visitors |-> IF goal[v].conn = c THEN "over" ELSE work[v]]
  /\ UNCHANGED <<regVars, relayVars, to_server, sent, local>>

\* Mutant: the ports are released, the sender stays.
ServerClosesKeepsSender(c) ==
  /\ link[c] = "down"
  /\ link' = [link EXCEPT ![c] = "closed"]
  /\ to_server' = [to_server EXCEPT ![c] = <<>>]
  /\ bound' = [p \in Ports |-> IF bound[p] = c THEN None ELSE bound[p]]
  /\ UNCHANGED <<clients, pending, events, active, relayVars, to_client, work, sent, local>>

\* remove_client; the pending table is not touched.
ServerCloses(c) ==
  /\ link[c] = "down"
  /\ link' = [link EXCEPT ![c] = "closed"]
  /\ to_server' = [to_server EXCEPT ![c] = <<>>]
  /\ clients' = clients \ {c}
  /\ bound' = [p \in Ports |-> IF bound[p] = c THEN None ELSE bound[p]]
  /\ UNCHANGED <<pending, events, active, relayVars, to_client, work, sent, local>>

-----------------------------------------------------------------------------
(* relay::run.                                                             *)

\* One round of the loop: listeners of ports no longer bound are aborted, ports
\* without a listener get one; a port that has one keeps it as it is.  Binding
\* may fail, and is tried again the next round.
Poll ==
  /\ \E failed \in (IF "bind" \in Faults THEN SUBSET Ports ELSE {{}}) :
       listener' = [p \in Ports |->
                      IF bound[p] # None /\ listener[p] # NoListener THEN listener[p]
                      ELSE IF p \in failed THEN NoListener ELSE Wanted(p)]
  /\ UNCHANGED <<regVars, vis, writer, goal, up, got, connVars>>

\* A visitor's connection is accepted: handle_conn is spawned.
Accept(v) ==
  /\ vis[v] = "new"
  /\ \E p \in Ports : listener[p] # NoListener /\ goal' = [goal EXCEPT ![v] = listener[p]]
  /\ vis' = [vis EXCEPT ![v] = "accepted"]
  /\ UNCHANGED <<regVars, listener, writer, up, got, connVars>>

-----------------------------------------------------------------------------
(* handle_conn.                                                            *)

Goto(v, s) == vis' = [vis EXCEPT ![v] = s]

Refuse(v) ==
  /\ vis[v] = "accepted" /\ ~CanAcquire(goal[v].user)
  /\ Goto(v, "refused")
  /\ UNCHANGED <<regVars, listener, writer, goal, up, got, connVars>>

AcquireAndInsert(v) ==
  /\ vis[v] = "accepted" /\ CanAcquire(goal[v].user)
  /\ active' = [active EXCEPT ![goal[v].user] = @ + 1]
  /\ pending' = pending \cup {v}
  /\ Goto(v, "opening")
  /\ UNCHANGED <<bound, clients, events, listener, writer, goal, up, got, connVars>>

SendOpen(v) ==
  /\ vis[v] = "opening" /\ goal[v].conn \in clients
  /\ SendToConn(v, "open")
  /\ Goto(v, "reading")
  /\ writer' = [writer EXCEPT ![v] = "running"]
  /\ UNCHANGED <<regVars, listener, goal, up, got, link, to_server, work, sent, local>>

\* Mutant: an early return without stream_release.
ClientOfflineKeepsSlot(v) ==
  /\ vis[v] = "opening" /\ goal[v].conn \notin clients
  /\ pending' = pending \ {v}
  /\ Goto(v, "done")
  /\ UNCHANGED <<bound, clients, events, active, listener, writer, goal, up, got, connVars>>

ClientOffline(v) ==
  /\ vis[v] = "opening" /\ goal[v].conn \notin clients
  /\ pending' = pending \ {v}
  /\ Release(goal[v].user)
  /\ Goto(v, "done")
  /\ UNCHANGED <<bound, clients, events, listener, writer, goal, up, got, connVars>>

\* The reading loop: bytes of the visitor, each read sent on whether or not the
\* connection still exists.
ReadChunk(v) ==
  /\ vis[v] = "reading" /\ up[v] < MaxChunks
  /\ up' = [up EXCEPT ![v] = @ + 1]
  /\ SendToConn(v, "chunk")
  /\ UNCHANGED <<regVars, listener, vis, writer, goal, got, link, to_server, work, sent, local>>

\* The visitor closes its side: the client is told, the writer is awaited.
ReadEof(v) ==
  /\ vis[v] = "reading"
  /\ SendToConn(v, "close")
  /\ Goto(v, "closing")
  /\ UNCHANGED <<regVars, listener, writer, goal, up, got, link, to_server, work, sent, local>>

Finish(v) ==
  /\ vis[v] = "closing" /\ writer[v] \in {"over", "broken"}
  /\ pending' = pending \ {v}
  /\ Release(goal[v].user)
  /\ Goto(v, "done")
  /\ UNCHANGED <<bound, clients, events, listener, writer, goal, up, got, connVars>>

\* Mutant: what arrives after the visitor has closed its side is dropped.
WriteUntilHangup(v) ==
  /\ writer[v] = "running" /\ events[v] # <<>>
  /\ events' = [events EXCEPT ![v] = Tail(@)]
  /\ IF Head(events[v]) = "chunk"
       THEN got' = [got EXCEPT ![v] = IF vis[v] = "closing" THEN @ ELSE @ + 1] /\ UNCHANGED writer
       ELSE writer' = [writer EXCEPT ![v] = "over"] /\ UNCHANGED got
  /\ UNCHANGED <<bound, clients, pending, active, listener, vis, goal, up, connVars>>

\* The writer task: one event.  End and Abort end it, and so may a chunk for a
\* visitor that has closed the connection.
Write(v) ==
  /\ writer[v] = "running" /\ events[v] # <<>>
  /\ events' = [events EXCEPT ![v] = Tail(@)]
  /\ \/ /\ Head(events[v]) = "chunk"
        /\ got' = [got EXCEPT ![v] = @ + 1]
        /\ UNCHANGED writer
     \/ /\ Head(events[v]) = "chunk" /\ vis[v] = "closing"
        /\ writer' = [writer EXCEPT ![v] = "broken"]
        /\ UNCHANGED got
     \/ /\ Head(events[v]) \in {"end", "abort"}
        /\ writer' = [writer EXCEPT ![v] = "over"]
        /\ UNCHANGED got
  /\ UNCHANGED <<bound, clients, pending, active, listener, vis, goal, up, connVars>>

-----------------------------------------------------------------------------
(* handle_socket, for the frames of TCP streams.                           *)

TakeFrame(c) ==
  /\ link[c] \in {"up", "down"} /\ to_server[c] # <<>>
  /\ to_server' = [to_server EXCEPT ![c] = Tail(@)]
  /\ RouteEvent(Head(to_server[c]).stream, Head(to_server[c]).kind)
  /\ UNCHANGED <<bound, clients, relayVars, link, to_client, work, sent, local>>

RecvChunk(c) ==
  /\ TakeFrame(c)
  /\ Head(to_server[c]).kind = "chunk"
  /\ UNCHANGED <<pending, active>>

\* End and Abort: take_pending, and stream_release for the connection's user.
RecvEndOrAbort(c) ==
  /\ TakeFrame(c)
  /\ Head(to_server[c]).kind \in {"end", "abort"}
  /\ pending' = pending \ {Head(to_server[c]).stream}
  /\ Release(Owner[c])

-----------------------------------------------------------------------------
(* The client: onOpenStream and Forwarder::startTcp, or handleTcpStream.   *)

Up(v) == goal[v].conn \in ConnId /\ link[goal[v].conn] = "up"

SendFrame(v, kind) ==
  to_server' = [to_server EXCEPT ![goal[v].conn] = Append(@, [stream |-> v, kind |-> kind])]

Works(v, s) == work' = [work EXCEPT ![v] = s]

\* Mutant: bytes that come before the local connection is made are dropped.
TakesBytesOnceOpen(v) == work[v] = "open"

\* Chunks wait while the local connection is being made.
TakesBytes(v) == work[v] \in {"connecting", "open"}

\* Mutant: a CloseStream before the local connection is made is forgotten.
AfterCloseOfOpen(v) == IF work[v] = "open" THEN "closing" ELSE work[v]

\* A CloseStream that comes before the local connection is made is remembered.
AfterClose(v) ==
  CASE work[v] = "connecting" -> "doomed"
    [] work[v] = "open"       -> "closing"
    [] OTHER                  -> work[v]

\* One message of the server.
ClientTakes(c) ==
  /\ link[c] = "up" /\ to_client[c] # <<>>
  /\ to_client' = [to_client EXCEPT ![c] = Tail(@)]
  /\ LET m == Head(to_client[c]) v == m.stream IN
       \/ /\ m.kind = "open" /\ Works(v, "connecting") /\ UNCHANGED local
       \/ /\ m.kind = "chunk"
          /\ local' = [local EXCEPT ![v] = IF TakesBytes(v) THEN @ + 1 ELSE @]
          /\ UNCHANGED work
       \/ /\ m.kind = "close"
          /\ Works(v, AfterClose(v))
          /\ UNCHANGED local
  /\ UNCHANGED <<regVars, relayVars, link, to_server, sent>>

LocalConnects(v) ==
  /\ Up(v)
  /\ \/ work[v] = "connecting" /\ Works(v, "open")
     \/ work[v] = "doomed" /\ Works(v, "closing")
  /\ UNCHANGED <<regVars, relayVars, link, to_client, to_server, sent, local>>

Abort(v) ==
  /\ "abort" \in Faults /\ Up(v)
  /\ SendFrame(v, "abort")
  /\ Works(v, "over")
  /\ UNCHANGED <<regVars, relayVars, link, to_client, sent, local>>

\* Unknown tunnel, or the local service cannot be reached.
ClientAbort(v) == work[v] \in {"connecting", "doomed"} /\ Abort(v)

\* With Qt, an error of the open socket.
SocketError(v) == EndsOnClose /\ work[v] \in {"open", "closing"} /\ Abort(v)

LocalChunk(v) ==
  /\ Up(v) /\ work[v] \in {"open", "closing"} /\ sent[v] < MaxChunks
  /\ SendFrame(v, "chunk")
  /\ sent' = [sent EXCEPT ![v] = @ + 1]
  /\ UNCHANGED <<regVars, relayVars, link, to_client, work, local>>

\* The local service closes the connection.
LocalEnds(v) ==
  /\ Up(v) /\ work[v] = "open"
  /\ SendFrame(v, "end")
  /\ Works(v, "over")
  /\ UNCHANGED <<regVars, relayVars, link, to_client, sent, local>>

\* The client has closed it for the visitor: the Qt client's socket reports
\* disconnected and an End is sent; the lite client has `closed` set and sends none.
ClosedForVisitor(v) ==
  /\ Up(v) /\ work[v] = "closing"
  /\ IF EndsOnClose THEN SendFrame(v, "end") ELSE UNCHANGED to_server
  /\ Works(v, "over")
  /\ UNCHANGED <<regVars, relayVars, link, to_client, sent, local>>

-----------------------------------------------------------------------------

HandleConn(v) ==
  \/ Refuse(v) \/ AcquireAndInsert(v) \/ SendOpen(v) \/ ClientOffline(v) \/ Finish(v)

VisitorStep(v) == Accept(v) \/ ReadChunk(v) \/ ReadEof(v)

ClientStep(v) == SocketError(v) \/ LocalChunk(v) \/ LocalEnds(v) \/ ClosedForVisitor(v)

ServerRecv(c) == RecvChunk(c) \/ RecvEndOrAbort(c)

Next ==
  \/ Poll
  \/ \E v \in Visitors :
       \/ VisitorStep(v) \/ HandleConn(v) \/ Write(v)
       \/ LocalConnects(v) \/ ClientAbort(v) \/ ClientStep(v)
  \/ \E c \in ConnId :
       \/ PrepareTcp(c) \/ RegisterClient(c) \/ LinkLost(c) \/ ServerCloses(c)
       \/ ServerRecv(c) \/ ClientTakes(c)

Spec == Init /\ [][Next]_vars

\* The poll, the tasks and the client's loop run on; a local service answers a
\* connect.  Nobody owes anybody a connection, a byte or a close.
Fairness ==
  /\ WF_vars(Poll)
  /\ \A v \in Visitors :
       /\ WF_vars(HandleConn(v)) /\ WF_vars(Write(v))
       /\ WF_vars(LocalConnects(v) \/ ClientAbort(v)) /\ WF_vars(ClosedForVisitor(v))
  /\ \A c \in ConnId :
       /\ WF_vars(RegisterClient(c)) /\ WF_vars(ServerCloses(c))
       /\ WF_vars(ServerRecv(c)) /\ WF_vars(ClientTakes(c))

FairSpec == Spec /\ Fairness

-----------------------------------------------------------------------------
(* Properties.                                                             *)

\* The handle_conn tasks that have acquired a slot and not given it back.
Holding(u) == {v \in Visitors : goal[v].user = u /\ vis[v] \in {"opening", "reading", "closing"}}

\* No path of handle_conn forgets a slot: what is counted for a user never
\* exceeds the tasks that still hold one.
SlotsAccounted == \A u \in Users \cup {None} : active[u] <= Cardinality(Holding(u))

\* Both directions are complete, however the two sides' closes overlap and whatever
\* happens to other streams of the link.  When the writer ends regularly its visitor
\* has been given every byte the local service sent; when the client closes a local
\* connection for its visitor every byte of the visitor has been written first, those
\* that came before the local connection was made included.
CompleteTransfer ==
  \A v \in Visitors :
    /\ writer[v] = "over" => got[v] = sent[v]
    /\ work[v] = "closing" => local[v] = up[v]

\* A listener leads to the connection its port is bound to or to one that is
\* closed, never to another connection that is alive: a poll that is late or
\* fails never hands a visitor to somebody else's tunnel.
ListenersNeverCross ==
  \A p \in Ports : listener[p].conn \in clients => bound[p] = listener[p].conn

\* A visitor that closes its side of a stream is done with it, its slot
\* returned, as long as the link of the connection holds.
HangupEndsStream ==
  \A v \in Visitors : vis[v] = "closing" ~> vis[v] = "done" \/ ~Up(v)
=============================================================================
