----------------------------- MODULE RelayProofs -----------------------------
(***************************************************************************)
(* The relay for every pool of ports, every number of users, connections,  *)
(* visitors and chunks, both clients, and whatever faults: which listener  *)
(* leads where, what is counted for a user, and that both directions of a  *)
(* stream are complete.                                                    *)
(***************************************************************************)
EXTENDS Relay, QueueLemmas, TLAPS

MsgSet   == [stream : Visitors, kind : {"open", "chunk", "close"}]
FrameSet == [stream : Visitors, kind : {"chunk", "end", "abort"}]
EventSet == {"chunk", "end", "abort"}
Goals    == [conn : ConnId \cup {None}, user : Users \cup {None}]

TypeOK ==
  /\ bound \in [Ports -> ConnId \cup {None}]
  /\ clients \subseteq ConnId /\ pending \subseteq Visitors
  /\ events \in [Visitors -> Seq(EventSet)]
  /\ active \in [Users \cup {None} -> Nat]
  /\ listener \in [Ports -> Goals]
  /\ vis \in [Visitors -> {"new", "accepted", "refused", "opening", "reading", "closing", "done"}]
  /\ writer \in [Visitors -> {"none", "running", "over", "broken"}]
  /\ goal \in [Visitors -> Goals]
  /\ up \in [Visitors -> Nat] /\ got \in [Visitors -> Nat]
  /\ link \in [ConnId -> {"none", "prepared", "up", "down", "closed"}]
  /\ to_client \in [ConnId -> Seq(MsgSet)]
  /\ to_server \in [ConnId -> Seq(FrameSet)]
  /\ work \in [Visitors -> {"none", "connecting", "doomed", "open", "closing", "over"}]
  /\ sent \in [Visitors -> Nat] /\ local \in [Visitors -> Nat]

-----------------------------------------------------------------------------
(* Which listener leads where.                                             *)

Live == {"prepared", "up", "down"}

\* A port is bound to a connection that has not been closed; a connection that has
\* had a listener and is not closed still has the port.
Bindings ==
  /\ \A c \in ConnId : c \in clients <=> link[c] \in {"up", "down"}
  /\ \A p \in Ports : bound[p] # None => link[bound[p]] \in Live
  /\ \A p \in Ports : listener[p].conn # None =>
       /\ link[listener[p].conn] # "none"
       /\ link[listener[p].conn] \in Live => bound[p] = listener[p].conn

-----------------------------------------------------------------------------
(* What is on its way between the server and the client.                   *)

Message(v, kind) == [stream |-> v, kind |-> kind]

\* Stream v has something in queue q.
Uses(v, q)    == \E i \in 1 .. Len(q) : q[i].stream = v
NoMessages(v) == \A c \in ConnId : ~Uses(v, to_client[c])
NoFrames(v)   == \A c \in ConnId : ~Uses(v, to_server[c])

\* A stream that has not been opened is unknown to the client, which may have lost
\* its link meanwhile.
Unopened(v) == writer[v] = "none" =>
  /\ vis[v] \notin {"reading", "closing"}
  /\ \/ work[v] = "none"
     \/ work[v] = "over" /\ goal[v].conn # None /\ link[goal[v].conn] \in {"down", "closed"}
  /\ sent[v] = 0 /\ got[v] = 0 /\ up[v] = 0 /\ local[v] = 0 /\ events[v] = <<>>
  /\ NoMessages(v) /\ NoFrames(v)

Opened(v) ==
  /\ vis[v] = "new" => goal[v].conn = None
  /\ writer[v] # "none" =>
       /\ vis[v] \in {"reading", "closing", "done"}
       /\ goal[v].conn # None /\ link[goal[v].conn] \in {"up", "down", "closed"}

\* OpenStream comes before every other message of its stream, CloseStream behind.
MessageRight(c, i) ==
  LET m == to_client[c][i]
      v == m.stream
  IN  /\ goal[v].conn = c
      /\ m.kind = "open" => /\ work[v] = "none"
                            /\ \A j \in 1 .. i - 1 : to_client[c][j].stream # v
      /\ m.kind = "close" => /\ vis[v] # "reading" /\ work[v] \notin {"doomed", "closing"}
                             /\ \A j \in i + 1 .. Len(to_client[c]) : to_client[c][j].stream # v

MessagesRight ==
  \A c \in ConnId :
    /\ link[c] # "up" => to_client[c] = <<>>
    /\ \A i \in 1 .. Len(to_client[c]) : MessageRight(c, i)

\* While the link holds, what the visitor has sent has arrived or is on its way.
BytesIn(v) ==
  /\ work[v] \notin {"none", "over"} => Up(v)
  /\ work[v] = "none" /\ Up(v) /\ writer[v] # "none" =>
       Occurs(to_client[goal[v].conn], Message(v, "open")) # 0
  /\ work[v] \in {"doomed", "closing"} => vis[v] # "reading" /\ NoMessages(v)
  /\ work[v] # "over" /\ Up(v) =>
       local[v] + Occurs(to_client[goal[v].conn], Message(v, "chunk")) = up[v]

IsEnd(kind)  == kind \in {"end", "abort"}
EndQueued(v) == \E i \in 1 .. Len(events[v]) : IsEnd(events[v][i])

\* End and Abort are the last frames of their stream.
FrameRight(c, i) ==
  LET f == to_server[c][i]
      v == f.stream
  IN  /\ goal[v].conn = c
      /\ IsEnd(f.kind) => /\ work[v] = "over"
                          /\ \A j \in i + 1 .. Len(to_server[c]) : to_server[c][j].stream # v

FramesRight == \A c \in ConnId : \A i \in 1 .. Len(to_server[c]) : FrameRight(c, i)

EndIsLast(v) ==
  \A i \in 1 .. Len(events[v]) :
    IsEnd(events[v][i]) => i = Len(events[v]) /\ work[v] = "over" /\ NoFrames(v)

\* A running writer is sent what comes, up to an End.  Until the connection is closed,
\* and behind an End, what the local service has sent is there or on its way.
BytesOut(v) ==
  /\ vis[v] = "opening" => v \in pending
  /\ writer[v] = "running" /\ v \notin pending => EndQueued(v)
  /\ EndIsLast(v)
  /\ writer[v] = "running" /\ (EndQueued(v) \/ link[goal[v].conn] \in {"up", "down"}) =>
       got[v] + Occurs(events[v], "chunk")
              + Occurs(to_server[goal[v].conn], Message(v, "chunk")) = sent[v]
  /\ writer[v] = "over" => got[v] = sent[v] /\ work[v] = "over"

StreamRight(v) == Unopened(v) /\ Opened(v) /\ BytesIn(v) /\ BytesOut(v)

Transfers == MessagesRight /\ FramesRight /\ \A v \in Visitors : StreamRight(v)

IInv == TypeOK /\ Bindings /\ SlotsAccounted /\ Transfers

-----------------------------------------------------------------------------
(* Types.                                                                  *)

LEMMA Basics ==
  ASSUME TypeOK
  PROVE  /\ None \notin ConnId /\ ConnId \subseteq Nat
         /\ \A v \in Visitors : goal[v].conn \in ConnId \cup {None}
                                /\ goal[v].user \in Users \cup {None}
         /\ \A c \in ConnId : Owner[c] \in Users
BY RelayAssumption DEF TypeOK, Goals, ConnId, None

LEMMA Messages ==
  ASSUME NEW v \in Visitors, NEW w
  PROVE  /\ \A kind \in {"open", "chunk", "close"} : Message(v, kind) \in MsgSet
         /\ \A kind \in {"chunk", "end", "abort"} : Message(v, kind) \in FrameSet
         /\ \A k : Message(v, k).stream = v /\ Message(v, k).kind = k
         /\ \A k, j : Message(v, k) = Message(w, j) => v = w /\ k = j
BY DEF Message, MsgSet, FrameSet

LEMMA QueueTypes ==
  ASSUME TypeOK, NEW c \in ConnId
  PROVE  /\ to_client[c] \in Seq(MsgSet) /\ to_server[c] \in Seq(FrameSet)
         /\ Len(to_client[c]) \in Nat /\ Len(to_server[c]) \in Nat
         /\ \A i \in 1 .. Len(to_client[c]) :
              /\ to_client[c][i].stream \in Visitors
              /\ to_client[c][i] = Message(to_client[c][i].stream, to_client[c][i].kind)
         /\ \A i \in 1 .. Len(to_server[c]) :
              /\ to_server[c][i].stream \in Visitors
              /\ to_server[c][i] = Message(to_server[c][i].stream, to_server[c][i].kind)
<1>1. to_client[c] \in Seq(MsgSet) /\ to_server[c] \in Seq(FrameSet)
  BY DEF TypeOK
<1>2. /\ \A i \in 1 .. Len(to_client[c]) : to_client[c][i] \in MsgSet
      /\ \A i \in 1 .. Len(to_server[c]) : to_server[c][i] \in FrameSet
  BY <1>1, ElementOf
<1>3. /\ \A m \in MsgSet : m.stream \in Visitors /\ m = Message(m.stream, m.kind)
      /\ \A m \in FrameSet : m.stream \in Visitors /\ m = Message(m.stream, m.kind)
  BY DEF MsgSet, FrameSet, Message
<1> QED
  BY <1>1, <1>2, <1>3

\* send_to_conn: what it does to the queues.
LEMMA Sends ==
  ASSUME TypeOK, NEW v \in Visitors, NEW kind \in {"open", "chunk", "close"}, SendToConn(v, kind)
  PROVE  /\ to_client' \in [ConnId -> Seq(MsgSet)]
         /\ goal[v].conn \in clients /\ link[goal[v].conn] = "up" =>
              /\ to_client'[goal[v].conn] = Append(to_client[goal[v].conn], Message(v, kind))
              /\ \A d \in ConnId \ {goal[v].conn} : to_client'[d] = to_client[d]
         /\ ~(goal[v].conn \in clients /\ link[goal[v].conn] = "up") => to_client' = to_client
<1>1. CASE ~(goal[v].conn \in clients /\ link[goal[v].conn] = "up")
  BY <1>1 DEF SendToConn, TypeOK
<1>2. CASE goal[v].conn \in clients /\ link[goal[v].conn] = "up"
  <2>1. PICK c \in ConnId, m \in MsgSet : c = goal[v].conn /\ m = Message(v, kind)
    BY <1>2, Messages DEF TypeOK
  <2>2. to_client' = [to_client EXCEPT ![c] = Append(@, m)]
    BY <1>2, <2>1 DEF SendToConn, Message
  <2>3. to_client[c] \in Seq(MsgSet) /\ to_client \in [ConnId -> Seq(MsgSet)]
    BY <2>1 DEF TypeOK
  <2>4. Append(to_client[c], m) \in Seq(MsgSet)
    BY <2>1, <2>3, Appended
  <2> QED
    BY <1>2, <2>1, <2>2, <2>3, <2>4
<1> QED
  BY <1>1, <1>2

\* What the client sends.
LEMMA ClientSends ==
  ASSUME TypeOK, NEW v \in Visitors, NEW kind \in {"chunk", "end", "abort"}, Up(v), SendFrame(v, kind)
  PROVE  /\ to_server' \in [ConnId -> Seq(FrameSet)] /\ goal[v].conn \in ConnId
         /\ to_server'[goal[v].conn] = Append(to_server[goal[v].conn], Message(v, kind))
         /\ \A d \in ConnId \ {goal[v].conn} : to_server'[d] = to_server[d]
<1>1. PICK c \in ConnId, m \in FrameSet : c = goal[v].conn /\ m = Message(v, kind)
  BY Messages DEF Up
<1>2. to_server' = [to_server EXCEPT ![c] = Append(@, m)]
  BY <1>1 DEF SendFrame, Message
<1>3. to_server[c] \in Seq(FrameSet) /\ to_server \in [ConnId -> Seq(FrameSet)]
  BY <1>1 DEF TypeOK
<1>4. Append(to_server[c], m) \in Seq(FrameSet)
  BY <1>1, <1>3, Appended
<1> QED
  BY <1>1, <1>2, <1>3, <1>4

LEMMA InitType == Init => TypeOK
BY DEF Init, TypeOK, NoListener, Goals, None

LEMMA PollType == TypeOK /\ Poll => TypeOK'
<1> SUFFICES ASSUME TypeOK, Poll PROVE TypeOK'
  OBVIOUS
<1>1. \A p \in Ports : Wanted(p) \in Goals
  <2> SUFFICES ASSUME NEW p \in Ports PROVE Wanted(p) \in Goals
    OBVIOUS
  <2>1. bound[p] # None => Owner[bound[p]] \in Users /\ bound[p] \in ConnId
    BY Basics DEF TypeOK
  <2> QED
    BY <2>1 DEF Wanted, Goals, NoListener
<1>2. listener' \in [Ports -> Goals]
  <2>1. NoListener \in Goals
    BY DEF NoListener, Goals
  <2> QED
    BY <1>1, <2>1 DEF Poll, TypeOK
<1> QED
  BY <1>2 DEF Poll, TypeOK, regVars, connVars

LEMMA LinkType ==
  ASSUME TypeOK, NEW c \in ConnId,
         PrepareTcp(c) \/ RegisterClient(c) \/ LinkLost(c) \/ ServerCloses(c)
  PROVE  TypeOK'
<1>1. CASE PrepareTcp(c)
  BY <1>1 DEF TypeOK, PrepareTcp, relayVars
<1>2. CASE RegisterClient(c)
  BY <1>2 DEF TypeOK, RegisterClient, relayVars
<1>3. CASE LinkLost(c)
  BY <1>3 DEF TypeOK, LinkLost, regVars, relayVars
<1>4. CASE ServerCloses(c)
  BY <1>4 DEF TypeOK, ServerCloses, relayVars
<1> QED
  BY <1>1, <1>2, <1>3, <1>4

LEMMA HandlerType ==
  ASSUME TypeOK, NEW v \in Visitors, VisitorStep(v) \/ HandleConn(v)
  PROVE  TypeOK'
<1> USE DEF Goto
<1>a. /\ goal[v].user \in Users \cup {None} /\ active[goal[v].user] \in Nat
      /\ active \in [Users \cup {None} -> Nat]
  BY Basics DEF TypeOK
<1>b. Release(goal[v].user) => active' \in [Users \cup {None} -> Nat]
  BY <1>a DEF Release
<1>1. CASE Accept(v)
  BY <1>1 DEF TypeOK, Accept, regVars, connVars
<1>2. CASE ReadChunk(v)
  BY SMTT(30), <1>2, Sends DEF TypeOK, ReadChunk, regVars
<1>3. CASE ReadEof(v)
  BY <1>3, Sends DEF TypeOK, ReadEof, regVars
<1>4. CASE Refuse(v)
  BY <1>4 DEF TypeOK, Refuse, regVars, connVars
<1>5. CASE AcquireAndInsert(v)
  <2>1. active' \in [Users \cup {None} -> Nat]
    BY <1>5, <1>a DEF AcquireAndInsert
  <2> QED
    BY <1>5, <2>1 DEF TypeOK, AcquireAndInsert, connVars
<1>6. CASE SendOpen(v)
  BY <1>6, Sends DEF TypeOK, SendOpen, regVars
<1>7. CASE ClientOffline(v)
  BY <1>7, <1>b DEF TypeOK, ClientOffline, connVars
<1>8. CASE Finish(v)
  BY <1>8, <1>b DEF TypeOK, Finish, connVars
<1> QED
  BY <1>1, <1>2, <1>3, <1>4, <1>5, <1>6, <1>7, <1>8 DEF VisitorStep, HandleConn

LEMMA WriteType == ASSUME TypeOK, NEW v \in Visitors, Write(v) PROVE TypeOK'
<1>1. events' \in [Visitors -> Seq(EventSet)]
  BY TailOf DEF TypeOK, Write
<1>2. got' \in [Visitors -> Nat] /\ writer' \in [Visitors -> {"none", "running", "over", "broken"}]
  <2>1. /\ got \in [Visitors -> Nat] /\ got[v] + 1 \in Nat
        /\ writer \in [Visitors -> {"none", "running", "over", "broken"}]
    BY DEF TypeOK
  <2>2. \/ got' = [got EXCEPT ![v] = got[v] + 1] /\ writer' = writer
        \/ got' = got /\ writer' = [writer EXCEPT ![v] = "broken"]
        \/ got' = got /\ writer' = [writer EXCEPT ![v] = "over"]
    BY DEF Write
  <2>3. got' \in [Visitors -> Nat]
    BY <2>1, <2>2
  <2>4. writer' \in [Visitors -> {"none", "running", "over", "broken"}]
    BY <2>1, <2>2
  <2> QED
    BY <2>3, <2>4
<1>3. UNCHANGED <<bound, clients, pending, active, listener, vis, goal, up, connVars>>
  BY DEF Write
<1> QED
  BY <1>1, <1>2, <1>3 DEF TypeOK, connVars

\* What the server's next frame leaves behind.
LEMMA Taken ==
  ASSUME TypeOK, NEW c \in ConnId, TakeFrame(c)
  PROVE  /\ to_server[c] # <<>> /\ to_server[c] \in Seq(FrameSet)
         /\ Head(to_server[c]) = to_server[c][1] /\ 1 \in 1 .. Len(to_server[c])
         /\ Head(to_server[c]).stream \in Visitors /\ Head(to_server[c]).kind \in EventSet
         /\ to_server'[c] = Tail(to_server[c])
         /\ \A d \in ConnId \ {c} : to_server'[d] = to_server[d]
         /\ to_server' \in [ConnId -> Seq(FrameSet)]
<1>1. to_server[c] \in Seq(FrameSet) /\ to_server \in [ConnId -> Seq(FrameSet)] /\ to_server[c] # <<>>
  BY DEF TypeOK, TakeFrame
<1>2. /\ Tail(to_server[c]) \in Seq(FrameSet) /\ Len(to_server[c]) \in Nat \ {0}
      /\ Head(to_server[c]) = to_server[c][1] /\ Head(to_server[c]) \in FrameSet
  BY <1>1, TailOf
<1>3. \A f \in FrameSet : f.stream \in Visitors /\ f.kind \in EventSet
  BY DEF FrameSet, EventSet
<1> QED
  BY <1>1, <1>2, <1>3 DEF TakeFrame

LEMMA ServerType == ASSUME TypeOK, NEW c \in ConnId, ServerRecv(c) PROVE TypeOK'
<1>1. TakeFrame(c)
  BY DEF ServerRecv, RecvChunk, RecvEndOrAbort
<1>2. PICK v \in Visitors, kind \in EventSet :
        v = Head(to_server[c]).stream /\ kind = Head(to_server[c]).kind
  BY <1>1, Taken
<1>3. events' \in [Visitors -> Seq(EventSet)]
  <2>1. Append(events[v], kind) \in Seq(EventSet)
    BY Appended DEF TypeOK
  <2> QED
    BY <1>1, <1>2, <2>1 DEF TypeOK, TakeFrame, RouteEvent
<1>4. pending' \subseteq Visitors /\ active' \in [Users \cup {None} -> Nat]
  <2>1. Owner[c] \in Users \cup {None} /\ active \in [Users \cup {None} -> Nat] /\ pending \subseteq Visitors
    BY Basics DEF TypeOK
  <2>2. active[Owner[c]] \in Nat
    BY <2>1
  <2>3. \/ pending' = pending /\ active' = active
        \/ pending' = pending \ {v}
           /\ active' = [active EXCEPT ![Owner[c]] = IF active[Owner[c]] > 0 THEN active[Owner[c]] - 1 ELSE 0]
    BY <1>2 DEF ServerRecv, RecvChunk, RecvEndOrAbort, Release
  <2>4. (IF active[Owner[c]] > 0 THEN active[Owner[c]] - 1 ELSE 0) \in Nat
    BY <2>2
  <2> QED
    BY <2>1, <2>3, <2>4
<1>5. UNCHANGED <<bound, clients, relayVars, link, to_client, work, sent, local>>
  BY <1>1 DEF TakeFrame
<1>6. to_server' \in [ConnId -> Seq(FrameSet)]
  BY <1>1, Taken
<1> QED
  BY <1>3, <1>4, <1>5, <1>6 DEF TypeOK, relayVars

LEMMA ClientTakesType == ASSUME TypeOK, NEW c \in ConnId, ClientTakes(c) PROVE TypeOK'
<1>1. to_client[c] \in Seq(MsgSet) /\ to_client[c] # <<>>
  BY DEF TypeOK, ClientTakes
<1>2. Tail(to_client[c]) \in Seq(MsgSet) /\ Head(to_client[c]) \in MsgSet
  BY <1>1, TailOf
<1>3. PICK v \in Visitors : v = Head(to_client[c]).stream
  BY <1>2 DEF MsgSet
<1>4. work' \in [Visitors -> {"none", "connecting", "doomed", "open", "closing", "over"}]
      /\ local' \in [Visitors -> Nat]
  <2>1. AfterClose(v) \in {"none", "connecting", "doomed", "open", "closing", "over"}
    BY DEF TypeOK, AfterClose
  <2>2. /\ work \in [Visitors -> {"none", "connecting", "doomed", "open", "closing", "over"}]
        /\ local \in [Visitors -> Nat] /\ local[v] + 1 \in Nat /\ local[v] \in Nat
    BY DEF TypeOK
  <2>3. /\ \/ work' = work
           \/ work' = [work EXCEPT ![v] = "connecting"]
           \/ work' = [work EXCEPT ![v] = AfterClose(v)]
        /\ \/ local' = local
           \/ local' = [local EXCEPT ![v] = local[v] + 1]
           \/ local' = [local EXCEPT ![v] = local[v]]
    BY <1>3 DEF ClientTakes, Works
  <2>4. work' \in [Visitors -> {"none", "connecting", "doomed", "open", "closing", "over"}]
    BY <2>1, <2>2, <2>3
  <2> QED
    BY <2>2, <2>3, <2>4
<1>5. UNCHANGED <<regVars, relayVars, link, to_server, sent>> /\ to_client' \in [ConnId -> Seq(MsgSet)]
  BY <1>2 DEF ClientTakes, TypeOK
<1> QED
  BY <1>4, <1>5 DEF TypeOK, regVars, relayVars

LEMMA ClientType ==
  ASSUME TypeOK, NEW v \in Visitors, LocalConnects(v) \/ ClientAbort(v) \/ ClientStep(v)
  PROVE  TypeOK'
<1> USE DEF Works
<1>1. CASE LocalConnects(v)
  BY <1>1 DEF TypeOK, LocalConnects, regVars, relayVars
<1>2. CASE Abort(v)
  BY <1>2, ClientSends DEF TypeOK, Abort, regVars, relayVars
<1>3. CASE LocalChunk(v)
  BY SMTT(30), <1>3, ClientSends DEF TypeOK, LocalChunk, regVars, relayVars
<1>4. CASE LocalEnds(v)
  BY <1>4, ClientSends DEF TypeOK, LocalEnds, regVars, relayVars
<1>5. CASE ClosedForVisitor(v)
  BY <1>5, ClientSends DEF TypeOK, ClosedForVisitor, regVars, relayVars
<1> QED
  BY <1>1, <1>2, <1>3, <1>4, <1>5 DEF ClientAbort, ClientStep, SocketError

LEMMA TypeInv == TypeOK /\ [Next]_vars => TypeOK'
<1>1. TypeOK /\ UNCHANGED vars => TypeOK'
  BY DEF vars, regVars, relayVars, connVars, TypeOK
<1> QED
  BY <1>1, PollType, LinkType, HandlerType, WriteType, ServerType, ClientTakesType, ClientType DEF Next

-----------------------------------------------------------------------------
(* Listeners.                                                              *)

LEMMA BindingsInv == TypeOK /\ Bindings /\ [Next]_vars => Bindings'
<1> SUFFICES ASSUME TypeOK, Bindings, [Next]_vars PROVE Bindings'
  OBVIOUS
<1>a. None \notin ConnId /\ \A p \in Ports : listener[p].conn \in ConnId \cup {None}
  BY Basics DEF TypeOK, Goals
<1>1. CASE Poll
  <2> SUFFICES ASSUME NEW p \in Ports, listener'[p].conn # None
               PROVE  /\ link[listener'[p].conn] # "none"
                      /\ link[listener'[p].conn] \in Live => bound[p] = listener'[p].conn
    BY <1>1 DEF Bindings, Poll, regVars, connVars
  <2>1. \/ listener'[p] = listener[p]
        \/ listener'[p] = NoListener
        \/ listener'[p] = Wanted(p)
    BY <1>1 DEF Poll
  <2>2. Wanted(p) = NoListener \/ (bound[p] # None /\ Wanted(p).conn = bound[p])
    BY DEF Wanted
  <2>3. NoListener.conn = None
    BY DEF NoListener
  <2> QED
    BY <2>1, <2>2, <2>3 DEF Bindings, Live
<1>2. ASSUME NEW c \in ConnId, PrepareTcp(c) PROVE Bindings'
  <2>1. /\ link[c] = "none" /\ link' = [link EXCEPT ![c] = "prepared"]
        /\ UNCHANGED <<clients, listener>>
        /\ \/ \E p \in Ports : bound[p] = None /\ bound' = [bound EXCEPT ![p] = c]
           \/ bound' = bound
    BY <1>2 DEF PrepareTcp, relayVars
  <2>2. \A d \in ConnId : link'[d] = IF d = c THEN "prepared" ELSE link[d]
    BY <2>1 DEF TypeOK
  <2>3. \A p \in Ports : bound'[p] = bound[p] \/ (bound[p] = None /\ bound'[p] = c)
    BY <2>1 DEF TypeOK
  <2>4. \A p \in Ports : bound[p] \in ConnId \cup {None}
    BY DEF TypeOK
  <2>5. \A d \in ConnId : d \in clients' <=> link'[d] \in {"up", "down"}
    BY <2>1, <2>2 DEF Bindings
  <2>6. \A p \in Ports : bound'[p] # None => link'[bound'[p]] \in Live
    BY <2>2, <2>3, <2>4 DEF Bindings, Live
  <2>7. \A p \in Ports : listener'[p].conn # None =>
          /\ link'[listener'[p].conn] # "none"
          /\ link'[listener'[p].conn] \in Live => bound'[p] = listener'[p].conn
    BY <1>a, <2>1, <2>2, <2>3 DEF Bindings, Live
  <2> QED
    BY <2>5, <2>6, <2>7 DEF Bindings
<1>3. ASSUME NEW c \in ConnId, RegisterClient(c) \/ LinkLost(c) PROVE Bindings'
  <2>1. /\ link[c] \in {"prepared", "up"} /\ UNCHANGED <<bound, listener>>
        /\ \/ link' = [link EXCEPT ![c] = "up"] /\ clients' = clients \cup {c}
           \/ link[c] = "up" /\ link' = [link EXCEPT ![c] = "down"] /\ clients' = clients
    BY <1>3 DEF RegisterClient, LinkLost, relayVars, regVars
  <2>2. \A d \in ConnId : IF d = c THEN link'[d] \in {"up", "down"} ELSE link'[d] = link[d]
    BY <2>1 DEF TypeOK
  <2>3. \A p \in Ports : bound[p] \in ConnId \cup {None}
    BY DEF TypeOK
  <2>4. \A d \in ConnId : d \in clients' <=> link'[d] \in {"up", "down"}
    BY <2>1, <2>2 DEF Bindings
  <2> QED
    BY <1>a, <2>1, <2>2, <2>3, <2>4 DEF Bindings, Live
<1>4. ASSUME NEW c \in ConnId, ServerCloses(c) PROVE Bindings'
  <2>1. /\ link' = [link EXCEPT ![c] = "closed"] /\ UNCHANGED listener
        /\ clients' = clients \ {c}
        /\ bound' = [p \in Ports |-> IF bound[p] = c THEN None ELSE bound[p]]
    BY <1>4 DEF ServerCloses, relayVars
  <2>2. \A d \in ConnId : link'[d] = IF d = c THEN "closed" ELSE link[d]
    BY <2>1 DEF TypeOK
  <2>3. \A p \in Ports : bound[p] \in ConnId \cup {None}
    BY DEF TypeOK
  <2> QED
    BY <1>a, <2>1, <2>2, <2>3 DEF Bindings, Live
<1>5. CASE UNCHANGED <<bound, clients, listener, link>>
  BY <1>5 DEF Bindings
<1>6. ASSUME NEW v \in Visitors, VisitorStep(v) \/ HandleConn(v) \/ Write(v)
      PROVE  UNCHANGED <<bound, clients, listener, link>>
  BY <1>6 DEF VisitorStep, Accept, ReadChunk, ReadEof, HandleConn, Refuse, AcquireAndInsert, SendOpen,
              ClientOffline, Finish, Write, regVars, connVars
<1>7. ASSUME NEW v \in Visitors, LocalConnects(v) \/ ClientAbort(v) \/ ClientStep(v)
      PROVE  UNCHANGED <<bound, clients, listener, link>>
  BY <1>7 DEF LocalConnects, ClientAbort, ClientStep, SocketError, Abort, LocalChunk, LocalEnds,
              ClosedForVisitor, regVars, relayVars
<1>8. ASSUME NEW c \in ConnId, ServerRecv(c) \/ ClientTakes(c)
      PROVE  UNCHANGED <<bound, clients, listener, link>>
  BY <1>8 DEF ServerRecv, RecvChunk, RecvEndOrAbort, TakeFrame, ClientTakes, regVars, relayVars
<1>9. CASE UNCHANGED vars
  BY <1>5, <1>9 DEF vars, regVars, relayVars, connVars
<1> QED
  BY <1>1, <1>2, <1>3, <1>4, <1>5, <1>6, <1>7, <1>8, <1>9 DEF Next

-----------------------------------------------------------------------------
(* Slots.                                                                  *)

LEMMA HoldingFinite ==
  ASSUME TypeOK, NEW u PROVE IsFiniteSet(Holding(u)) /\ Cardinality(Holding(u)) \in Nat
<1>1. Holding(u) \subseteq Visitors
  BY DEF Holding
<1> QED
  BY <1>1, FS_Subset, FS_CardinalityType, RelayAssumption

\* A task gives its slot back; the counter may have been lowered before.
LEMMA SlotReturned ==
  ASSUME TypeOK, SlotsAccounted, NEW v \in Visitors, Release(goal[v].user),
         vis[v] \in {"opening", "reading", "closing"}, Goto(v, "done"), goal' = goal
  PROVE  SlotsAccounted'
<1> SUFFICES ASSUME NEW u \in Users \cup {None} PROVE active'[u] <= Cardinality(Holding(u)')
  BY DEF SlotsAccounted
<1>1. /\ active[u] \in Nat /\ active[u] <= Cardinality(Holding(u))
      /\ IsFiniteSet(Holding(u)) /\ Cardinality(Holding(u)) \in Nat
  BY HoldingFinite DEF TypeOK, SlotsAccounted
<1>2. active'[u] = IF u = goal[v].user THEN (IF active[u] > 0 THEN active[u] - 1 ELSE 0) ELSE active[u]
  BY DEF Release, TypeOK
<1>3. Holding(u)' = IF u = goal[v].user THEN Holding(u) \ {v} ELSE Holding(u)
  BY DEF Holding, Goto, TypeOK
<1>4. CASE u = goal[v].user
  <2>1. v \in Holding(u)
    BY <1>4 DEF Holding
  <2>2. Cardinality(Holding(u) \ {v}) = Cardinality(Holding(u)) - 1
    BY <1>1, <2>1, FS_RemoveElement
  <2>3. Cardinality(Holding(u)) # 0
    BY <1>1, <2>1, FS_EmptySet
  <2> QED
    BY <1>1, <1>2, <1>3, <1>4, <2>2, <2>3
<1>5. CASE u # goal[v].user
  BY <1>1, <1>2, <1>3, <1>5
<1> QED
  BY <1>4, <1>5

LEMMA SlotTaken ==
  ASSUME TypeOK, SlotsAccounted, NEW v \in Visitors, AcquireAndInsert(v) PROVE SlotsAccounted'
<1> SUFFICES ASSUME NEW u \in Users \cup {None} PROVE active'[u] <= Cardinality(Holding(u)')
  BY DEF SlotsAccounted
<1>1. /\ active[u] \in Nat /\ active[u] <= Cardinality(Holding(u))
      /\ IsFiniteSet(Holding(u)) /\ Cardinality(Holding(u)) \in Nat
  BY HoldingFinite DEF TypeOK, SlotsAccounted
<1>2. active'[u] = IF u = goal[v].user THEN active[u] + 1 ELSE active[u]
  BY DEF AcquireAndInsert, TypeOK
<1>3. /\ v \notin Holding(u)
      /\ Holding(u)' = IF u = goal[v].user THEN Holding(u) \cup {v} ELSE Holding(u)
  BY DEF Holding, Goto, TypeOK, AcquireAndInsert
<1>4. Cardinality(Holding(u) \cup {v}) = Cardinality(Holding(u)) + 1
  BY <1>1, <1>3, FS_AddElement
<1> QED
  BY <1>1, <1>2, <1>3, <1>4

LEMMA SlotsInv == TypeOK /\ SlotsAccounted /\ [Next]_vars => SlotsAccounted'
<1> SUFFICES ASSUME TypeOK, SlotsAccounted, [Next]_vars PROVE SlotsAccounted'
  OBVIOUS
<1>1. CASE active' = active /\ \A u \in Users \cup {None} : Holding(u)' = Holding(u)
  BY <1>1 DEF SlotsAccounted
<1>2. ASSUME NEW v \in Visitors, Accept(v) \/ ReadChunk(v) \/ ReadEof(v) \/ Refuse(v) \/ SendOpen(v)
      PROVE  SlotsAccounted'
  <2>1. CASE Accept(v)
    <3>1. \A u \in Users \cup {None} : Holding(u)' = Holding(u)
      BY <2>1 DEF Accept, Holding, TypeOK
    <3> QED
      BY <1>1, <2>1, <3>1 DEF Accept, regVars
  <2>2. CASE ReadChunk(v) \/ ReadEof(v) \/ Refuse(v) \/ SendOpen(v)
    <3>1. \A u \in Users \cup {None} : Holding(u)' = Holding(u)
      BY <2>2 DEF ReadChunk, ReadEof, Refuse, SendOpen, Holding, Goto, TypeOK
    <3> QED
      BY <1>1, <2>2, <3>1 DEF ReadChunk, ReadEof, Refuse, SendOpen, regVars
  <2> QED
    BY <1>2, <2>1, <2>2
<1>3. ASSUME NEW v \in Visitors, ClientOffline(v) \/ Finish(v) PROVE SlotsAccounted'
  BY <1>3, SlotReturned DEF ClientOffline, Finish
<1>4. ASSUME NEW c \in ConnId, RecvEndOrAbort(c) PROVE SlotsAccounted'
  <2> SUFFICES ASSUME NEW u \in Users \cup {None} PROVE active'[u] <= Cardinality(Holding(u)')
    BY DEF SlotsAccounted
  <2>1. Holding(u)' = Holding(u)
    BY <1>4 DEF RecvEndOrAbort, TakeFrame, relayVars, Holding
  <2>2. active'[u] \in Nat /\ active'[u] <= active[u] /\ active[u] \in Nat
    BY <1>4 DEF RecvEndOrAbort, Release, TypeOK
  <2>3. Cardinality(Holding(u)) \in Nat
    BY HoldingFinite
  <2> QED
    BY <2>1, <2>2, <2>3 DEF SlotsAccounted
<1>5. CASE UNCHANGED <<active, goal, vis>>
  BY <1>1, <1>5 DEF Holding
<1>6. CASE Poll
  BY <1>5, <1>6 DEF Poll, regVars
<1>7. ASSUME NEW v \in Visitors, Write(v) \/ LocalConnects(v) \/ ClientAbort(v) \/ ClientStep(v)
      PROVE  UNCHANGED <<active, goal, vis>>
  BY <1>7 DEF Write, LocalConnects, ClientAbort, ClientStep, SocketError, Abort, LocalChunk, LocalEnds,
              ClosedForVisitor, regVars, relayVars
<1>8. ASSUME NEW c \in ConnId, PrepareTcp(c) \/ RegisterClient(c) \/ LinkLost(c) \/ ServerCloses(c)
                               \/ RecvChunk(c) \/ ClientTakes(c)
      PROVE  UNCHANGED <<active, goal, vis>>
  BY <1>8 DEF PrepareTcp, RegisterClient, LinkLost, ServerCloses, RecvChunk, TakeFrame, ClientTakes,
              regVars, relayVars
<1>9. CASE UNCHANGED vars
  BY <1>5, <1>9 DEF vars, regVars, relayVars
<1> QED
  BY <1>2, <1>3, <1>4, <1>5, <1>6, <1>7, <1>8, <1>9, SlotTaken
     DEF Next, VisitorStep, HandleConn, ServerRecv
-----------------------------------------------------------------------------
(* The queues, as far as one stream is concerned.                          *)

SameFor(w, q, r) ==
  /\ Uses(w, q) <=> Uses(w, r)
  /\ \A k : Occurs(q, Message(w, k)) = Occurs(r, Message(w, k))

LEMMA UsedNever ==
  ASSUME NEW S, NEW q \in Seq(S), NEW w, ~Uses(w, q)
  PROVE  \A k : Occurs(q, Message(w, k)) = 0
<1> SUFFICES ASSUME NEW k PROVE Occurs(q, Message(w, k)) = 0
  OBVIOUS
<1>1. Message(w, k).stream = w
  BY DEF Message
<1>2. \A i \in 1 .. Len(q) : q[i] # Message(w, k)
  BY <1>1 DEF Uses
<1> QED
  BY <1>2, OccursNever

LEMMA UsedWhere ==
  ASSUME NEW S, NEW q \in Seq(S), NEW w, NEW k, Occurs(q, Message(w, k)) # 0
  PROVE  \E i \in 1 .. Len(q) : q[i] = Message(w, k)
BY OccursNever

\* A message of another stream is queued, or taken.
LEMMA SameBehind ==
  ASSUME NEW S, NEW q \in Seq(S), NEW m \in S, NEW w, m.stream # w
  PROVE  SameFor(w, q, Append(q, m))
<1>1. \A k : m # Message(w, k)
  BY DEF Message
<1>2. \A k : Occurs(Append(q, m), Message(w, k)) = Occurs(q, Message(w, k))
  BY <1>1, OccursAppended
<1>3. /\ Len(Append(q, m)) = Len(q) + 1 /\ Len(q) \in Nat /\ Append(q, m)[Len(q) + 1] = m
      /\ \A i \in 1 .. Len(q) : Append(q, m)[i] = q[i]
  BY Appended
<1>4. Uses(w, q) <=> Uses(w, Append(q, m))
  BY <1>3 DEF Uses
<1> QED
  BY <1>2, <1>4 DEF SameFor

LEMMA SameAhead ==
  ASSUME NEW S, NEW q \in Seq(S), q # <<>>, NEW w, Head(q).stream # w
  PROVE  SameFor(w, q, Tail(q))
<1>1. \A k : Head(q) # Message(w, k)
  BY DEF Message
<1>2. \A k : Occurs(q, Message(w, k)) = Occurs(Tail(q), Message(w, k))
  BY <1>1, OccursInTail
<1>3. /\ Len(Tail(q)) = Len(q) - 1 /\ Len(q) \in Nat \ {0} /\ Head(q) = q[1]
      /\ \A i \in 1 .. Len(q) - 1 : Tail(q)[i] = q[i + 1]
  BY TailOf
<1>4. ASSUME Uses(w, q) PROVE Uses(w, Tail(q))
  <2>1. PICK i \in 1 .. Len(q) : q[i].stream = w
    BY <1>4 DEF Uses
  <2>2. i # 1 /\ i - 1 \in 1 .. Len(q) - 1 /\ Tail(q)[i - 1] = q[i]
    BY <1>3, <2>1
  <2> QED
    BY <1>3, <2>1, <2>2 DEF Uses
<1>5. ASSUME Uses(w, Tail(q)) PROVE Uses(w, q)
  <2>1. PICK i \in 1 .. Len(q) - 1 : Tail(q)[i].stream = w
    BY <1>3, <1>5 DEF Uses
  <2>2. i + 1 \in 1 .. Len(q) /\ q[i + 1].stream = w
    BY <1>3, <2>1
  <2> QED
    BY <2>2 DEF Uses
<1> QED
  BY <1>2, <1>4, <1>5 DEF SameFor

\* A stream's message is queued, or taken.
LEMMA CountBehind ==
  ASSUME NEW S, NEW q \in Seq(S), NEW w, NEW k, Message(w, k) \in S
  PROVE  /\ Occurs(Append(q, Message(w, k)), Message(w, k)) = Occurs(q, Message(w, k)) + 1
         /\ \A j : j # k => Occurs(Append(q, Message(w, k)), Message(w, j)) = Occurs(q, Message(w, j))
         /\ \A j : Occurs(q, Message(w, j)) \in Nat
<1>1. \A j : j # k => Message(w, k) # Message(w, j)
  BY DEF Message
<1> QED
  BY <1>1, OccursAppended, OccursType

LEMMA CountAhead ==
  ASSUME NEW S, NEW q \in Seq(S), q # <<>>, NEW w, NEW k, Head(q) = Message(w, k)
  PROVE  /\ Occurs(q, Message(w, k)) = Occurs(Tail(q), Message(w, k)) + 1
         /\ \A j : j # k => Occurs(q, Message(w, j)) = Occurs(Tail(q), Message(w, j))
         /\ \A j : Occurs(Tail(q), Message(w, j)) \in Nat
<1>1. \A j : j # k => Message(w, k) # Message(w, j)
  BY DEF Message
<1>2. Tail(q) \in Seq(S)
  BY TailOf
<1> QED
  BY <1>1, <1>2, OccursInTail, OccursType

-----------------------------------------------------------------------------
(* What keeps a stream, and the queues, as they should be.                 *)

SameStream(v) ==
  /\ vis'[v] = vis[v] /\ writer'[v] = writer[v] /\ goal'[v] = goal[v] /\ up'[v] = up[v]
  /\ got'[v] = got[v] /\ work'[v] = work[v] /\ sent'[v] = sent[v] /\ local'[v] = local[v]
  /\ events'[v] = events[v] /\ (v \in pending' <=> v \in pending)

SameQueues(v) ==
  \A c \in ConnId : SameFor(v, to_client[c], to_client'[c]) /\ SameFor(v, to_server[c], to_server'[c])

LEMMA OtherStream ==
  ASSUME TypeOK, NEW v \in Visitors, StreamRight(v), SameStream(v), SameQueues(v),
         goal[v].conn \in ConnId => link'[goal[v].conn] = link[goal[v].conn]
  PROVE  StreamRight(v)'
<1>1. goal[v].conn \in ConnId \cup {None} /\ None \notin ConnId
  BY Basics
<1>2. /\ NoMessages(v)' <=> NoMessages(v)
      /\ NoFrames(v)' <=> NoFrames(v)
  BY DEF SameQueues, SameFor, NoMessages, NoFrames
<1>3. Up(v)' <=> Up(v)
  BY DEF Up, SameStream
<1>4. EndQueued(v)' <=> EndQueued(v)
  BY DEF EndQueued, SameStream
<1>5. EndIsLast(v)'
  BY <1>2 DEF EndIsLast, SameStream, StreamRight, BytesOut
<1>6. Unopened(v)' /\ Opened(v)'
  BY <1>1, <1>2 DEF Unopened, Opened, SameStream, StreamRight
<1>7. CASE goal[v].conn = None
  <2>1. writer[v] = "none" /\ ~Up(v)
    BY <1>1, <1>7 DEF StreamRight, Opened, Up
  <2>2. BytesIn(v)'
    BY <1>2, <1>3, <2>1 DEF BytesIn, SameStream, StreamRight
  <2>3. BytesOut(v)'
    BY <1>5, <2>1 DEF BytesOut, SameStream, StreamRight
  <2> QED
    BY <1>6, <2>2, <2>3 DEF StreamRight
<1>8. CASE goal[v].conn # None
  <2>1. PICK c \in ConnId : c = goal[v].conn
    BY <1>1, <1>8
  <2>2. \A k : /\ Occurs(to_client'[c], Message(v, k)) = Occurs(to_client[c], Message(v, k))
               /\ Occurs(to_server'[c], Message(v, k)) = Occurs(to_server[c], Message(v, k))
    BY DEF SameQueues, SameFor
  <2>3. goal'[v].conn = c /\ link'[c] = link[c]
    BY <2>1 DEF SameStream
  <2>4. BytesIn(v)'
    BY <1>2, <1>3, <2>1, <2>2, <2>3 DEF BytesIn, SameStream, StreamRight
  <2>5. BytesOut(v)'
    BY <1>4, <1>5, <2>1, <2>2, <2>3 DEF BytesOut, SameStream, StreamRight
  <2> QED
    BY <1>6, <2>4, <2>5 DEF StreamRight
<1> QED
  BY <1>7, <1>8

\* Nothing is on its way for a stream that has not been opened.
Idle(v) ==
  /\ writer[v] = "none" /\ Unopened(v)
  /\ vis[v] = "new" => goal[v].conn = None
  /\ vis[v] = "opening" => v \in pending

IdleIsRight == TypeOK => \A v \in Visitors : Idle(v) => StreamRight(v)

LEMMA IdleRight == IdleIsRight
<1> SUFFICES ASSUME TypeOK, NEW v \in Visitors, Idle(v) PROVE StreamRight(v)
  BY DEF IdleIsRight
<1>1. Unopened(v) /\ Opened(v)
  BY DEF Idle, Opened
<1>2. work[v] \in {"none", "over"} /\ NoMessages(v) /\ up[v] = 0 /\ local[v] = 0 /\ events[v] = <<>>
  BY DEF Idle, Unopened
<1>3. ASSUME Up(v) PROVE Occurs(to_client[goal[v].conn], Message(v, "chunk")) = 0
  <2>1. PICK c \in ConnId : c = goal[v].conn
    BY <1>3 DEF Up
  <2>2. to_client[c] \in Seq(MsgSet) /\ ~Uses(v, to_client[c])
    BY <1>2 DEF TypeOK, NoMessages
  <2> QED
    BY <2>1, <2>2, UsedNever
<1>4. BytesIn(v)
  BY <1>2, <1>3 DEF BytesIn, Idle
<1>5. EndIsLast(v)
  BY <1>2 DEF EndIsLast
<1>6. BytesOut(v)
  BY <1>5 DEF BytesOut, Idle
<1> QED
  BY <1>1, <1>4, <1>6 DEF StreamRight

LEMMA IdleRightNext == ASSUME TypeOK', NEW v \in Visitors, Idle(v)' PROVE StreamRight(v)'
<1>1. IdleIsRight'
  BY IdleRight, PTL
<1> QED
  BY <1>1 DEF IdleIsRight

LEMMA MessagesKept ==
  ASSUME TypeOK, MessagesRight,
         \A c \in ConnId : to_client'[c] = to_client[c] /\ (link'[c] # "up" => to_client[c] = <<>>),
         \A v \in Visitors : \/ NoMessages(v)
                             \/ /\ goal'[v] = goal[v]
                                /\ work[v] = "none" => work'[v] = "none"
                                /\ vis[v] # "reading" => vis'[v] # "reading"
                                /\ work'[v] \in {"doomed", "closing"} => work[v] \in {"doomed", "closing"}
  PROVE  MessagesRight'
<1> SUFFICES ASSUME NEW c \in ConnId, NEW i \in 1 .. Len(to_client[c]) PROVE MessageRight(c, i)'
  BY DEF MessagesRight
<1>1. PICK v \in Visitors : v = to_client[c][i].stream
  BY QueueTypes
<1>2. ~NoMessages(v)
  BY <1>1 DEF NoMessages, Uses
<1>3. MessageRight(c, i)
  BY DEF MessagesRight
<1> QED
  BY SMTT(30), <1>1, <1>2, <1>3 DEF MessageRight

LEMMA FramesKept ==
  ASSUME TypeOK, FramesRight, \A c \in ConnId : to_server'[c] = to_server[c],
         \A v \in Visitors : \/ NoFrames(v)
                             \/ goal'[v] = goal[v] /\ (work[v] = "over" => work'[v] = "over")
  PROVE  FramesRight'
<1> SUFFICES ASSUME NEW c \in ConnId, NEW i \in 1 .. Len(to_server[c]) PROVE FrameRight(c, i)'
  BY DEF FramesRight
<1>1. PICK v \in Visitors : v = to_server[c][i].stream
  BY QueueTypes
<1>2. ~NoFrames(v)
  BY <1>1 DEF NoFrames, Uses
<1>3. FrameRight(c, i)
  BY DEF FramesRight
<1> QED
  BY <1>1, <1>2, <1>3 DEF FrameRight

\* send_to_conn for the visitor: what was to be sent before is in front of it.
LEMMA MessageSent ==
  ASSUME TypeOK, MessagesRight, NEW v \in Visitors, NEW kind \in {"open", "chunk", "close"},
         SendToConn(v, kind), goal' = goal, work' = work, link' = link,
         \A w \in Visitors : w # v => vis'[w] = vis[w],
         vis[v] = "reading" \/ NoMessages(v),
         kind = "open" => work[v] = "none" /\ NoMessages(v),
         kind = "close" => vis'[v] # "reading" /\ work[v] \notin {"doomed", "closing"}
  PROVE  MessagesRight'
<1>1. CASE ~(goal[v].conn \in clients /\ link[goal[v].conn] = "up")
  <2>1. to_client' = to_client
    BY <1>1, Sends
  <2>2. \A c \in ConnId : to_client'[c] = to_client[c] /\ (link'[c] # "up" => to_client[c] = <<>>)
    BY <2>1 DEF MessagesRight
  <2> QED
    BY <2>2, MessagesKept
<1>2. CASE goal[v].conn \in clients /\ link[goal[v].conn] = "up"
  <2>1. PICK c \in ConnId, m \in MsgSet : c = goal[v].conn /\ m = Message(v, kind)
    BY <1>2, Messages DEF TypeOK
  <2>2. /\ to_client'[c] = Append(to_client[c], m) /\ link[c] = "up"
        /\ \A d \in ConnId \ {c} : to_client'[d] = to_client[d]
    BY <1>2, <2>1, Sends
  <2>3. m.stream = v /\ m.kind = kind
    BY <2>1, Messages
  <2>4. \A d \in ConnId : link'[d] # "up" => to_client'[d] = <<>>
    BY <2>2 DEF MessagesRight
  <2>5. ASSUME NEW d \in ConnId, NEW i \in 1 .. Len(to_client'[d]) PROVE MessageRight(d, i)'
    <3>1. CASE d # c
      <4>1. PICK w \in Visitors : w = to_client[d][i].stream
        BY <2>2, <2>5, <3>1, QueueTypes
      <4>2. MessageRight(d, i)
        BY <2>2, <2>5, <3>1 DEF MessagesRight
      <4>3. w # v
        BY <2>1, <3>1, <4>1, <4>2 DEF MessageRight
      <4> QED
        BY <2>2, <3>1, <4>1, <4>2, <4>3 DEF MessageRight
    <3>2. CASE d = c
      <4>1. /\ to_client[c] \in Seq(MsgSet) /\ Len(to_client[c]) \in Nat
            /\ Len(to_client'[c]) = Len(to_client[c]) + 1 /\ to_client'[c][Len(to_client[c]) + 1] = m
            /\ \A j \in 1 .. Len(to_client[c]) : to_client'[c][j] = to_client[c][j]
        BY <2>2, Appended DEF TypeOK
      <4>2. CASE i = Len(to_client[c]) + 1
        <5>1. kind = "open" => \A j \in 1 .. Len(to_client[c]) : to_client[c][j].stream # v
          BY DEF NoMessages, Uses
        <5>2. to_client'[c][i] = m /\ goal'[v].conn = c
          BY <2>1, <4>1, <4>2
        <5>3. kind = "open" => work'[v] = "none" /\ \A j \in 1 .. i - 1 : to_client'[c][j].stream # v
          BY <4>1, <4>2, <5>1
        <5>4. kind = "close" => /\ vis'[v] # "reading" /\ work'[v] \notin {"doomed", "closing"}
                                /\ \A j \in i + 1 .. Len(to_client'[c]) : to_client'[c][j].stream # v
          BY <4>1, <4>2
        <5> QED
          BY <2>3, <3>2, <5>2, <5>3, <5>4 DEF MessageRight
      <4>3. CASE i \in 1 .. Len(to_client[c])
        <5>1. PICK w \in Visitors : w = to_client[c][i].stream
          BY <4>3, QueueTypes
        <5>2. MessageRight(c, i)
          BY <4>3 DEF MessagesRight
        <5>3. to_client[c][i].kind = "close" => w # v
          BY <4>3, <5>1, <5>2 DEF MessageRight, NoMessages, Uses
        <5>4. to_client[c][i].kind = "close" =>
                \A j \in i + 1 .. Len(to_client'[c]) : to_client'[c][j].stream # w
          <6> SUFFICES ASSUME to_client[c][i].kind = "close", NEW j \in i + 1 .. Len(to_client'[c])
                       PROVE  to_client'[c][j].stream # w
            OBVIOUS
          <6>1. j = Len(to_client[c]) + 1 \/ j \in i + 1 .. Len(to_client[c])
            BY <4>1, <4>3
          <6>2. j \in i + 1 .. Len(to_client[c]) => to_client'[c][j] = to_client[c][j]
            BY <4>1, <4>3
          <6> QED
            BY <2>3, <4>1, <5>1, <5>2, <5>3, <6>1, <6>2 DEF MessageRight
        <5>5. to_client[c][i].kind = "open" => \A j \in 1 .. i - 1 : to_client'[c][j].stream # w
          BY SMTT(30), <4>1, <4>3, <5>1, <5>2 DEF MessageRight
        <5>6. to_client'[c][i] = to_client[c][i]
          BY <4>1, <4>3
        <5>7. to_client[c][i].kind = "close" => vis'[w] # "reading"
          BY <5>1, <5>2, <5>3 DEF MessageRight
        <5> QED
          BY <3>2, <5>1, <5>2, <5>4, <5>5, <5>6, <5>7 DEF MessageRight
      <4> QED
        BY <2>5, <3>2, <4>1, <4>2, <4>3
    <3> QED
      BY <3>1, <3>2
  <2> QED
    BY <2>4, <2>5 DEF MessagesRight
<1> QED
  BY <1>1, <1>2

LEMMA MessageSentOthers ==
  ASSUME TypeOK, NEW v \in Visitors, NEW kind \in {"open", "chunk", "close"}, SendToConn(v, kind),
         to_server' = to_server, NEW w \in Visitors, w # v
  PROVE  SameQueues(w)
<1> SUFFICES ASSUME NEW c \in ConnId PROVE SameFor(w, to_client[c], to_client'[c])
  BY DEF SameQueues, SameFor
<1>1. CASE to_client'[c] = to_client[c]
  BY <1>1 DEF SameFor
<1>2. CASE to_client'[c] = Append(to_client[c], Message(v, kind))
  <2>1. PICK m \in MsgSet : m = Message(v, kind) /\ m.stream = v
    BY Messages
  <2> QED
    BY <1>2, <2>1, SameBehind DEF TypeOK
<1> QED
  BY <1>1, <1>2, Sends

LEMMA FrameSentOthers ==
  ASSUME TypeOK, NEW v \in Visitors, NEW kind \in {"chunk", "end", "abort"}, Up(v), SendFrame(v, kind),
         to_client' = to_client, NEW w \in Visitors, w # v
  PROVE  SameQueues(w)
<1> SUFFICES ASSUME NEW c \in ConnId PROVE SameFor(w, to_server[c], to_server'[c])
  BY DEF SameQueues, SameFor
<1>1. CASE to_server'[c] = to_server[c]
  BY <1>1 DEF SameFor
<1>2. CASE to_server'[c] = Append(to_server[c], Message(v, kind))
  <2>1. PICK m \in FrameSet : m = Message(v, kind) /\ m.stream = v
    BY Messages
  <2> QED
    BY <1>2, <2>1, SameBehind DEF TypeOK
<1> QED
  BY <1>1, <1>2, ClientSends

\* A frame of the client: nothing of its stream has ended.
LEMMA FrameSent ==
  ASSUME TypeOK, FramesRight, NEW v \in Visitors, NEW kind \in {"chunk", "end", "abort"}, Up(v),
         SendFrame(v, kind), goal' = goal, work[v] # "over",
         \A w \in Visitors : w # v => work'[w] = work[w],
         IsEnd(kind) => work'[v] = "over"
  PROVE  FramesRight'
<1>1. PICK c \in ConnId, m \in FrameSet : c = goal[v].conn /\ m = Message(v, kind)
  BY Messages DEF Up
<1>2. /\ to_server'[c] = Append(to_server[c], m)
      /\ \A d \in ConnId \ {c} : to_server'[d] = to_server[d]
  BY <1>1, ClientSends
<1>3. m.stream = v /\ m.kind = kind
  BY <1>1, Messages
<1> SUFFICES ASSUME NEW d \in ConnId, NEW i \in 1 .. Len(to_server'[d]) PROVE FrameRight(d, i)'
  BY DEF FramesRight
<1>4. CASE d # c
  <2>1. PICK w \in Visitors : w = to_server[d][i].stream
    BY <1>2, <1>4, QueueTypes
  <2>2. FrameRight(d, i)
    BY <1>2, <1>4 DEF FramesRight
  <2>3. w # v
    BY <1>1, <1>4, <2>1, <2>2 DEF FrameRight
  <2> QED
    BY <1>2, <1>4, <2>1, <2>2, <2>3 DEF FrameRight
<1>5. CASE d = c
  <2>1. /\ to_server[c] \in Seq(FrameSet) /\ Len(to_server[c]) \in Nat
        /\ Len(to_server'[c]) = Len(to_server[c]) + 1 /\ to_server'[c][Len(to_server[c]) + 1] = m
        /\ \A j \in 1 .. Len(to_server[c]) : to_server'[c][j] = to_server[c][j]
    BY <1>2, Appended DEF TypeOK
  <2>2. CASE i = Len(to_server[c]) + 1
    <3>1. to_server'[d][i] = m /\ i + 1 .. Len(to_server'[d]) = {}
      BY <1>5, <2>1, <2>2
    <3>2. goal'[v].conn = c /\ (IsEnd(m.kind) => work'[v] = "over")
      BY <1>1, <1>3
    <3> QED
      BY <1>3, <1>5, <3>1, <3>2 DEF FrameRight
  <2>3. CASE i \in 1 .. Len(to_server[c])
    <3>1. PICK w \in Visitors : w = to_server[c][i].stream
      BY <2>3, QueueTypes
    <3>2. FrameRight(c, i)
      BY <2>3 DEF FramesRight
    <3>3. IsEnd(to_server[c][i].kind) => w # v /\ work'[w] = "over"
      BY <3>1, <3>2 DEF FrameRight
    <3>4. IsEnd(to_server[c][i].kind) =>
            \A j \in i + 1 .. Len(to_server'[c]) : to_server'[c][j].stream # w
      BY <1>3, <2>1, <2>3, <3>1, <3>2, <3>3 DEF FrameRight
    <3>5. to_server'[c][i] = to_server[c][i]
      BY <2>1, <2>3
    <3> QED
      BY <1>5, <3>1, <3>2, <3>3, <3>4, <3>5 DEF FrameRight
  <2> QED
    BY <1>5, <2>1, <2>2, <2>3
<1> QED
  BY <1>4, <1>5

LEMMA OneStream ==
  ASSUME TypeOK, Transfers, NEW v \in Visitors, link' = link,
         \A w \in Visitors : w # v => SameStream(w) /\ SameQueues(w),
         StreamRight(v)', MessagesRight', FramesRight'
  PROVE  Transfers'
<1>1. \A w \in Visitors : w # v => StreamRight(w)'
  BY OtherStream DEF Transfers
<1> QED
  BY <1>1 DEF Transfers

LEMMA QueuesUntouched ==
  ASSUME to_client' = to_client, to_server' = to_server, NEW w PROVE SameQueues(w)
BY DEF SameQueues, SameFor

\* A step that changes one stream and leaves the connections alone.
LEMMA OneStreamAlone ==
  ASSUME TypeOK, Transfers, NEW v \in Visitors, UNCHANGED connVars,
         \A w \in Visitors : w # v => SameStream(w),
         goal'[v] = goal[v] \/ (NoMessages(v) /\ NoFrames(v)),
         vis[v] # "reading" => vis'[v] # "reading",
         StreamRight(v)'
  PROVE  Transfers'
<1>1. link' = link /\ to_client' = to_client /\ to_server' = to_server /\ work' = work
  BY DEF connVars
<1>2. \A c \in ConnId : to_client'[c] = to_client[c] /\ (link'[c] # "up" => to_client[c] = <<>>)
  BY <1>1 DEF Transfers, MessagesRight
<1>3. MessagesRight'
  <2>1. \A w \in Visitors : \/ NoMessages(w)
                            \/ goal'[w] = goal[w] /\ (vis[w] # "reading" => vis'[w] # "reading")
    BY DEF SameStream
  <2> QED
    BY <1>1, <1>2, <2>1, MessagesKept DEF Transfers
<1>4. FramesRight'
  <2>1. \A w \in Visitors : NoFrames(w) \/ goal'[w] = goal[w]
    BY DEF SameStream
  <2> QED
    BY <1>1, <2>1, FramesKept DEF Transfers
<1> QED
  BY <1>1, <1>3, <1>4, OneStream, QueuesUntouched

-----------------------------------------------------------------------------
(* handle_conn and its writer.                                             *)

LEMMA AcceptTransfers ==
  ASSUME IInv, TypeOK', NEW v \in Visitors, Accept(v) PROVE Transfers'
<1>1. StreamRight(v)
  BY DEF IInv, Transfers
<1>2. vis[v] = "new" /\ writer[v] = "none" /\ work[v] = "none" /\ NoMessages(v) /\ NoFrames(v)
  BY <1>1 DEF Accept, StreamRight, Opened, Unopened
<1>3. \A w \in Visitors : w # v => SameStream(w)
  BY DEF Accept, SameStream, IInv, TypeOK, regVars, connVars
<1>4. /\ vis'[v] = "accepted" /\ UNCHANGED connVars
      /\ UNCHANGED <<writer, work, sent, got, up, local, events, to_client, to_server>>
  BY DEF Accept, IInv, TypeOK, regVars, connVars
<1>5. Unopened(v)'
  BY <1>1, <1>2, <1>4 DEF StreamRight, Unopened, NoMessages, NoFrames
<1>6. Idle(v)'
  BY <1>2, <1>4, <1>5 DEF Idle
<1>7. StreamRight(v)'
  BY <1>6, IdleRightNext
<1> QED
  BY <1>2, <1>3, <1>4, <1>7, OneStreamAlone DEF IInv

LEMMA RefusedTransfers ==
  ASSUME IInv, TypeOK', NEW v \in Visitors, Refuse(v) \/ AcquireAndInsert(v) \/ ClientOffline(v)
  PROVE  Transfers'
<1>1. StreamRight(v)
  BY DEF IInv, Transfers
<1>2. vis[v] \in {"accepted", "opening"} /\ writer[v] = "none"
  BY <1>1 DEF Refuse, AcquireAndInsert, ClientOffline, StreamRight, Opened, IInv, TypeOK
<1>3. ASSUME NEW w \in Visitors, w # v PROVE SameStream(w)
  <2>1. CASE Refuse(v)
    BY <1>3, <2>1 DEF Refuse, Goto, SameStream, IInv, TypeOK, regVars, connVars
  <2>2. CASE AcquireAndInsert(v)
    BY <1>3, <2>2 DEF AcquireAndInsert, Goto, SameStream, IInv, TypeOK, regVars, connVars
  <2>3. CASE ClientOffline(v)
    BY <1>3, <2>3 DEF ClientOffline, Goto, SameStream, IInv, TypeOK, regVars, connVars
  <2> QED
    BY <2>1, <2>2, <2>3
<1>4. /\ \/ vis'[v] \in {"refused", "done"}
         \/ vis'[v] = "opening" /\ v \in pending'
      /\ UNCHANGED connVars
      /\ UNCHANGED <<writer, goal, link, work, sent, got, up, local, events, to_client, to_server>>
  BY DEF Refuse, AcquireAndInsert, ClientOffline, Goto, IInv, TypeOK, regVars, connVars
<1>5. Unopened(v)'
  BY <1>1, <1>2, <1>4 DEF StreamRight, Unopened, NoMessages, NoFrames
<1>6. Idle(v)'
  BY <1>2, <1>4, <1>5 DEF Idle
<1>7. StreamRight(v)'
  BY <1>6, IdleRightNext
<1>8. /\ TypeOK /\ Transfers /\ goal'[v] = goal[v] /\ UNCHANGED connVars
      /\ vis[v] # "reading" => vis'[v] # "reading"
  BY <1>4 DEF IInv
<1> QED
  BY <1>3, <1>7, <1>8, OneStreamAlone

LEMMA FinishTransfers ==
  ASSUME IInv, TypeOK', NEW v \in Visitors, Finish(v) PROVE Transfers'
<1>1. StreamRight(v)
  BY DEF IInv, Transfers
<1>2. \A w \in Visitors : w # v => SameStream(w)
  BY DEF Finish, Goto, SameStream, IInv, TypeOK, connVars
<1>3. /\ vis[v] = "closing" /\ writer[v] \in {"over", "broken"} /\ vis'[v] = "done"
      /\ UNCHANGED connVars
      /\ UNCHANGED <<writer, goal, link, work, sent, got, up, local, events, to_client, to_server>>
  BY DEF Finish, Goto, IInv, TypeOK, connVars
<1>4. Unopened(v)' /\ Opened(v)'
  BY <1>1, <1>3 DEF StreamRight, Unopened, Opened
<1>5. BytesIn(v)'
  BY <1>1, <1>3 DEF StreamRight, BytesIn, Up, NoMessages
<1>6. EndIsLast(v)'
  BY <1>1, <1>3 DEF StreamRight, BytesOut, EndIsLast, NoFrames
<1>7. BytesOut(v)'
  BY <1>1, <1>3, <1>6 DEF StreamRight, BytesOut
<1>8. StreamRight(v)'
  BY <1>4, <1>5, <1>7 DEF StreamRight
<1>9. /\ TypeOK /\ Transfers /\ goal'[v] = goal[v] /\ UNCHANGED connVars
      /\ vis[v] # "reading" => vis'[v] # "reading"
  BY <1>3 DEF IInv
<1> QED
  BY <1>2, <1>8, <1>9, OneStreamAlone

LEMMA SendOpenTransfers ==
  ASSUME IInv, TypeOK', NEW v \in Visitors, SendOpen(v) PROVE Transfers'
<1>1. StreamRight(v) /\ TypeOK
  BY DEF IInv, Transfers
<1>2. /\ vis[v] = "opening" /\ goal[v].conn \in clients /\ vis'[v] = "reading" /\ writer'[v] = "running"
      /\ SendToConn(v, "open")
      /\ UNCHANGED <<goal, link, work, sent, got, up, local, events, pending, to_server>>
  BY <1>1 DEF SendOpen, Goto, TypeOK, regVars
<1>3. PICK c \in ConnId : c = goal[v].conn
  BY <1>1, <1>2 DEF TypeOK
<1>4. c # None /\ link[c] \in {"up", "down"}
  BY <1>1, <1>2, <1>3, Basics DEF IInv, Bindings
<1>5. writer[v] = "none" /\ NoMessages(v) /\ NoFrames(v) /\ v \in pending
  BY <1>1, <1>2 DEF StreamRight, Opened, Unopened, BytesOut, TypeOK
<1>6. /\ work[v] = "none" \/ (work[v] = "over" /\ link[c] = "down")
      /\ sent[v] = 0 /\ got[v] = 0 /\ up[v] = 0 /\ local[v] = 0 /\ events[v] = <<>>
  BY <1>1, <1>3, <1>4, <1>5 DEF StreamRight, Unopened
<1>7. \A w \in Visitors : w # v => SameStream(w)
  BY <1>1, <1>2 DEF SendOpen, Goto, SameStream, TypeOK, regVars
<1>8. link[c] = "up" => to_client'[c] = Append(to_client[c], Message(v, "open"))
  BY <1>1, <1>2, <1>3, Sends
<1>9. \A k : Occurs(to_client[c], Message(v, k)) = 0 /\ Occurs(to_server[c], Message(v, k)) = 0
  BY <1>1, <1>5, UsedNever DEF NoMessages, NoFrames, TypeOK
<1>10. ASSUME link[c] = "up"
       PROVE  /\ Occurs(to_client'[c], Message(v, "open")) = 1
              /\ Occurs(to_client'[c], Message(v, "chunk")) = 0
  <2>1. to_client[c] \in Seq(MsgSet) /\ Message(v, "open") \in MsgSet
    BY <1>1, Messages DEF TypeOK
  <2>2. /\ Occurs(Append(to_client[c], Message(v, "open")), Message(v, "open")) = 0 + 1
        /\ Occurs(Append(to_client[c], Message(v, "open")), Message(v, "chunk")) = 0
    BY <1>9, <2>1, CountBehind
  <2>3. to_client'[c] = Append(to_client[c], Message(v, "open"))
    BY <1>8, <1>10
  <2> QED
    BY <2>2, <2>3
<1>11. Unopened(v)' /\ Opened(v)'
  BY <1>2, <1>3, <1>4 DEF Unopened, Opened
<1>12. BytesIn(v)'
  BY <1>2, <1>3, <1>4, <1>6, <1>10 DEF BytesIn, Up
<1>13. EndIsLast(v)' /\ ~EndQueued(v)'
  BY <1>2, <1>6 DEF EndIsLast, EndQueued
<1>14. Occurs(events[v], "chunk") = 0
  BY <1>1, <1>6, OccursNever DEF TypeOK
<1>15. BytesOut(v)'
  BY <1>2, <1>3, <1>5, <1>6, <1>9, <1>13, <1>14 DEF BytesOut
<1>16. MessagesRight'
  <2>1. work[v] = "none" \/ ~(link[c] = "up")
    BY <1>6
  <2>2. CASE work[v] = "none"
    BY <1>1, <1>2, <1>5, <1>7, <2>2, MessageSent DEF IInv, Transfers, SameStream
  <2>3. CASE link[c] # "up"
    <3>1. to_client' = to_client
      BY <1>1, <1>2, <1>3, <2>3, Sends
    <3>2. \A d \in ConnId : to_client'[d] = to_client[d] /\ (link'[d] # "up" => to_client[d] = <<>>)
      BY <1>2, <3>1 DEF IInv, Transfers, MessagesRight
    <3>3. \A w \in Visitors : NoMessages(w) \/ (vis[w] # "reading" => vis'[w] # "reading")
      BY <1>5, <1>7 DEF SameStream
    <3> QED
      BY <1>1, <1>2, <3>2, <3>3, MessagesKept DEF IInv, Transfers
  <2> QED
    BY <2>1, <2>2, <2>3
<1>17. FramesRight'
  BY <1>1, <1>2, FramesKept DEF IInv, Transfers
<1>18. \A w \in Visitors : w # v => SameQueues(w)
  BY <1>1, <1>2, MessageSentOthers
<1>19. StreamRight(v)'
  BY <1>11, <1>12, <1>15 DEF StreamRight
<1> QED
  BY <1>2, <1>7, <1>16, <1>17, <1>18, <1>19, OneStream DEF IInv

\* Both steps of the reading loop.
LEMMA ReadTransfers ==
  ASSUME IInv, TypeOK', NEW v \in Visitors, ReadChunk(v) \/ ReadEof(v) PROVE Transfers'
<1>1. StreamRight(v) /\ TypeOK
  BY DEF IInv, Transfers
<1>2. PICK kind \in {"chunk", "close"} :
        /\ vis[v] = "reading" /\ SendToConn(v, kind)
        /\ up'[v] = IF kind = "chunk" THEN up[v] + 1 ELSE up[v]
        /\ vis'[v] = IF kind = "chunk" THEN "reading" ELSE "closing"
        /\ UNCHANGED <<goal, link, writer, work, sent, got, local, events, pending, to_server>>
        /\ \A w \in Visitors : w # v => SameStream(w)
  <2>1. CASE ReadChunk(v)
    BY <1>1, <2>1 DEF ReadChunk, SameStream, TypeOK, regVars
  <2>2. CASE ReadEof(v)
    BY <1>1, <2>2 DEF ReadEof, Goto, SameStream, TypeOK, regVars
  <2> QED
    BY <2>1, <2>2
<1>3. writer[v] # "none" /\ goal[v].conn # None /\ work[v] \notin {"doomed", "closing"}
  BY <1>1, <1>2 DEF StreamRight, Unopened, Opened, BytesIn
<1>4. PICK c \in ConnId : c = goal[v].conn
  BY <1>1, <1>3, Basics
<1>5. /\ up[v] \in Nat /\ local[v] \in Nat
      /\ to_client[c] \in Seq(MsgSet) /\ Message(v, kind) \in MsgSet
  BY <1>1, Messages DEF TypeOK
<1>6. ASSUME link[c] = "up"
      PROVE  /\ Occurs(to_client'[c], Message(v, "open")) = Occurs(to_client[c], Message(v, "open"))
             /\ Occurs(to_client'[c], Message(v, "chunk")) =
                  IF kind = "chunk" THEN Occurs(to_client[c], Message(v, "chunk")) + 1
                                    ELSE Occurs(to_client[c], Message(v, "chunk"))
  <2>1. c \in clients
    BY <1>6 DEF IInv, Bindings
  <2>2. to_client'[c] = Append(to_client[c], Message(v, kind))
    BY <1>1, <1>2, <1>4, <1>6, <2>1, Sends
  <2>3. CASE kind = "chunk"
    BY <1>5, <2>2, <2>3, CountBehind
  <2>4. CASE kind = "close"
    BY <1>5, <2>2, <2>4, CountBehind
  <2> QED
    BY <2>3, <2>4
<1>7. Occurs(to_client[c], Message(v, "chunk")) \in Nat
  BY <1>5, OccursType
<1>8. Unopened(v)' /\ Opened(v)'
  BY <1>1, <1>2, <1>3 DEF Unopened, Opened, StreamRight
<1>9. BytesIn(v)'
  <2>1. Up(v)' <=> link[c] = "up"
    BY <1>2, <1>4 DEF Up
  <2>2. Up(v) <=> link[c] = "up"
    BY <1>4 DEF Up
  <2>3. work'[v] \notin {"none", "over"} => Up(v)'
    BY <1>1, <1>2, <2>1, <2>2 DEF StreamRight, BytesIn
  <2>4. work'[v] = "none" /\ Up(v)' /\ writer'[v] # "none" =>
          Occurs(to_client'[goal'[v].conn], Message(v, "open")) # 0
    BY <1>1, <1>2, <1>4, <1>6, <2>1, <2>2 DEF StreamRight, BytesIn
  <2>5. work'[v] # "over" /\ Up(v)' =>
          local'[v] + Occurs(to_client'[goal'[v].conn], Message(v, "chunk")) = up'[v]
    <3>1. work[v] # "over" /\ link[c] = "up" =>
            local[v] + Occurs(to_client[c], Message(v, "chunk")) = up[v]
      BY <1>1, <1>4, <2>2 DEF StreamRight, BytesIn
    <3>2. work[v] # "over" /\ link[c] = "up" =>
            local[v] + Occurs(to_client'[c], Message(v, "chunk")) = up'[v]
      BY <1>2, <1>5, <1>6, <1>7, <3>1
    <3> QED
      BY <1>2, <1>4, <2>1, <3>2
  <2>6. work'[v] \notin {"doomed", "closing"}
    BY <1>2, <1>3
  <2> QED
    BY <2>3, <2>4, <2>5, <2>6 DEF BytesIn
<1>10. EndIsLast(v)' /\ (EndQueued(v)' <=> EndQueued(v))
  BY <1>1, <1>2 DEF StreamRight, BytesOut, EndIsLast, EndQueued, NoFrames
<1>11. BytesOut(v)'
  BY <1>1, <1>2, <1>4, <1>10 DEF StreamRight, BytesOut
<1>12. MessagesRight'
  <2>1. \A w \in Visitors : w # v => vis'[w] = vis[w]
    BY <1>2 DEF SameStream
  <2>2. kind = "close" => vis'[v] # "reading" /\ work[v] \notin {"doomed", "closing"}
    BY <1>2, <1>3
  <2> QED
    BY <1>1, <1>2, <2>1, <2>2, MessageSent DEF IInv, Transfers
<1>13. FramesRight'
  BY <1>1, <1>2, FramesKept DEF IInv, Transfers
<1>14. \A w \in Visitors : w # v => SameQueues(w)
  BY <1>1, <1>2, MessageSentOthers
<1>15. StreamRight(v)'
  BY <1>8, <1>9, <1>11 DEF StreamRight
<1> QED
  BY <1>2, <1>12, <1>13, <1>14, <1>15, OneStream DEF IInv

\* The writer: an End it takes is the last there is.
LEMMA WriteTransfers ==
  ASSUME IInv, TypeOK', NEW v \in Visitors, Write(v) PROVE Transfers'
<1>1. StreamRight(v) /\ TypeOK
  BY DEF IInv, Transfers
<1>2. /\ writer[v] = "running" /\ events[v] # <<>> /\ events'[v] = Tail(events[v])
      /\ UNCHANGED <<vis, goal, work, sent, up, local, pending>> /\ UNCHANGED connVars
      /\ \A w \in Visitors : w # v => SameStream(w)
  BY <1>1 DEF Write, SameStream, TypeOK, connVars
<1>3. PICK c \in ConnId : c = goal[v].conn
  BY <1>1, <1>2, Basics DEF StreamRight, Opened
<1>4. /\ events[v] \in Seq(EventSet) /\ Len(events[v]) \in Nat \ {0}
      /\ Head(events[v]) = events[v][1] /\ Head(events[v]) \in EventSet
      /\ Tail(events[v]) \in Seq(EventSet) /\ Len(Tail(events[v])) = Len(events[v]) - 1
      /\ \A i \in 1 .. Len(events[v]) - 1 : Tail(events[v])[i] = events[v][i + 1]
  BY <1>1, <1>2, TailOf DEF TypeOK
<1>5. Occurs(events[v], "chunk") =
        IF Head(events[v]) = "chunk" THEN Occurs(Tail(events[v]), "chunk") + 1
                                     ELSE Occurs(Tail(events[v]), "chunk")
  BY <1>2, <1>4, OccursInTail
<1>6. /\ UNCHANGED <<link, to_client, to_server, work, sent, local>>
      /\ NoFrames(v)' <=> NoFrames(v)
      /\ NoMessages(v)' <=> NoMessages(v)
      /\ Up(v)' <=> Up(v)
  BY <1>2 DEF connVars, NoFrames, NoMessages, Up
<1>7. EndIsLast(v)'
  <2> SUFFICES ASSUME NEW i \in 1 .. Len(Tail(events[v])), IsEnd(Tail(events[v])[i])
               PROVE  i = Len(Tail(events[v])) /\ work'[v] = "over" /\ NoFrames(v)'
    BY <1>2 DEF EndIsLast
  <2>1. i + 1 \in 1 .. Len(events[v]) /\ IsEnd(events[v][i + 1])
    BY <1>4
  <2>2. i + 1 = Len(events[v]) /\ work[v] = "over" /\ NoFrames(v)
    BY <1>1, <2>1 DEF StreamRight, BytesOut, EndIsLast
  <2> QED
    BY <1>4, <1>6, <2>2
<1>8. Unopened(v)' /\ Opened(v)' /\ writer'[v] # "none"
  <2>1. writer'[v] # "none"
    BY <1>1, <1>2 DEF Write, TypeOK
  <2> QED
    BY <1>1, <1>2, <1>6, <2>1 DEF StreamRight, Unopened, Opened
<1>9. BytesIn(v)'
  BY <1>1, <1>2, <1>6, <1>8 DEF StreamRight, BytesIn
<1>10. ASSUME Head(events[v]) = "chunk", got'[v] = got[v] + 1, writer' = writer
       PROVE  StreamRight(v)'
  <2>1. EndQueued(v)' <=> EndQueued(v)
    <3>1. EndQueued(v)' <=> \E i \in 1 .. Len(events[v]) - 1 : IsEnd(events[v][i + 1])
      BY <1>2, <1>4 DEF EndQueued
    <3>2. ~IsEnd(events[v][1])
      BY <1>4, <1>10 DEF IsEnd
    <3>3. ASSUME NEW i \in 1 .. Len(events[v]), IsEnd(events[v][i])
          PROVE  \E j \in 1 .. Len(events[v]) - 1 : IsEnd(events[v][j + 1])
      <4>1. i # 1 /\ i - 1 \in 1 .. Len(events[v]) - 1 /\ (i - 1) + 1 = i
        BY <1>4, <3>2, <3>3
      <4> QED
        BY <3>3, <4>1
    <3>4. ASSUME NEW i \in 1 .. Len(events[v]) - 1, IsEnd(events[v][i + 1])
          PROVE  \E j \in 1 .. Len(events[v]) : IsEnd(events[v][j])
      <4>1. i + 1 \in 1 .. Len(events[v])
        BY <1>4
      <4> QED
        BY <3>4, <4>1
    <3> QED
      BY <3>1, <3>3, <3>4 DEF EndQueued
  <2>2. /\ got[v] \in Nat /\ Occurs(Tail(events[v]), "chunk") \in Nat
        /\ Occurs(to_server[c], Message(v, "chunk")) \in Nat
    BY <1>1, <1>4, OccursType DEF TypeOK
  <2>3. EndQueued(v) \/ link[c] \in {"up", "down"} =>
          got'[v] + Occurs(Tail(events[v]), "chunk") + Occurs(to_server[c], Message(v, "chunk")) = sent[v]
    <3>1. EndQueued(v) \/ link[c] \in {"up", "down"} =>
            got[v] + Occurs(events[v], "chunk") + Occurs(to_server[c], Message(v, "chunk")) = sent[v]
      BY <1>1, <1>2, <1>3 DEF StreamRight, BytesOut
    <3> QED
      BY <1>5, <1>10, <2>2, <3>1
  <2>4. BytesOut(v)'
    BY <1>1, <1>2, <1>3, <1>6, <1>7, <1>10, <2>1, <2>3 DEF StreamRight, BytesOut
  <2> QED
    BY <1>8, <1>9, <2>4 DEF StreamRight
<1>11. ASSUME vis[v] = "closing", writer'[v] = "broken" PROVE StreamRight(v)'
  <2>1. BytesOut(v)'
    BY <1>2, <1>7, <1>11 DEF BytesOut
  <2> QED
    BY <1>8, <1>9, <2>1 DEF StreamRight
<1>12. ASSUME Head(events[v]) \in {"end", "abort"}, writer'[v] = "over", got' = got
       PROVE  StreamRight(v)'
  <2>1. IsEnd(events[v][1]) /\ 1 \in 1 .. Len(events[v])
    BY <1>4, <1>12 DEF IsEnd
  <2>2. Len(events[v]) = 1 /\ work[v] = "over" /\ NoFrames(v) /\ EndQueued(v)
    BY <1>1, <2>1 DEF StreamRight, BytesOut, EndIsLast, EndQueued
  <2>3. Occurs(to_server[c], Message(v, "chunk")) = 0
    BY <1>1, <2>2, UsedNever DEF NoFrames, TypeOK
  <2>4. Occurs(events[v], "chunk") = 0
    <3>1. \A i \in 1 .. Len(events[v]) : events[v][i] # "chunk"
      BY <1>4, <1>12, <2>2
    <3> QED
      BY <1>4, <3>1, OccursNever
  <2>5. got[v] + 0 + 0 = sent[v] /\ got[v] \in Nat
    BY <1>1, <1>2, <1>3, <2>2, <2>3, <2>4 DEF StreamRight, BytesOut, TypeOK
  <2>6. got'[v] = sent'[v] /\ work'[v] = "over"
    BY <1>6, <1>12, <2>2, <2>5
  <2>7. vis'[v] # "opening" \/ v \in pending'
    BY <1>1, <1>2 DEF StreamRight, BytesOut
  <2>8. BytesOut(v)'
    BY <1>7, <1>12, <2>6, <2>7 DEF BytesOut
  <2> QED
    BY <1>8, <1>9, <2>8 DEF StreamRight
<1>13. StreamRight(v)'
  BY ZenonT(60), <1>1, <1>10, <1>11, <1>12 DEF Write, TypeOK
<1>14. TypeOK /\ Transfers /\ goal'[v] = goal[v] /\ vis'[v] = vis[v]
  BY <1>2 DEF IInv
<1> QED
  BY <1>2, <1>13, <1>14, OneStreamAlone

-----------------------------------------------------------------------------
(* The poll and the control connections.                                   *)

LEMMA PollTransfers ==
  ASSUME TypeOK, Transfers, UNCHANGED <<vis, writer, goal, up, got, work, sent, local, events, pending>>,
         UNCHANGED <<link, to_client, to_server>>
  PROVE  Transfers'
<1>1. \A v \in Visitors : SameStream(v) /\ SameQueues(v)
  BY QueuesUntouched DEF SameStream
<1>2. \A v \in Visitors : StreamRight(v)'
  BY <1>1, OtherStream DEF Transfers
<1>3. \A c \in ConnId : to_client'[c] = to_client[c] /\ (link'[c] # "up" => to_client[c] = <<>>)
  BY DEF Transfers, MessagesRight
<1>4. MessagesRight'
  BY <1>3, MessagesKept DEF Transfers
<1>5. FramesRight'
  BY FramesKept DEF Transfers
<1> QED
  BY <1>2, <1>4, <1>5 DEF Transfers

\* A stream whose connection is not up yet has not been opened.
LEMMA ConnectTransfers ==
  ASSUME IInv, TypeOK', NEW c \in ConnId, PrepareTcp(c) \/ RegisterClient(c) PROVE Transfers'
<1>1. /\ link[c] \in {"none", "prepared"} /\ \A d \in ConnId : d # c => link'[d] = link[d]
      /\ UNCHANGED <<relayVars, pending, events, to_client, to_server, work, sent, local>>
  BY DEF PrepareTcp, RegisterClient, IInv, TypeOK
<1>2. \A v \in Visitors : SameStream(v) /\ SameQueues(v)
  BY <1>1, QueuesUntouched DEF SameStream, relayVars
<1>3. ASSUME NEW v \in Visitors PROVE StreamRight(v)'
  <2>1. StreamRight(v) /\ TypeOK
    BY DEF IInv, Transfers
  <2>2. CASE goal[v].conn # c
    BY <1>1, <1>2, <2>1, <2>2, OtherStream
  <2>3. CASE goal[v].conn = c
    <3>1. writer[v] = "none"
      BY <1>1, <2>1, <2>3 DEF StreamRight, Opened
    <3>2. Unopened(v) /\ work[v] = "none"
      BY <1>1, <2>1, <2>3, <3>1 DEF StreamRight, Unopened
    <3>3. Unopened(v)'
      BY <1>1, <3>1, <3>2 DEF Unopened, NoMessages, NoFrames, relayVars
    <3>4. Idle(v)'
      BY <1>1, <2>1, <3>1, <3>3 DEF Idle, StreamRight, Opened, BytesOut, relayVars
    <3> QED
      BY <3>4, IdleRightNext
  <2> QED
    BY <2>2, <2>3
<1>4. \A d \in ConnId : to_client'[d] = to_client[d] /\ (link'[d] # "up" => to_client[d] = <<>>)
  BY <1>1 DEF IInv, Transfers, MessagesRight
<1>5. MessagesRight'
  BY <1>1, <1>4, MessagesKept DEF IInv, Transfers, relayVars
<1>6. FramesRight'
  BY <1>1, FramesKept DEF IInv, Transfers, relayVars
<1> QED
  BY <1>3, <1>5, <1>6 DEF Transfers

\* With the link the client loses its streams, and what was on its way to it.
LEMMA LinkLostTransfers ==
  ASSUME IInv, TypeOK', NEW c \in ConnId, LinkLost(c) PROVE Transfers'
<1>1. /\ TypeOK /\ link[c] = "up" /\ link'[c] = "down" /\ to_client'[c] = <<>>
      /\ \A d \in ConnId : d # c => link'[d] = link[d] /\ to_client'[d] = to_client[d]
      /\ \A v \in Visitors : work'[v] = IF goal[v].conn = c THEN "over" ELSE work[v]
      /\ UNCHANGED <<relayVars, pending, events, to_server, sent, local>>
  BY DEF LinkLost, IInv, TypeOK, regVars
<1>2. ASSUME NEW v \in Visitors PROVE StreamRight(v)'
  <2>1. StreamRight(v)
    BY DEF IInv, Transfers
  <2>2. CASE goal[v].conn # c
    <3>1. ~Uses(v, to_client[c])
      BY <2>2, QueueTypes DEF IInv, Transfers, MessagesRight, MessageRight, Uses
    <3>2. ~Uses(v, <<>>) /\ <<>> \in Seq(MsgSet)
      BY DEF Uses
    <3>3. SameFor(v, to_client[c], <<>>)
      <4>1. to_client[c] \in Seq(MsgSet)
        BY <1>1 DEF TypeOK
      <4>2. \A k : Occurs(to_client[c], Message(v, k)) = 0
        BY <3>1, <4>1, UsedNever
      <4>3. \A k : Occurs(<<>>, Message(v, k)) = 0
        BY <3>2, UsedNever
      <4> QED
        BY <3>1, <3>2, <4>2, <4>3 DEF SameFor
    <3>4. SameQueues(v)
      <4> SUFFICES ASSUME NEW d \in ConnId PROVE SameFor(v, to_client[d], to_client'[d])
        BY <1>1 DEF SameQueues, SameFor
      <4>1. CASE d = c
        BY <1>1, <3>3, <4>1
      <4>2. CASE d # c
        BY <1>1, <4>2 DEF SameFor
      <4> QED
        BY <4>1, <4>2
    <3>5. SameStream(v)
      BY <1>1, <2>2 DEF SameStream, relayVars
    <3> QED
      BY <1>1, <2>1, <2>2, <3>4, <3>5, OtherStream
  <2>3. CASE goal[v].conn = c
    <3>1. /\ work'[v] = "over" /\ goal'[v].conn = c /\ link'[c] = "down" /\ c # None
          /\ NoFrames(v)' <=> NoFrames(v)
          /\ UNCHANGED <<vis, writer, goal, up, got, events, pending, sent, local, to_server>>
      BY <1>1, <2>3, Basics DEF relayVars, NoFrames
    <3>2. ASSUME NoMessages(v) PROVE NoMessages(v)'
      <4> SUFFICES ASSUME NEW d \in ConnId PROVE ~Uses(v, to_client'[d])
        BY DEF NoMessages
      <4>1. CASE d = c
        BY <1>1, <4>1 DEF Uses
      <4>2. CASE d # c
        BY <1>1, <3>2, <4>2 DEF NoMessages
      <4> QED
        BY <4>1, <4>2
    <3>3. Unopened(v)'
      BY <2>1, <3>1, <3>2 DEF StreamRight, Unopened
    <3>4. Opened(v)'
      BY <2>1, <3>1 DEF StreamRight, Opened
    <3>5. BytesIn(v)'
      BY <3>1 DEF BytesIn
    <3>6. EndIsLast(v)' /\ (EndQueued(v)' <=> EndQueued(v))
      BY <2>1, <3>1 DEF StreamRight, BytesOut, EndIsLast, EndQueued
    <3>7. BytesOut(v)'
      BY <1>1, <2>1, <2>3, <3>1, <3>6 DEF StreamRight, BytesOut
    <3> QED
      BY <3>3, <3>4, <3>5, <3>7 DEF StreamRight
  <2> QED
    BY <2>2, <2>3
<1>3. MessagesRight'
  <2>1. \A d \in ConnId : link'[d] # "up" => to_client'[d] = <<>>
    BY <1>1 DEF IInv, Transfers, MessagesRight
  <2>2. ASSUME NEW d \in ConnId, NEW i \in 1 .. Len(to_client'[d]) PROVE MessageRight(d, i)'
    <3>1. d # c /\ to_client'[d] = to_client[d] /\ i \in 1 .. Len(to_client[d])
      BY <1>1, <2>2
    <3>2. MessageRight(d, i)
      BY <3>1 DEF IInv, Transfers, MessagesRight
    <3>3. PICK v \in Visitors : v = to_client[d][i].stream
      BY <1>1, <3>1, QueueTypes
    <3>4. goal[v].conn = d /\ work'[v] = work[v] /\ UNCHANGED <<vis, goal>>
      BY <1>1, <3>1, <3>2, <3>3 DEF MessageRight, relayVars
    <3> QED
      BY <3>1, <3>2, <3>3, <3>4 DEF MessageRight
  <2> QED
    BY <2>1, <2>2 DEF MessagesRight
<1>4. FramesRight'
  BY <1>1, FramesKept DEF IInv, Transfers, relayVars
<1> QED
  BY <1>2, <1>3, <1>4 DEF Transfers

\* Behind an End no frame is lost with the connection.
LEMMA ClosesTransfers ==
  ASSUME IInv, TypeOK', NEW c \in ConnId, ServerCloses(c) PROVE Transfers'
<1>1. /\ TypeOK /\ link[c] = "down" /\ link'[c] = "closed" /\ to_server'[c] = <<>>
      /\ \A d \in ConnId : d # c => link'[d] = link[d] /\ to_server'[d] = to_server[d]
      /\ UNCHANGED <<relayVars, pending, events, to_client, work, sent, local>>
  BY DEF ServerCloses, IInv, TypeOK
<1>2. ASSUME NEW v \in Visitors PROVE StreamRight(v)'
  <2>1. StreamRight(v)
    BY DEF IInv, Transfers
  <2>2. CASE goal[v].conn # c
    <3>1. ~Uses(v, to_server[c])
      BY <2>2, QueueTypes DEF IInv, Transfers, FramesRight, FrameRight, Uses
    <3>2. ~Uses(v, <<>>) /\ <<>> \in Seq(FrameSet)
      BY DEF Uses
    <3>3. SameFor(v, to_server[c], <<>>)
      <4>1. to_server[c] \in Seq(FrameSet)
        BY <1>1 DEF TypeOK
      <4>2. \A k : Occurs(to_server[c], Message(v, k)) = 0
        BY <3>1, <4>1, UsedNever
      <4>3. \A k : Occurs(<<>>, Message(v, k)) = 0
        BY <3>2, UsedNever
      <4> QED
        BY <3>1, <3>2, <4>2, <4>3 DEF SameFor
    <3>4. SameQueues(v)
      <4> SUFFICES ASSUME NEW d \in ConnId PROVE SameFor(v, to_server[d], to_server'[d])
        BY <1>1 DEF SameQueues, SameFor
      <4>1. CASE d = c
        BY <1>1, <3>3, <4>1
      <4>2. CASE d # c
        BY <1>1, <4>2 DEF SameFor
      <4> QED
        BY <4>1, <4>2
    <3>5. SameStream(v)
      BY <1>1, <2>2 DEF SameStream, relayVars
    <3> QED
      BY <1>1, <2>1, <2>2, <3>4, <3>5, OtherStream
  <2>3. CASE goal[v].conn = c
    <3>1. /\ goal'[v].conn = c /\ link'[c] = "closed" /\ ~Up(v)' /\ ~Up(v)
          /\ NoMessages(v)' <=> NoMessages(v)
          /\ UNCHANGED <<vis, writer, goal, up, got, events, pending, sent, local, work>>
      BY <1>1, <2>3 DEF relayVars, NoMessages, Up
    <3>2. ASSUME NoFrames(v) PROVE NoFrames(v)'
      <4> SUFFICES ASSUME NEW d \in ConnId PROVE ~Uses(v, to_server'[d])
        BY DEF NoFrames
      <4>1. CASE d = c
        BY <1>1, <4>1 DEF Uses
      <4>2. CASE d # c
        BY <1>1, <3>2, <4>2 DEF NoFrames
      <4> QED
        BY <4>1, <4>2
    <3>3. Unopened(v)'
      BY <1>1, <2>1, <2>3, <3>1, <3>2 DEF StreamRight, Unopened
    <3>4. Opened(v)'
      BY <2>1, <3>1 DEF StreamRight, Opened
    <3>5. BytesIn(v)'
      BY <2>1, <3>1 DEF StreamRight, BytesIn
    <3>6. EndIsLast(v)' /\ (EndQueued(v)' <=> EndQueued(v))
      BY <2>1, <3>1, <3>2 DEF StreamRight, BytesOut, EndIsLast, EndQueued
    <3>7. EndQueued(v) => Occurs(to_server[c], Message(v, "chunk")) = 0
      <4>1. EndQueued(v) => NoFrames(v)
        BY <2>1 DEF StreamRight, BytesOut, EndIsLast, EndQueued
      <4> QED
        BY <1>1, <4>1, UsedNever DEF NoFrames, TypeOK
    <3>8. Occurs(to_server'[c], Message(v, "chunk")) = 0
      <4>1. ~Uses(v, <<>>) /\ <<>> \in Seq(FrameSet)
        BY DEF Uses
      <4> QED
        BY <1>1, <4>1, UsedNever
    <3>9. BytesOut(v)'
      BY <1>1, <2>1, <2>3, <3>1, <3>6, <3>7, <3>8 DEF StreamRight, BytesOut
    <3> QED
      BY <3>3, <3>4, <3>5, <3>9 DEF StreamRight
  <2> QED
    BY <2>2, <2>3
<1>3. MessagesRight'
  <2>1. \A d \in ConnId : to_client'[d] = to_client[d] /\ (link'[d] # "up" => to_client[d] = <<>>)
    BY <1>1 DEF IInv, Transfers, MessagesRight
  <2> QED
    BY <1>1, <2>1, MessagesKept DEF IInv, Transfers, relayVars
<1>4. FramesRight'
  <2> SUFFICES ASSUME NEW d \in ConnId, NEW i \in 1 .. Len(to_server'[d]) PROVE FrameRight(d, i)'
    BY DEF FramesRight
  <2>1. d # c /\ to_server'[d] = to_server[d] /\ i \in 1 .. Len(to_server[d])
    BY <1>1
  <2>2. FrameRight(d, i)
    BY <2>1 DEF IInv, Transfers, FramesRight
  <2>3. UNCHANGED <<work, goal>>
    BY <1>1 DEF relayVars
  <2> QED
    BY <2>1, <2>2, <2>3 DEF FrameRight
<1> QED
  BY <1>2, <1>3, <1>4 DEF Transfers

-----------------------------------------------------------------------------
(* What the server receives.                                               *)

LEMMA FrameTaken ==
  ASSUME IInv, NEW c \in ConnId, TakeFrame(c)
  PROVE  /\ FramesRight' /\ MessagesRight'
         /\ \A w \in Visitors : w # Head(to_server[c]).stream => SameQueues(w)
<1>1. /\ TypeOK /\ to_server[c] \in Seq(FrameSet) /\ to_server[c] # <<>>
      /\ to_server'[c] = Tail(to_server[c]) /\ \A d \in ConnId : d # c => to_server'[d] = to_server[d]
      /\ UNCHANGED <<relayVars, link, to_client, work>>
  BY Taken DEF TakeFrame, IInv
<1>2. /\ Len(to_server[c]) \in Nat \ {0} /\ Len(to_server'[c]) = Len(to_server[c]) - 1
      /\ \A i \in 1 .. Len(to_server[c]) - 1 : to_server'[c][i] = to_server[c][i + 1]
  BY <1>1, TailOf
<1>3. ASSUME NEW d \in ConnId, NEW i \in 1 .. Len(to_server'[d]) PROVE FrameRight(d, i)'
  <2>1. CASE d # c
    <3>1. FrameRight(d, i)
      BY <1>1, <1>3, <2>1 DEF IInv, Transfers, FramesRight
    <3> QED
      BY <1>1, <2>1, <3>1 DEF FrameRight, relayVars
  <2>2. CASE d = c
    <3>1. i + 1 \in 1 .. Len(to_server[c]) /\ to_server'[c][i] = to_server[c][i + 1]
      BY <1>2, <1>3, <2>2
    <3>2. FrameRight(c, i + 1)
      BY <3>1 DEF IInv, Transfers, FramesRight
    <3>3. ASSUME NEW j \in i + 1 .. Len(to_server'[c])
          PROVE  j + 1 \in (i + 1) + 1 .. Len(to_server[c]) /\ to_server'[c][j] = to_server[c][j + 1]
      BY <1>2, <2>2, <1>3
    <3>4. UNCHANGED <<work, goal>>
      BY <1>1 DEF relayVars
    <3> QED
      BY <2>2, <3>1, <3>2, <3>3, <3>4 DEF FrameRight
  <2> QED
    BY <2>1, <2>2
<1>4. MessagesRight'
  <2>1. \A d \in ConnId : to_client'[d] = to_client[d] /\ (link'[d] # "up" => to_client[d] = <<>>)
    BY <1>1 DEF IInv, Transfers, MessagesRight
  <2> QED
    BY <1>1, <2>1, MessagesKept DEF IInv, Transfers, relayVars
<1>5. ASSUME NEW w \in Visitors, w # Head(to_server[c]).stream PROVE SameQueues(w)
  <2> SUFFICES ASSUME NEW d \in ConnId PROVE SameFor(w, to_server[d], to_server'[d])
    BY <1>1 DEF SameQueues, SameFor
  <2>1. CASE d = c
    BY <1>1, <1>5, <2>1, SameAhead
  <2>2. CASE d # c
    BY <1>1, <2>2 DEF SameFor
  <2> QED
    BY <2>1, <2>2
<1> QED
  BY <1>3, <1>4, <1>5 DEF FramesRight

\* The frame's stream: before an End there is none in the channel.
LEMMA ReceivedTransfers ==
  ASSUME IInv, TypeOK', NEW c \in ConnId, ServerRecv(c) PROVE Transfers'
<1>1. TakeFrame(c) /\ TypeOK
  BY DEF ServerRecv, RecvChunk, RecvEndOrAbort, IInv
<1>2. PICK v \in Visitors, kind \in EventSet :
        v = Head(to_server[c]).stream /\ kind = Head(to_server[c]).kind
  BY <1>1, Taken
<1>3. /\ to_server[c] # <<>> /\ to_server[c] \in Seq(FrameSet) /\ link[c] \in {"up", "down"}
      /\ to_server'[c] = Tail(to_server[c]) /\ to_server[c][1].stream = v /\ to_server[c][1].kind = kind
      /\ 1 \in 1 .. Len(to_server[c]) /\ Head(to_server[c]) = Message(v, kind)
      /\ \A d \in ConnId \ {c} : to_server'[d] = to_server[d]
  <2>1. /\ to_server[c] # <<>> /\ to_server[c] \in Seq(FrameSet)
        /\ Head(to_server[c]) = to_server[c][1] /\ 1 \in 1 .. Len(to_server[c])
        /\ to_server'[c] = Tail(to_server[c]) /\ \A d \in ConnId \ {c} : to_server'[d] = to_server[d]
    BY <1>1, Taken
  <2>2. to_server[c][1] = Message(v, kind)
    BY <1>1, <1>2, <2>1, QueueTypes
  <2>3. link[c] \in {"up", "down"}
    BY <1>1 DEF TakeFrame
  <2> QED
    BY <1>2, <2>1, <2>2, <2>3
<1>4. /\ FramesRight' /\ MessagesRight'
      /\ \A w \in Visitors : w # v => SameQueues(w)
  BY <1>1, <1>2, FrameTaken
<1>5. /\ UNCHANGED <<vis, writer, goal, up, got, link, to_client, work, sent, local>>
      /\ \A w \in Visitors : w # v => SameStream(w)
      /\ events'[v] = IF v \in pending /\ writer[v] = "running" THEN Append(events[v], kind) ELSE events[v]
      /\ pending' = IF kind = "chunk" THEN pending ELSE pending \ {v}
  BY <1>1, <1>2 DEF ServerRecv, RecvChunk, RecvEndOrAbort, TakeFrame, RouteEvent, SameStream, relayVars,
                    TypeOK, EventSet
<1>6. StreamRight(v) /\ FrameRight(c, 1)
  BY <1>3 DEF IInv, Transfers, FramesRight
<1>7. goal[v].conn = c /\ ~NoFrames(v)
  BY <1>3, <1>6 DEF FrameRight, NoFrames, Uses
<1>8. writer[v] # "none" /\ vis[v] # "opening" /\ ~EndQueued(v)
  BY <1>6, <1>7 DEF StreamRight, Unopened, Opened, BytesOut, EndIsLast, EndQueued
<1>9. Unopened(v)' /\ Opened(v)'
  BY <1>5, <1>6, <1>8 DEF StreamRight, Unopened, Opened
<1>10. BytesIn(v)'
  <2>1. Up(v)' <=> Up(v)
    BY <1>5 DEF Up
  <2>2. NoMessages(v)' <=> NoMessages(v)
    BY <1>5 DEF NoMessages
  <2> QED
    BY <1>5, <1>6, <2>1, <2>2 DEF StreamRight, BytesIn
<1>11. ASSUME writer[v] # "running" PROVE BytesOut(v)'
  <2>1. events'[v] = events[v] /\ EndIsLast(v)'
    BY <1>5, <1>8, <1>11 DEF EndIsLast, EndQueued
  <2> QED
    BY <1>5, <1>6, <1>8, <1>11, <2>1 DEF StreamRight, BytesOut
<1>12. ASSUME writer[v] = "running" PROVE BytesOut(v)'
  <2>1. v \in pending /\ events'[v] = Append(events[v], kind)
    BY <1>5, <1>6, <1>8, <1>12 DEF StreamRight, BytesOut
  <2>2. /\ events[v] \in Seq(EventSet) /\ Len(events[v]) \in Nat /\ Len(events'[v]) = Len(events[v]) + 1
        /\ events'[v][Len(events[v]) + 1] = kind
        /\ \A i \in 1 .. Len(events[v]) : events'[v][i] = events[v][i] /\ ~IsEnd(events[v][i])
    BY <1>1, <1>8, <2>1, Appended DEF TypeOK, EndQueued
  <2>3. Occurs(events'[v], "chunk") =
          IF kind = "chunk" THEN Occurs(events[v], "chunk") + 1 ELSE Occurs(events[v], "chunk")
    BY <2>1, <2>2, OccursAppended
  <2>4. Occurs(to_server[c], Message(v, "chunk")) =
          IF kind = "chunk" THEN Occurs(to_server'[c], Message(v, "chunk")) + 1
                            ELSE Occurs(to_server'[c], Message(v, "chunk"))
    <3>1. CASE kind = "chunk"
      BY <1>3, <3>1, CountAhead
    <3>2. CASE kind # "chunk"
      BY <1>3, <3>2, CountAhead
    <3> QED
      BY <3>1, <3>2
  <2>5. /\ got[v] \in Nat /\ Occurs(events[v], "chunk") \in Nat
        /\ Occurs(to_server'[c], Message(v, "chunk")) \in Nat
    BY <1>1, <1>3, <2>2, OccursType, TailOf DEF TypeOK
  <2>6. got[v] + Occurs(events[v], "chunk") + Occurs(to_server[c], Message(v, "chunk")) = sent[v]
    BY <1>3, <1>6, <1>7, <1>12 DEF StreamRight, BytesOut
  <2>7. got[v] + Occurs(events'[v], "chunk") + Occurs(to_server'[c], Message(v, "chunk")) = sent[v]
    BY <2>3, <2>4, <2>5, <2>6
  <2>8. IsEnd(kind) => work[v] = "over" /\ NoFrames(v)'
    <3> SUFFICES ASSUME IsEnd(kind), NEW d \in ConnId PROVE work[v] = "over" /\ ~Uses(v, to_server'[d])
      BY DEF NoFrames
    <3>1. work[v] = "over" /\ \A j \in 2 .. Len(to_server[c]) : to_server[c][j].stream # v
      BY <1>3, <1>6 DEF FrameRight
    <3>2. CASE d = c
      <4>1. /\ Len(to_server'[c]) = Len(to_server[c]) - 1 /\ Len(to_server[c]) \in Nat
            /\ \A j \in 1 .. Len(to_server[c]) - 1 : to_server'[c][j] = to_server[c][j + 1]
        BY <1>3, TailOf
      <4>2. ASSUME NEW j \in 1 .. Len(to_server'[c]) PROVE to_server'[c][j].stream # v
        <5>1. j + 1 \in 2 .. Len(to_server[c]) /\ to_server'[c][j] = to_server[c][j + 1]
          BY <4>1, <4>2
        <5> QED
          BY <3>1, <5>1
      <4> QED
        BY <3>1, <3>2, <4>2 DEF Uses
    <3>3. CASE d # c
      BY <1>3, <1>7, <3>1, <3>3, QueueTypes DEF IInv, Transfers, FramesRight, FrameRight, Uses
    <3> QED
      BY <3>2, <3>3
  <2>9. EndIsLast(v)'
    <3> SUFFICES ASSUME NEW i \in 1 .. Len(events'[v]), IsEnd(events'[v][i])
                 PROVE  i = Len(events'[v]) /\ work'[v] = "over" /\ NoFrames(v)'
      BY DEF EndIsLast
    <3>1. i = Len(events[v]) + 1
      BY <2>2
    <3> QED
      BY <1>5, <2>2, <2>8, <3>1
  <2>10. v \notin pending' => EndQueued(v)'
    <3>1. kind # "chunk" => IsEnd(kind)
      BY DEF IsEnd, EventSet
    <3>2. Len(events[v]) + 1 \in 1 .. Len(events'[v])
      BY <2>2
    <3> QED
      BY <1>5, <2>1, <2>2, <3>1, <3>2 DEF EndQueued
  <2> QED
    BY <1>5, <1>7, <1>8, <1>12, <2>7, <2>9, <2>10 DEF BytesOut
<1>13. StreamRight(v)'
  BY <1>9, <1>10, <1>11, <1>12 DEF StreamRight
<1> QED
  BY <1>1, <1>4, <1>5, <1>13, OneStream DEF IInv

-----------------------------------------------------------------------------
(* The client.                                                             *)

LEMMA ConnectedTransfers ==
  ASSUME IInv, TypeOK', NEW v \in Visitors, LocalConnects(v) PROVE Transfers'
<1>1. StreamRight(v) /\ TypeOK
  BY DEF IInv, Transfers
<1>2. /\ Up(v) /\ UNCHANGED <<regVars, relayVars, link, to_client, to_server, sent, local>>
      /\ \/ work[v] = "connecting" /\ work'[v] = "open"
         \/ work[v] = "doomed" /\ work'[v] = "closing"
      /\ \A w \in Visitors : w # v => work'[w] = work[w]
  BY <1>1 DEF LocalConnects, Works, TypeOK
<1>3. \A w \in Visitors : w # v => SameStream(w)
  BY <1>2 DEF SameStream, regVars, relayVars
<1>4. \A w \in Visitors : SameQueues(w)
  BY <1>2, QueuesUntouched
<1>5. Up(v)' /\ (NoMessages(v)' <=> NoMessages(v)) /\ writer[v] # "none"
  BY <1>1, <1>2 DEF Up, NoMessages, relayVars, StreamRight, Unopened
<1>6. Unopened(v)' /\ Opened(v)'
  BY <1>1, <1>2, <1>5 DEF StreamRight, Unopened, Opened, regVars, relayVars
<1>7. BytesIn(v)'
  BY <1>1, <1>2, <1>5 DEF StreamRight, BytesIn, relayVars
<1>8. ~EndQueued(v) /\ EndIsLast(v)' /\ ~EndQueued(v)'
  BY <1>1, <1>2 DEF StreamRight, BytesOut, EndIsLast, EndQueued, regVars
<1>9. BytesOut(v)'
  BY <1>1, <1>2, <1>8 DEF StreamRight, BytesOut, regVars, relayVars
<1>10. MessagesRight'
  <2>1. \A d \in ConnId : to_client'[d] = to_client[d] /\ (link'[d] # "up" => to_client[d] = <<>>)
    BY <1>2 DEF IInv, Transfers, MessagesRight
  <2>2. UNCHANGED <<goal, vis>>
    BY <1>2 DEF relayVars
  <2>3. \A w \in Visitors : /\ work[w] = "none" => work'[w] = "none"
                            /\ work'[w] \in {"doomed", "closing"} => work[w] \in {"doomed", "closing"}
    BY <1>2
  <2> QED
    BY <1>1, <2>1, <2>2, <2>3, MessagesKept DEF IInv, Transfers
<1>11. FramesRight'
  <2>1. \A w \in Visitors : goal'[w] = goal[w] /\ (work[w] = "over" => work'[w] = "over")
    BY <1>2 DEF relayVars
  <2> QED
    BY <1>1, <1>2, <2>1, FramesKept DEF IInv, Transfers
<1>12. StreamRight(v)'
  BY <1>6, <1>7, <1>9 DEF StreamRight
<1> QED
  BY <1>1, <1>2, <1>3, <1>4, <1>10, <1>11, <1>12, OneStream DEF IInv

\* A frame is sent for a stream the client has and that has not ended.
LEMMA FrameSentTransfers ==
  ASSUME IInv, TypeOK', NEW v \in Visitors, NEW kind \in {"chunk", "end", "abort"},
         Up(v), SendFrame(v, kind), work[v] \notin {"none", "over"},
         UNCHANGED <<regVars, relayVars, link, to_client, local>>,
         work'[v] = IF kind = "chunk" THEN work[v] ELSE "over",
         sent'[v] = IF kind = "chunk" THEN sent[v] + 1 ELSE sent[v],
         \A w \in Visitors : w # v => work'[w] = work[w] /\ sent'[w] = sent[w]
  PROVE  Transfers'
<1>1. StreamRight(v) /\ TypeOK
  BY DEF IInv, Transfers
<1>2. PICK c \in ConnId : c = goal[v].conn /\ link[c] = "up"
  BY DEF Up
<1>3. UNCHANGED <<vis, writer, goal, up, got, events, pending, link, to_client, local>>
  BY DEF regVars, relayVars
<1>4. writer[v] # "none" /\ writer[v] # "over" /\ ~EndQueued(v)
  BY <1>1 DEF StreamRight, Unopened, BytesOut, EndIsLast, EndQueued
<1>5. /\ to_server'[c] = Append(to_server[c], Message(v, kind)) /\ to_server[c] \in Seq(FrameSet)
      /\ Message(v, kind) \in FrameSet
  <2>1. to_server'[c] = Append(to_server[c], Message(v, kind))
    BY <1>1, <1>2, ClientSends
  <2>2. Message(v, kind) \in FrameSet
    BY Messages
  <2> QED
    BY <1>1, <2>1, <2>2 DEF TypeOK
<1>6. Occurs(to_server'[c], Message(v, "chunk")) =
        IF kind = "chunk" THEN Occurs(to_server[c], Message(v, "chunk")) + 1
                          ELSE Occurs(to_server[c], Message(v, "chunk"))
  <2>1. CASE kind = "chunk"
    BY <1>5, <2>1, CountBehind
  <2>2. CASE kind # "chunk"
    BY <1>5, <2>2, CountBehind
  <2> QED
    BY <2>1, <2>2
<1>7. /\ got[v] \in Nat /\ Occurs(events[v], "chunk") \in Nat
      /\ Occurs(to_server[c], Message(v, "chunk")) \in Nat
  BY <1>1, <1>5, OccursType DEF TypeOK
<1>8. Unopened(v)' /\ Opened(v)'
  BY <1>1, <1>3, <1>4 DEF StreamRight, Unopened, Opened
<1>9. BytesIn(v)'
  <2>1. (Up(v)' <=> Up(v)) /\ (NoMessages(v)' <=> NoMessages(v))
    BY <1>3 DEF Up, NoMessages
  <2>2. CASE kind = "chunk"
    BY <1>1, <1>3, <2>1, <2>2 DEF StreamRight, BytesIn
  <2>3. CASE kind # "chunk"
    BY <2>3 DEF BytesIn
  <2> QED
    BY <2>2, <2>3
<1>10. ~EndQueued(v)' /\ EndIsLast(v)'
  BY <1>3, <1>4 DEF EndIsLast, EndQueued
<1>11. BytesOut(v)'
  <2>1. writer[v] = "running" =>
          got[v] + Occurs(events[v], "chunk") + Occurs(to_server[c], Message(v, "chunk")) = sent[v]
    BY <1>1, <1>2 DEF StreamRight, BytesOut
  <2>2. writer[v] = "running" =>
          got[v] + Occurs(events[v], "chunk") + Occurs(to_server'[c], Message(v, "chunk")) = sent'[v]
    BY <1>6, <1>7, <2>1
  <2> QED
    BY <1>1, <1>2, <1>3, <1>4, <1>10, <2>2 DEF StreamRight, BytesOut
<1>12. \A w \in Visitors : w # v => SameStream(w)
  BY <1>3 DEF SameStream
<1>13. \A w \in Visitors : w # v => SameQueues(w)
  BY <1>1, <1>3, FrameSentOthers
<1>14. MessagesRight'
  <2>1. \A d \in ConnId : to_client'[d] = to_client[d] /\ (link'[d] # "up" => to_client[d] = <<>>)
    BY <1>3 DEF IInv, Transfers, MessagesRight
  <2>2. \A w \in Visitors : /\ work[w] = "none" => work'[w] = "none"
                            /\ work'[w] \in {"doomed", "closing"} => work[w] \in {"doomed", "closing"}
    OBVIOUS
  <2> QED
    BY <1>1, <1>3, <2>1, <2>2, MessagesKept DEF IInv, Transfers
<1>15. FramesRight'
  <2>1. IsEnd(kind) => work'[v] = "over"
    BY DEF IsEnd
  <2>2. FramesRight /\ goal' = goal
    BY <1>3 DEF IInv, Transfers
  <2> QED
    BY <1>1, <2>1, <2>2, FrameSent
<1>16. StreamRight(v)'
  BY <1>8, <1>9, <1>11 DEF StreamRight
<1> QED
  BY <1>1, <1>3, <1>12, <1>13, <1>14, <1>15, <1>16, OneStream DEF IInv

\* The lite client's close for the visitor, which it does not report.
LEMMA SilentTransfers ==
  ASSUME IInv, TypeOK', NEW v \in Visitors, ClosedForVisitor(v), ~EndsOnClose PROVE Transfers'
<1>1. StreamRight(v) /\ TypeOK
  BY DEF IInv, Transfers
<1>2. /\ UNCHANGED <<vis, writer, goal, up, got, events, pending, link, to_client, to_server, sent, local>>
      /\ work[v] = "closing" /\ work'[v] = "over"
      /\ \A w \in Visitors : w # v => work'[w] = work[w]
  BY <1>1 DEF ClosedForVisitor, Works, TypeOK, regVars, relayVars
<1>3. writer[v] # "none" /\ writer[v] # "over" /\ ~EndQueued(v)
  BY <1>1, <1>2 DEF StreamRight, Unopened, BytesOut, EndIsLast, EndQueued
<1>4. Unopened(v)' /\ Opened(v)'
  BY <1>1, <1>2, <1>3 DEF StreamRight, Unopened, Opened
<1>5. BytesIn(v)'
  BY <1>2 DEF BytesIn
<1>6. ~EndQueued(v)' /\ EndIsLast(v)'
  BY <1>2, <1>3 DEF EndIsLast, EndQueued
<1>7. BytesOut(v)'
  BY <1>1, <1>2, <1>3, <1>6 DEF StreamRight, BytesOut
<1>8. \A w \in Visitors : (w # v => SameStream(w)) /\ SameQueues(w)
  BY <1>2, QueuesUntouched DEF SameStream
<1>9. MessagesRight'
  <2>1. \A d \in ConnId : to_client'[d] = to_client[d] /\ (link'[d] # "up" => to_client[d] = <<>>)
    BY <1>2 DEF IInv, Transfers, MessagesRight
  <2>2. \A w \in Visitors : /\ work[w] = "none" => work'[w] = "none"
                            /\ work'[w] \in {"doomed", "closing"} => work[w] \in {"doomed", "closing"}
    BY <1>2
  <2> QED
    BY <1>1, <1>2, <2>1, <2>2, MessagesKept DEF IInv, Transfers
<1>10. FramesRight'
  <2>1. \A w \in Visitors : work[w] = "over" => work'[w] = "over"
    BY <1>2
  <2> QED
    BY <1>1, <1>2, <2>1, FramesKept DEF IInv, Transfers
<1>11. StreamRight(v)'
  BY <1>4, <1>5, <1>7 DEF StreamRight
<1> QED
  BY <1>1, <1>2, <1>8, <1>9, <1>10, <1>11, OneStream DEF IInv

LEMMA ClientTransfers ==
  ASSUME IInv, TypeOK', NEW v \in Visitors, LocalConnects(v) \/ ClientAbort(v) \/ ClientStep(v)
  PROVE  Transfers'
<1>1. TypeOK
  BY DEF IInv
<1>2. CASE Abort(v) /\ work[v] \in {"connecting", "doomed", "open", "closing"}
  <2>1. /\ work'[v] = "over" /\ Up(v) /\ SendFrame(v, "abort")
        /\ UNCHANGED <<regVars, relayVars, link, to_client, sent, local>>
        /\ \A w \in Visitors : w # v => work'[w] = work[w]
    BY <1>1, <1>2 DEF Abort, Works, TypeOK
  <2> QED
    BY <1>2, <2>1, FrameSentTransfers
<1>3. CASE LocalChunk(v)
  <2>1. /\ work' = work /\ Up(v) /\ SendFrame(v, "chunk") /\ work[v] \in {"open", "closing"}
        /\ UNCHANGED <<regVars, relayVars, link, to_client, local>> /\ sent'[v] = sent[v] + 1
        /\ \A w \in Visitors : w # v => sent'[w] = sent[w]
    BY <1>1, <1>3 DEF LocalChunk, TypeOK
  <2> QED
    BY <2>1, FrameSentTransfers
<1>4. CASE LocalEnds(v) \/ (ClosedForVisitor(v) /\ EndsOnClose)
  <2>1. /\ work'[v] = "over" /\ Up(v) /\ SendFrame(v, "end") /\ work[v] \in {"open", "closing"}
        /\ UNCHANGED <<regVars, relayVars, link, to_client, sent, local>>
        /\ \A w \in Visitors : w # v => work'[w] = work[w]
    BY <1>1, <1>4 DEF LocalEnds, ClosedForVisitor, Works, TypeOK
  <2> QED
    BY <2>1, FrameSentTransfers
<1>5. CASE ClosedForVisitor(v) /\ ~EndsOnClose
  BY <1>5, SilentTransfers
<1>6. CASE LocalConnects(v)
  BY <1>6, ConnectedTransfers
<1> QED
  BY <1>2, <1>3, <1>4, <1>5, <1>6 DEF ClientAbort, ClientStep, SocketError

\* The client takes a message: behind an OpenStream only the rest of its stream,
\* behind a CloseStream nothing.
LEMMA TakenTransfers ==
  ASSUME IInv, TypeOK', NEW c \in ConnId, ClientTakes(c) PROVE Transfers'
<1>1. TypeOK /\ link[c] = "up" /\ to_client[c] \in Seq(MsgSet) /\ to_client[c] # <<>>
  BY DEF ClientTakes, IInv, TypeOK
<1>2. /\ Head(to_client[c]) = to_client[c][1] /\ Head(to_client[c]) \in MsgSet
      /\ Len(to_client[c]) \in Nat \ {0} /\ Len(Tail(to_client[c])) = Len(to_client[c]) - 1
      /\ \A i \in 1 .. Len(to_client[c]) - 1 : Tail(to_client[c])[i] = to_client[c][i + 1]
      /\ Tail(to_client[c]) \in Seq(MsgSet)
  BY <1>1, TailOf
<1>3. PICK v \in Visitors, kind \in {"open", "chunk", "close"} :
        v = Head(to_client[c]).stream /\ kind = Head(to_client[c]).kind
  BY <1>2 DEF MsgSet
<1>4. /\ to_client[c][1].stream = v /\ to_client[c][1].kind = kind /\ 1 \in 1 .. Len(to_client[c])
      /\ Head(to_client[c]) = Message(v, kind)
  BY <1>1, <1>2, <1>3, QueueTypes
<1>5. /\ to_client'[c] = Tail(to_client[c]) /\ \A d \in ConnId : d # c => to_client'[d] = to_client[d]
      /\ UNCHANGED <<vis, writer, goal, up, got, events, pending, link, to_server, sent>>
      /\ work'[v] = IF kind = "open" THEN "connecting"
                    ELSE IF kind = "close" THEN AfterClose(v) ELSE work[v]
      /\ local'[v] = IF kind = "chunk" /\ TakesBytes(v) THEN local[v] + 1 ELSE local[v]
      /\ \A w \in Visitors : w # v => work'[w] = work[w] /\ local'[w] = local[w]
  <2>1. /\ to_client' = [to_client EXCEPT ![c] = Tail(to_client[c])] /\ to_client \in [ConnId -> Seq(MsgSet)]
        /\ UNCHANGED <<vis, writer, goal, up, got, events, pending, link, to_server, sent>>
    BY <1>1 DEF ClientTakes, TypeOK, regVars, relayVars
  <2>2. \/ kind = "open" /\ work' = [work EXCEPT ![v] = "connecting"] /\ local' = local
        \/ /\ kind = "chunk" /\ work' = work
           /\ local' = [local EXCEPT ![v] = IF TakesBytes(v) THEN local[v] + 1 ELSE local[v]]
        \/ kind = "close" /\ work' = [work EXCEPT ![v] = AfterClose(v)] /\ local' = local
    BY <1>3 DEF ClientTakes, Works
  <2>3. DOMAIN work = Visitors /\ DOMAIN local = Visitors
        /\ work = [w \in Visitors |-> work[w]] /\ local = [w \in Visitors |-> local[w]]
    BY <1>1 DEF TypeOK
  <2>4. /\ work'[v] = IF kind = "open" THEN "connecting"
                      ELSE IF kind = "close" THEN AfterClose(v) ELSE work[v]
        /\ local'[v] = IF kind = "chunk" /\ TakesBytes(v) THEN local[v] + 1 ELSE local[v]
    BY <2>2, <2>3
  <2>5. \A w \in Visitors : w # v => work'[w] = work[w] /\ local'[w] = local[w]
    BY <2>2, <2>3
  <2> QED
    BY <2>1, <2>4, <2>5
<1>6. StreamRight(v) /\ MessageRight(c, 1)
  BY <1>4 DEF IInv, Transfers, MessagesRight
<1>7. goal[v].conn = c /\ ~NoMessages(v) /\ Up(v) /\ writer[v] # "none"
  <2>1. goal[v].conn = c /\ ~NoMessages(v)
    BY <1>4, <1>6 DEF MessageRight, NoMessages, Uses
  <2> QED
    BY <1>1, <1>6, <2>1 DEF Up, StreamRight, Unopened
<1>8. work[v] \notin {"doomed", "closing"}
  BY <1>6, <1>7 DEF StreamRight, BytesIn
\* Until the OpenStream is taken it is the stream's first message.
<1>9. kind # "open" => work[v] # "none"
  <2> SUFFICES ASSUME kind # "open", work[v] = "none" PROVE FALSE
    OBVIOUS
  <2>1. Occurs(to_client[c], Message(v, "open")) # 0
    BY <1>6, <1>7 DEF StreamRight, BytesIn
  <2>2. PICK i \in 1 .. Len(to_client[c]) : to_client[c][i] = Message(v, "open")
    BY <1>1, <2>1, UsedWhere
  <2>3. to_client[c][i].stream = v /\ to_client[c][i].kind = "open"
    BY <2>2 DEF Message
  <2>4. i # 1 /\ 1 \in 1 .. i - 1
    BY <1>2, <1>4, <2>3
  <2>5. MessageRight(c, i)
    BY DEF IInv, Transfers, MessagesRight
  <2> QED
    BY <1>4, <2>3, <2>4, <2>5 DEF MessageRight
<1>10. kind = "open" => work[v] = "none"
  BY <1>4, <1>6 DEF MessageRight
<1>11. /\ work[v] = "over" => work'[v] = "over"
       /\ work[v] # "over" => work'[v] # "over"
       /\ work'[v] # "none"
       /\ work'[v] \in {"doomed", "closing"} => kind = "close"
  BY <1>5, <1>8, <1>9, <1>10 DEF AfterClose
<1>12. \A w \in Visitors : w # v => SameStream(w)
  BY <1>5 DEF SameStream
<1>13. ASSUME NEW w \in Visitors, w # v PROVE SameQueues(w)
  <2> SUFFICES ASSUME NEW d \in ConnId PROVE SameFor(w, to_client[d], to_client'[d])
    BY <1>5 DEF SameQueues, SameFor
  <2>1. CASE d = c
    BY <1>1, <1>3, <1>5, <1>13, <2>1, SameAhead
  <2>2. CASE d # c
    BY <1>5, <2>2 DEF SameFor
  <2> QED
    BY <2>1, <2>2
<1>14. kind = "close" => \A i \in 1 .. Len(to_client'[c]) : to_client'[c][i].stream # v
  <2> SUFFICES ASSUME kind = "close", NEW i \in 1 .. Len(to_client'[c]) PROVE to_client'[c][i].stream # v
    OBVIOUS
  <2>1. i + 1 \in 2 .. Len(to_client[c]) /\ to_client'[c][i] = to_client[c][i + 1]
    BY <1>2, <1>5
  <2>2. \A j \in 1 + 1 .. Len(to_client[c]) : to_client[c][j].stream # v
    BY <1>4, <1>6 DEF MessageRight
  <2> QED
    BY <2>1, <2>2
<1>15. MessagesRight'
  <2>1. \A d \in ConnId : link'[d] # "up" => to_client'[d] = <<>>
    BY <1>1, <1>5 DEF IInv, Transfers, MessagesRight
  <2>2. ASSUME NEW d \in ConnId, NEW i \in 1 .. Len(to_client'[d]) PROVE MessageRight(d, i)'
    <3>1. CASE d # c
      <4>1. MessageRight(d, i) /\ to_client'[d] = to_client[d] /\ i \in 1 .. Len(to_client[d])
        BY <1>5, <2>2, <3>1 DEF IInv, Transfers, MessagesRight
      <4>2. PICK w \in Visitors : w = to_client[d][i].stream
        BY <1>1, <4>1, QueueTypes
      <4>3. w # v /\ work'[w] = work[w]
        BY <1>5, <1>7, <3>1, <4>1, <4>2 DEF MessageRight
      <4> QED
        BY <1>5, <4>1, <4>2, <4>3 DEF MessageRight
    <3>2. CASE d = c
      <4>1. i + 1 \in 1 .. Len(to_client[c]) /\ to_client'[c][i] = to_client[c][i + 1]
        <5>1. i \in 1 .. Len(to_client'[c]) /\ Len(to_client'[c]) = Len(to_client[c]) - 1
          BY <1>2, <1>5, <2>2, <3>2
        <5>2. i \in 1 .. Len(to_client[c]) - 1
          BY <5>1
        <5> QED
          BY <1>2, <1>5, <5>2
      <4>2. MessageRight(c, i + 1)
        BY <4>1 DEF IInv, Transfers, MessagesRight
      <4>3. PICK w \in Visitors : w = to_client[c][i + 1].stream
        BY <1>1, <4>1, QueueTypes
      <4>4. ASSUME NEW j \in 1 .. i - 1
            PROVE  j + 1 \in 1 .. (i + 1) - 1 /\ to_client'[c][j] = to_client[c][j + 1]
        BY <1>2, <1>5, <4>1
      <4>5. ASSUME NEW j \in i + 1 .. Len(to_client'[c])
            PROVE  j + 1 \in (i + 1) + 1 .. Len(to_client[c]) /\ to_client'[c][j] = to_client[c][j + 1]
        BY <1>2, <1>5, <4>1
      <4>6. to_client[c][i + 1].kind = "open" =>
              work'[w] = "none" /\ \A j \in 1 .. i - 1 : to_client'[c][j].stream # w
        <5> SUFFICES ASSUME to_client[c][i + 1].kind = "open"
                     PROVE  work'[w] = "none" /\ \A j \in 1 .. i - 1 : to_client'[c][j].stream # w
          OBVIOUS
        <5>1. work[w] = "none" /\ \A j \in 1 .. (i + 1) - 1 : to_client[c][j].stream # w
          BY <4>2, <4>3 DEF MessageRight
        <5>2. 1 \in 1 .. (i + 1) - 1
          BY <1>2, <1>5, <2>2, <3>2
        <5>3. w # v
          BY <1>4, <5>1, <5>2
        <5> QED
          BY <1>5, <4>4, <5>1, <5>3
      <4>7. to_client[c][i + 1].kind = "close" =>
              /\ vis'[w] # "reading" /\ work'[w] \notin {"doomed", "closing"}
              /\ \A j \in i + 1 .. Len(to_client'[c]) : to_client'[c][j].stream # w
        <5> SUFFICES ASSUME to_client[c][i + 1].kind = "close"
                     PROVE  /\ vis'[w] # "reading" /\ work'[w] \notin {"doomed", "closing"}
                            /\ \A j \in i + 1 .. Len(to_client'[c]) : to_client'[c][j].stream # w
          OBVIOUS
        <5>1. /\ vis[w] # "reading" /\ work[w] \notin {"doomed", "closing"}
              /\ \A j \in (i + 1) + 1 .. Len(to_client[c]) : to_client[c][j].stream # w
          BY <4>2, <4>3 DEF MessageRight
        <5>2. w = v => kind # "close"
          BY <1>14, <2>2, <3>2, <4>1, <4>3
        <5>3. work'[w] \notin {"doomed", "closing"}
          BY <1>5, <1>11, <5>1, <5>2
        <5> QED
          BY <1>5, <4>5, <5>1, <5>3
      <4> QED
        BY <1>5, <3>2, <4>1, <4>2, <4>3, <4>6, <4>7 DEF MessageRight
    <3> QED
      BY <3>1, <3>2
  <2> QED
    BY <2>1, <2>2 DEF MessagesRight
<1>16. FramesRight'
  <2>1. \A w \in Visitors : work[w] = "over" => work'[w] = "over"
    BY <1>5, <1>11
  <2> QED
    BY <1>1, <1>5, <2>1, FramesKept DEF IInv, Transfers
<1>17. Unopened(v)' /\ Opened(v)'
  BY <1>5, <1>6, <1>7 DEF StreamRight, Unopened, Opened
<1>18. BytesIn(v)'
  <2>1. Up(v)' /\ goal'[v].conn = c
    BY <1>5, <1>7 DEF Up
  <2>2. Occurs(to_client[c], Message(v, "chunk")) =
          IF kind = "chunk" THEN Occurs(to_client'[c], Message(v, "chunk")) + 1
                            ELSE Occurs(to_client'[c], Message(v, "chunk"))
    <3>1. CASE kind = "chunk"
      BY <1>1, <1>4, <1>5, <3>1, CountAhead
    <3>2. CASE kind # "chunk"
      BY <1>1, <1>4, <1>5, <3>2, CountAhead
    <3> QED
      BY <3>1, <3>2
  <2>3. Occurs(to_client'[c], Message(v, "chunk")) \in Nat /\ local[v] \in Nat
    BY <1>1, <1>2, <1>5, OccursType DEF TypeOK
  <2>4. work'[v] # "over" => local'[v] + Occurs(to_client'[c], Message(v, "chunk")) = up'[v]
    <3> SUFFICES ASSUME work'[v] # "over"
                 PROVE  local'[v] + Occurs(to_client'[c], Message(v, "chunk")) = up[v]
      BY <1>5
    <3>1. local[v] + Occurs(to_client[c], Message(v, "chunk")) = up[v]
      BY <1>6, <1>7, <1>11 DEF StreamRight, BytesIn
    <3>2. kind = "chunk" => TakesBytes(v)
      BY <1>1, <1>8, <1>9, <1>11 DEF TakesBytes, TypeOK
    <3> QED
      BY <1>5, <2>2, <2>3, <3>1, <3>2
  <2>5. kind = "close" => NoMessages(v)'
    <3> SUFFICES ASSUME kind = "close", NEW d \in ConnId PROVE ~Uses(v, to_client'[d])
      BY DEF NoMessages
    <3>1. CASE d = c
      BY <1>14, <3>1 DEF Uses
    <3>2. CASE d # c
      BY <1>1, <1>5, <1>7, <3>2, QueueTypes DEF IInv, Transfers, MessagesRight, MessageRight, Uses
    <3> QED
      BY <3>1, <3>2
  <2>6. kind = "close" => vis'[v] # "reading"
    BY <1>4, <1>5, <1>6 DEF MessageRight
  <2> QED
    BY <1>11, <2>1, <2>4, <2>5, <2>6 DEF BytesIn
<1>19. EndIsLast(v)' /\ (EndQueued(v)' <=> EndQueued(v))
  BY <1>5, <1>6, <1>11 DEF StreamRight, BytesOut, EndIsLast, EndQueued, NoFrames
<1>20. BytesOut(v)'
  BY <1>5, <1>6, <1>7, <1>11, <1>19 DEF StreamRight, BytesOut
<1>21. StreamRight(v)'
  BY <1>17, <1>18, <1>20 DEF StreamRight
<1> QED
  BY <1>1, <1>5, <1>12, <1>13, <1>15, <1>16, <1>21, OneStream DEF IInv

-----------------------------------------------------------------------------
(* The invariant, and what follows from it.                                *)

LEMMA InitTransfers == Init => Transfers
<1> SUFFICES ASSUME Init PROVE Transfers
  OBVIOUS
<1>1. TypeOK
  BY InitType
<1>2. \A v \in Visitors : NoMessages(v) /\ NoFrames(v)
  BY DEF Init, NoMessages, NoFrames, Uses
<1>3. \A v \in Visitors : Idle(v)
  BY <1>2 DEF Init, Idle, Unopened, NoListener
<1>4. \A v \in Visitors : StreamRight(v)
  BY <1>1, <1>3, IdleRight DEF IdleIsRight
<1>5. MessagesRight /\ FramesRight
  BY DEF Init, MessagesRight, FramesRight
<1> QED
  BY <1>4, <1>5 DEF Transfers

LEMMA InitInv == Init => IInv
<1> SUFFICES ASSUME Init PROVE IInv
  OBVIOUS
<1>1. TypeOK /\ Transfers
  BY InitType, InitTransfers
<1>2. Bindings
  BY Basics, <1>1 DEF Init, Bindings, NoListener
<1>3. SlotsAccounted
  <2>1. \A u \in Users \cup {None} : active[u] = 0 /\ Cardinality(Holding(u)) \in Nat
    BY <1>1, HoldingFinite DEF Init
  <2> QED
    BY <2>1 DEF SlotsAccounted
<1> QED
  BY <1>1, <1>2, <1>3 DEF IInv

LEMMA TransfersInv == IInv /\ TypeOK' /\ [Next]_vars => Transfers'
<1> SUFFICES ASSUME IInv, TypeOK', [Next]_vars PROVE Transfers'
  OBVIOUS
<1>1. CASE Poll \/ UNCHANGED vars
  BY <1>1, PollTransfers DEF Poll, IInv, vars, regVars, relayVars, connVars
<1>2. ASSUME NEW v \in Visitors, VisitorStep(v) \/ HandleConn(v) \/ Write(v) PROVE Transfers'
  BY <1>2, AcceptTransfers, ReadTransfers, RefusedTransfers, SendOpenTransfers, FinishTransfers,
     WriteTransfers DEF VisitorStep, HandleConn
<1>3. ASSUME NEW v \in Visitors, LocalConnects(v) \/ ClientAbort(v) \/ ClientStep(v) PROVE Transfers'
  BY <1>3, ClientTransfers
<1>4. ASSUME NEW c \in ConnId, PrepareTcp(c) \/ RegisterClient(c) \/ LinkLost(c) \/ ServerCloses(c)
                               \/ ServerRecv(c) \/ ClientTakes(c)
      PROVE  Transfers'
  BY <1>4, ConnectTransfers, LinkLostTransfers, ClosesTransfers, ReceivedTransfers, TakenTransfers
<1> QED
  BY <1>1, <1>2, <1>3, <1>4 DEF Next

LEMMA Inductive == Spec => []IInv
<1>1. IInv /\ [Next]_vars => IInv'
  BY TypeInv, BindingsInv, SlotsInv, TransfersInv DEF IInv
<1> QED
  BY <1>1, InitInv, PTL DEF Spec

\* No path of handle_conn forgets a slot: what stream_acquire has counted for a user
\* never exceeds the tasks that still hold one, for every user and every limit.
THEOREM SlotsNeverForgotten == Spec => []SlotsAccounted
<1>1. IInv => SlotsAccounted
  BY DEF IInv
<1> QED
  BY <1>1, Inductive, PTL

\* relay::run's poll: a listener leads to the connection its port is bound to or to one
\* that is closed, never to another that is alive, however late a poll is and whatever
\* binding fails.
THEOREM NoListenerCrosses == Spec => []ListenersNeverCross
<1>1. IInv => ListenersNeverCross
  <2> SUFFICES ASSUME IInv, NEW p \in Ports, listener[p].conn \in clients PROVE bound[p] = listener[p].conn
    BY DEF ListenersNeverCross
  <2>1. listener[p].conn \in ConnId /\ listener[p].conn # None
    BY Basics DEF IInv, TypeOK
  <2>2. link[listener[p].conn] \in Live
    BY <2>1 DEF IInv, Bindings, Live
  <2> QED
    BY <2>1, <2>2 DEF IInv, Bindings
<1> QED
  BY <1>1, Inductive, PTL

\* Both directions of a stream are complete: a writer that ends regularly has given its
\* visitor every chunk the local service sent, and a local connection the client closes
\* for its visitor has been given every chunk of the visitor.
THEOREM TransfersComplete == Spec => []CompleteTransfer
<1>1. IInv => CompleteTransfer
  <2> SUFFICES ASSUME IInv, NEW v \in Visitors
               PROVE  /\ writer[v] = "over" => got[v] = sent[v]
                      /\ work[v] = "closing" => local[v] = up[v]
    BY DEF CompleteTransfer
  <2>1. StreamRight(v) /\ TypeOK
    BY DEF IInv, Transfers
  <2>2. ASSUME work[v] = "closing" PROVE local[v] = up[v]
    <3>1. /\ Up(v) /\ NoMessages(v)
          /\ local[v] + Occurs(to_client[goal[v].conn], Message(v, "chunk")) = up[v]
      BY <2>1, <2>2 DEF StreamRight, BytesIn
    <3>2. PICK c \in ConnId : c = goal[v].conn
      BY <3>1 DEF Up
    <3>3. Occurs(to_client[c], Message(v, "chunk")) = 0
      BY <2>1, <3>1, UsedNever DEF NoMessages, TypeOK
    <3>4. local[v] \in Nat
      BY <2>1 DEF TypeOK
    <3> QED
      BY <3>1, <3>2, <3>3, <3>4
  <2> QED
    BY <2>1, <2>2 DEF StreamRight, BytesOut
<1> QED
  BY <1>1, Inductive, PTL
=============================================================================
