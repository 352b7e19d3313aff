-------------------------- MODULE HttpStreamsProofs --------------------------
(***************************************************************************)
(* The slots of a user and the answers of the visitors, for every number   *)
(* of visitors, connections, slots and chunks, and whatever faults.  The   *)
(* invariant has four layers: who may still send a frame of a stream       *)
(* (Protocol), who has given a slot back (SlotsBound), which chunks are on *)
(* their way to a visitor that listens (Chunks), and who can still release *)
(* a pending stream (Releasable).                                          *)
(***************************************************************************)
EXTENDS HttpStreams, QueueLemmas, TLAPS

FrameSet == [stream : Visitors, kind : {"head", "chunk", "end", "abort"}, number : Nat]

\* The handler has not sent an OpenStream, and if it is gone it never will.
Unsent    == {"new", "admit", "upload", "opening", "dropped", "404", "413", "429"}
Failed    == {"502", "504"}
VisStates == Unsent \cup Failed \cup {"wait", "body", "done", "gone"}

TypeOK ==
  /\ clients \subseteq ConnId /\ route \in ConnId \cup {NoConn}
  /\ pending \subseteq Visitors /\ active \in Nat
  /\ events \in [Visitors -> Seq(FrameSet)]
  /\ vis \in [Visitors -> VisStates]
  /\ target \in [Visitors -> ConnId \cup {NoConn}]
  /\ got \in [Visitors -> Nat] /\ sent \in [Visitors -> Nat]
  /\ link \in [ConnId -> {"none", "up", "down", "closed"}]
  /\ to_client \in [ConnId -> Seq(Visitors)]
  /\ to_server \in [ConnId -> Seq(FrameSet)]
  /\ work \in [Visitors -> {"none", "busy", "head", "over", "dead"}]

-----------------------------------------------------------------------------
(* First layer.                                                            *)

IsEnd(f) == f.kind \in {"end", "abort"}

NoFrames(v) ==
  \A c \in ConnId : \A i \in 1 .. Len(to_server[c]) : to_server[c][i].stream # v

\* The client knows nothing of a stream before its OpenStream, and nothing is
\* pending before insert_pending.
Unopened ==
  \A v \in Visitors : vis[v] \in Unsent =>
    /\ work[v] = "none"
    /\ \A c \in ConnId : \A i \in 1 .. Len(to_client[c]) : to_client[c][i] # v
    /\ vis[v] \notin {"opening", "dropped"} => v \notin pending

\* A stream is opened once, on the connection its lookup found.
OpensOnce ==
  \A c \in ConnId : \A i \in 1 .. Len(to_client[c]) :
    /\ work[to_client[c][i]] = "none"
    /\ target[to_client[c][i]] = c
    /\ \A j \in 1 .. Len(to_client[c]) : i # j => to_client[c][i] # to_client[c][j]

\* A client that has not begun has sent nothing; one at work has its link.
WorkRight ==
  \A v \in Visitors :
    /\ work[v] \in {"none", "busy"} => sent[v] = 0 /\ NoFrames(v)
    /\ work[v] \in {"busy", "head"} => target[v] \in ConnId /\ link[target[v]] = "up"

\* Nobody but the handler gives up a stream the client is still to answer.
Owed(v) == v \in pending \/ vis[v] \in Failed

AllOwed ==
  /\ \A v \in Visitors : work[v] \in {"busy", "head"} => Owed(v)
  /\ \A c \in ConnId : \A i \in 1 .. Len(to_client[c]) : Owed(to_client[c][i])

\* An End or Abort is the last frame of a stream, and what it is to release has
\* not been released by it yet.
FrameRight(c, i) ==
  LET f == to_server[c][i] IN
  /\ target[f.stream] = c
  /\ IsEnd(f) =>
       /\ work[f.stream] = "over" /\ Owed(f.stream)
       /\ \A j \in i + 1 .. Len(to_server[c]) : to_server[c][j].stream # f.stream

FramesRight == \A c \in ConnId : \A i \in 1 .. Len(to_server[c]) : FrameRight(c, i)

\* A visitor that still listens to a stream nobody has pending has all it gets.
Ended == \A v \in Visitors :
  Listening(v) /\ v \notin pending => work[v] = "over" /\ NoFrames(v)

Protocol == TypeOK /\ Unopened /\ OpensOnce /\ WorkRight /\ AllOwed /\ FramesRight /\ Ended

\* What the queues of a connection hold.
LEMMA QueueTypes ==
  ASSUME TypeOK, NEW c \in ConnId
  PROVE  /\ to_client[c] \in Seq(Visitors) /\ to_server[c] \in Seq(FrameSet)
         /\ Len(to_client[c]) \in Nat /\ Len(to_server[c]) \in Nat
         /\ \A i \in 1 .. Len(to_client[c]) : to_client[c][i] \in Visitors
         /\ \A i \in 1 .. Len(to_server[c]) :
              to_server[c][i] \in FrameSet /\ to_server[c][i].stream \in Visitors
<1>1. to_client[c] \in Seq(Visitors) /\ to_server[c] \in Seq(FrameSet)
  BY DEF TypeOK
<1>2. \A i \in 1 .. Len(to_server[c]) : to_server[c][i] \in FrameSet
  BY <1>1, ElementOf
<1>3. \A f \in FrameSet : f.stream \in Visitors
  BY DEF FrameSet
<1> QED
  BY <1>1, <1>2, <1>3, ElementOf

LEMMA InitType == Init => TypeOK
BY DEF Init, TypeOK, VisStates, Unsent, ConnId, NoConn

\* What the steps of the parts do to the types of the state.
LEMMA HandlerType ==
  ASSUME TypeOK, NEW v \in Visitors, HandlerStep(v) PROVE TypeOK'
<1> USE DEF Goto, visVars, regVars, connVars, VisStates, Unsent, Failed
<1>a. Released(active) \in Nat /\ active + 1 \in Nat
  BY DEF TypeOK, Released
<1>b. ASSUME events[v] # <<>>
      PROVE  [events EXCEPT ![v] = Tail(@)] \in [Visitors -> Seq(FrameSet)]
  BY <1>b, TailOf DEF TypeOK
<1>c. ASSUME events[v] # <<>> PROVE Head(events[v]).number \in Nat
  <2>1. Head(events[v]) \in FrameSet
    BY <1>c, TailOf DEF TypeOK
  <2> QED
    BY <2>1 DEF FrameSet
<1>1. CASE Acquire(v)
  BY <1>1, <1>a DEF TypeOK, Acquire
<1>2. CASE Refuse(v)
  BY <1>2 DEF TypeOK, Refuse
<1>3. CASE BodyTooLarge(v)
  BY <1>3, <1>a DEF TypeOK, BodyTooLarge
<1>4. CASE InsertPending(v)
  BY <1>4 DEF TypeOK, InsertPending
<1>5. CASE SendOpen(v)
  <2>1. target[v] \in ConnId => Append(to_client[target[v]], v) \in Seq(Visitors)
    BY QueueTypes, Appended
  <2>2. target[v] \in ConnId
    BY <1>5 DEF TypeOK, SendOpen
  <2>3. to_client' \in [ConnId -> Seq(Visitors)]
    BY <1>5, <2>1, <2>2 DEF TypeOK, SendOpen
  <2> QED
    BY <1>5, <2>3 DEF TypeOK, SendOpen
<1>6. CASE ClientOffline(v)
  BY <1>6, <1>a DEF TypeOK, ClientOffline, GiveUp
<1>7. CASE Timeout(v)
  BY <1>7, <1>a DEF TypeOK, Timeout, GiveUp
<1>8. CASE BadFirstEvent(v)
  BY <1>8, <1>a, <1>b DEF TypeOK, BadFirstEvent, GiveUp
<1>9. CASE FirstHead(v)
  BY <1>9, <1>b DEF TypeOK, FirstHead
<1>10. CASE BodyChunk(v)
  BY <1>10, <1>b, <1>c DEF TypeOK, BodyChunk
<1>11. CASE BodyEnd(v)
  BY <1>11, <1>b DEF TypeOK, BodyEnd
<1> QED
  BY <1>1, <1>2, <1>3, <1>4, <1>5, <1>6, <1>7, <1>8, <1>9, <1>10, <1>11 DEF HandlerStep, UploadStep, TaskStep

LEMMA VisitorType ==
  ASSUME TypeOK, NEW v \in Visitors, Arrive(v) \/ VisitorLeaves(v) PROVE TypeOK'
<1> USE DEF Goto, regVars, connVars, VisStates, Unsent
<1>1. CASE Arrive(v)
  BY <1>1 DEF TypeOK, Arrive
<1>2. CASE VisitorLeaves(v)
  BY <1>2 DEF TypeOK, VisitorLeaves
<1> QED
  BY <1>1, <1>2

LEMMA ServerType ==
  ASSUME TypeOK, NEW c \in ConnId, ServerRecv(c) PROVE TypeOK'
<1>1. TakeFrame(c) /\ to_server[c] # <<>>
  BY DEF ServerRecv, RecvHeadOrChunk, RecvEndOrAbort, TakeFrame
<1>2. Tail(to_server[c]) \in Seq(FrameSet) /\ Frame(c) \in FrameSet /\ Frame(c).stream \in Visitors
  <2>1. Tail(to_server[c]) \in Seq(FrameSet) /\ Frame(c) \in FrameSet
    BY <1>1, QueueTypes, TailOf DEF Frame
  <2> QED
    BY <2>1 DEF FrameSet
<1>3. to_server' \in [ConnId -> Seq(FrameSet)]
  BY <1>1, <1>2 DEF TypeOK, TakeFrame
<1>4. Append(events[Frame(c).stream], Frame(c)) \in Seq(FrameSet)
  BY <1>2, Appended DEF TypeOK
<1>5. events' \in [Visitors -> Seq(FrameSet)]
  BY <1>2, <1>4 DEF TypeOK, ServerRecv, RecvHeadOrChunk, RecvEndOrAbort, RouteEvent
<1>6. pending' \subseteq Visitors /\ active' \in Nat
  BY DEF TypeOK, ServerRecv, RecvHeadOrChunk, RecvEndOrAbort, Released
<1>7. UNCHANGED <<visVars, clients, route, link, to_client, work, sent>>
  BY <1>1 DEF TakeFrame
<1> QED
  BY <1>3, <1>5, <1>6, <1>7 DEF TypeOK, visVars

LEMMA LinkType ==
  ASSUME TypeOK, NEW c \in ConnId, Connect(c) \/ LinkLost(c) \/ ServerCloses(c) \/ ClientTakes(c)
  PROVE  TypeOK'
<1>1. CASE Connect(c)
  BY <1>1 DEF TypeOK, Connect, visVars
<1>2. CASE LinkLost(c)
  BY <1>2 DEF TypeOK, LinkLost, visVars, regVars
<1>3. CASE ServerCloses(c)
  BY <1>3 DEF TypeOK, ServerCloses, visVars, NoConn
<1>4. CASE ClientTakes(c)
  <2>1. Tail(to_client[c]) \in Seq(Visitors)
    BY <1>4, QueueTypes, TailOf DEF ClientTakes
  <2> QED
    BY <1>4, <2>1 DEF TypeOK, ClientTakes, visVars, regVars
<1> QED
  BY <1>1, <1>2, <1>3, <1>4

\* Where the client's next frame goes.
LEMMA Sends ==
  ASSUME TypeOK, NEW v \in Visitors, Up(v), NEW kind \in {"head", "chunk", "end", "abort"},
         NEW n \in Nat, SendFrame(v, kind, n)
  PROVE  LET f == [stream |-> v, kind |-> kind, number |-> n]
             c == target[v]
         IN  /\ c \in ConnId /\ f \in FrameSet
             /\ to_server' \in [ConnId -> Seq(FrameSet)]
             /\ \A d \in ConnId \ {c} : to_server'[d] = to_server[d]
             /\ Len(to_server'[c]) = Len(to_server[c]) + 1
             /\ \A i \in 1 .. Len(to_server[c]) : to_server'[c][i] = to_server[c][i]
             /\ to_server'[c][Len(to_server[c]) + 1] = f
<1> DEFINE f == [stream |-> v, kind |-> kind, number |-> n]
           c == target[v]
<1>1. c \in ConnId /\ f \in FrameSet
  BY DEF Up, FrameSet
<1>2. to_server' = [to_server EXCEPT ![c] = Append(@, f)]
  BY DEF SendFrame
<1> HIDE DEF f, c
<1>3. to_server[c] \in Seq(FrameSet)
  BY <1>1, QueueTypes
<1>4. to_server \in [ConnId -> Seq(FrameSet)]
  BY DEF TypeOK
<1>5. /\ \A d \in ConnId \ {c} : to_server'[d] = to_server[d]
      /\ to_server'[c] = Append(to_server[c], f)
      /\ Append(to_server[c], f) \in Seq(FrameSet)
      /\ to_server' \in [ConnId -> Seq(FrameSet)]
  BY <1>1, <1>2, <1>3, <1>4, Appended
<1> QED
  BY <1>1, <1>3, <1>5, Appended DEF f, c

LEMMA ClientType ==
  ASSUME TypeOK, NEW v \in Visitors, ClientStep(v) PROVE TypeOK'
<1>1. PICK kind \in {"head", "chunk", "end", "abort"}, n \in Nat : Up(v) /\ SendFrame(v, kind, n)
  BY DEF ClientStep, ClientAbort, ClientHead, ClientChunk, ClientEnd, TypeOK
<1>2. to_server' \in [ConnId -> Seq(FrameSet)]
  BY <1>1, Sends
<1>3. work' \in [Visitors -> {"none", "busy", "head", "over", "dead"}] /\ sent' \in [Visitors -> Nat]
  <2>1. CASE ClientAbort(v) \/ ClientHead(v) \/ ClientEnd(v)
    BY <2>1 DEF ClientAbort, ClientHead, ClientEnd, TypeOK
  <2>2. CASE ClientChunk(v)
    BY <2>2 DEF ClientChunk, TypeOK
  <2> QED
    BY <2>1, <2>2 DEF ClientStep
<1>4. UNCHANGED <<visVars, regVars, link, to_client>>
  BY DEF ClientStep, ClientAbort, ClientHead, ClientChunk, ClientEnd
<1> QED
  BY <1>2, <1>3, <1>4 DEF TypeOK, visVars, regVars

-----------------------------------------------------------------------------
(* The first layer is kept.                                                *)

\* A step of a handler that touches neither connections nor clients: x is where
\* it goes on.
LEMMA HandlerMoves ==
  ASSUME Protocol, TypeOK', NEW v \in Visitors, NEW x \in VisStates,
         UNCHANGED connVars, target' = target, Goto(v, x),
         \A w \in Visitors : w # v => (w \in pending' <=> w \in pending),
         x \in Unsent => vis[v] \in Unsent,
         x \in Unsent \ {"opening", "dropped"} => v \notin pending',
         v \in pending => v \in pending' \/ x \in Failed,
         vis[v] \notin Failed,
         x \in {"opening", "wait", "body"} =>
           v \in pending' \/ (Listening(v) /\ v \notin pending)
  PROVE  Protocol'
<1> USE DEF Owed, Protocol, connVars
<1>a. \A w \in Visitors : vis'[w] = IF w = v THEN x ELSE vis[w]
  BY DEF TypeOK, Goto
<1>1. Unopened'
  BY <1>a DEF Unopened
<1>2. OpensOnce'
  BY DEF OpensOnce
<1>3. WorkRight'
  BY DEF WorkRight, NoFrames
<1>4. FramesRight'
  <2> SUFFICES ASSUME NEW c \in ConnId, NEW i \in 1 .. Len(to_server[c])
               PROVE  FrameRight(c, i)'
    BY DEF FramesRight
  <2>1. to_server[c][i].stream \in Visitors
    BY QueueTypes
  <2>2. FrameRight(c, i)
    BY DEF FramesRight
  <2> QED
    BY <1>a, <2>1, <2>2 DEF FrameRight, IsEnd
<1>5. Ended'
  BY <1>a DEF Ended, Listening, NoFrames
<1>9. AllOwed'
  BY <1>a, QueueTypes DEF AllOwed
<1> QED
  BY <1>1, <1>2, <1>3, <1>4, <1>5, <1>9

LEMMA ArriveProtocol == ASSUME Protocol, NEW v \in Visitors, Arrive(v) PROVE Protocol'
<1> USE DEF Owed, Protocol
<1>1. TypeOK'
  BY DEF TypeOK, Arrive, Goto, regVars, connVars, VisStates, Unsent
<1>a. /\ \A w \in Visitors \ {v} : vis'[w] = vis[w] /\ target'[w] = target[w]
      /\ {vis[v], vis'[v]} \subseteq Unsent \ {"opening", "dropped"}
      /\ UNCHANGED <<pending, to_client, to_server, work, sent, link>>
  BY DEF TypeOK, Arrive, Goto, regVars, connVars, Unsent
<1>b. /\ work[v] = "none" /\ NoFrames(v) /\ v \notin pending
      /\ \A c \in ConnId : \A i \in 1 .. Len(to_client[c]) : to_client[c][i] # v
  BY <1>a DEF Unopened, WorkRight
<1>2. Unopened'
  BY <1>a, <1>b DEF Unopened
<1>3. OpensOnce'
  BY <1>a, <1>b, QueueTypes DEF OpensOnce
<1>4. WorkRight'
  BY <1>a, <1>b DEF WorkRight, NoFrames
<1>5. FramesRight'
  <2> SUFFICES ASSUME NEW c \in ConnId, NEW i \in 1 .. Len(to_server[c])
               PROVE  FrameRight(c, i)'
    BY <1>a DEF FramesRight
  <2>1. to_server[c][i].stream \in Visitors \ {v}
    BY <1>b, QueueTypes DEF NoFrames
  <2>2. FrameRight(c, i)
    BY DEF FramesRight
  <2> QED
    BY <1>a, <2>1, <2>2 DEF FrameRight, IsEnd
<1>6. Ended'
  BY <1>a, <1>b DEF Ended, Listening, NoFrames, Unsent
<1>9. AllOwed'
  BY <1>a, <1>b, QueueTypes DEF AllOwed
<1> QED
  BY <1>1, <1>2, <1>3, <1>4, <1>5, <1>6, <1>9

LEMMA SendOpenProtocol == ASSUME Protocol, NEW v \in Visitors, SendOpen(v) PROVE Protocol'
<1> USE DEF Owed, Protocol
<1> DEFINE c == target[v]
<1>1. TypeOK'
  BY HandlerType DEF HandlerStep, UploadStep, TaskStep
<1>a. /\ vis[v] = "opening" /\ vis' = [vis EXCEPT ![v] = "wait"]
      /\ UNCHANGED <<target, pending, link, to_server, work, sent>>
  BY DEF SendOpen, Goto, regVars
<1>b. \A w \in Visitors : vis'[w] = IF w = v THEN "wait" ELSE vis[w]
  BY <1>a DEF TypeOK
<1>c. c \in ConnId /\ work[v] = "none"
      /\ \A d \in ConnId : \A i \in 1 .. Len(to_client[d]) : to_client[d][i] # v
  BY <1>a DEF SendOpen, TypeOK, Unopened, Unsent
<1>d. /\ \A d \in ConnId \ {c} : to_client'[d] = to_client[d]
      /\ \/ to_client'[c] = to_client[c]
         \/ /\ Len(to_client'[c]) = Len(to_client[c]) + 1
            /\ \A i \in 1 .. Len(to_client[c]) : to_client'[c][i] = to_client[c][i]
            /\ to_client'[c][Len(to_client[c]) + 1] = v
  <2>1. to_client' = to_client \/ to_client' = [to_client EXCEPT ![c] = Append(@, v)]
    BY DEF SendOpen
  <2>2. to_client[c] \in Seq(Visitors) /\ to_client \in [ConnId -> Seq(Visitors)]
    BY <1>c DEF TypeOK
  <2>3. /\ \A d \in ConnId \ {c} : to_client'[d] = to_client[d]
        /\ to_client'[c] = to_client[c] \/ to_client'[c] = Append(to_client[c], v)
    BY <1>c, <2>1, <2>2
  <2> QED
    BY <2>2, <2>3, Appended
<1> HIDE DEF c
<1>2. Unopened'
  <2> SUFFICES ASSUME NEW w \in Visitors, vis'[w] \in Unsent
               PROVE  /\ work'[w] = "none"
                      /\ \A d \in ConnId : \A i \in 1 .. Len(to_client'[d]) : to_client'[d][i] # w
                      /\ vis'[w] \notin {"opening", "dropped"} => w \notin pending'
    BY DEF Unopened
  <2>1. w # v /\ vis'[w] = vis[w]
    BY <1>b DEF Unsent
  <2>2. /\ work[w] = "none" /\ (vis[w] \notin {"opening", "dropped"} => w \notin pending)
        /\ \A d \in ConnId : \A i \in 1 .. Len(to_client[d]) : to_client[d][i] # w
    BY <2>1 DEF Unopened
  <2>3. ASSUME NEW d \in ConnId, NEW i \in 1 .. Len(to_client'[d]) PROVE to_client'[d][i] # w
    BY <2>1, <2>2, <2>3, <1>c, <1>d, QueueTypes
  <2> QED
    BY <2>1, <2>2, <2>3, <1>a
<1>3. OpensOnce'
  <2> SUFFICES ASSUME NEW d \in ConnId, NEW i \in 1 .. Len(to_client'[d])
               PROVE  /\ work[to_client'[d][i]] = "none"
                      /\ target[to_client'[d][i]] = d
                      /\ \A j \in 1 .. Len(to_client'[d]) :
                           i # j => to_client'[d][i] # to_client'[d][j]
    BY <1>a DEF OpensOnce
  <2>1. CASE d # c
    BY <2>1, <1>d DEF OpensOnce
  <2>2. CASE d = c
    <3>1. /\ Len(to_client[c]) \in Nat
          /\ \A j \in 1 .. Len(to_client[c]) :
               /\ work[to_client[c][j]] = "none" /\ target[to_client[c][j]] = c
               /\ to_client[c][j] # v
               /\ \A k \in 1 .. Len(to_client[c]) : j # k => to_client[c][j] # to_client[c][k]
      BY <1>c, QueueTypes DEF OpensOnce
    <3>2. work[v] = "none" /\ target[v] = c
      BY <1>c DEF c
    <3>3. ASSUME NEW j \in 1 .. Len(to_client'[c])
          PROVE  \/ j \in 1 .. Len(to_client[c]) /\ to_client'[c][j] = to_client[c][j]
                 \/ j = Len(to_client[c]) + 1 /\ to_client'[c][j] = v
      BY <3>1, <1>d
    <3>4. CASE i \in 1 .. Len(to_client[c]) /\ to_client'[c][i] = to_client[c][i]
      <4>1. ASSUME NEW j \in 1 .. Len(to_client'[c]), i # j
            PROVE  to_client'[c][i] # to_client'[c][j]
        <5>1. CASE j \in 1 .. Len(to_client[c]) /\ to_client'[c][j] = to_client[c][j]
          BY <3>1, <3>4, <4>1, <5>1
        <5>2. CASE to_client'[c][j] = v
          BY <3>1, <3>4, <5>2
        <5> QED
          BY <3>3, <5>1, <5>2
      <4> QED
        BY <2>2, <3>1, <3>4, <4>1
    <3>5. CASE i = Len(to_client[c]) + 1 /\ to_client'[c][i] = v
      <4>1. ASSUME NEW j \in 1 .. Len(to_client'[c]), i # j
            PROVE  to_client'[c][i] # to_client'[c][j]
        BY <3>1, <3>3, <3>5, <4>1
      <4> QED
        BY <2>2, <3>2, <3>5, <4>1
    <3> QED
      BY <2>2, <3>3, <3>4, <3>5
  <2> QED
    BY <2>1, <2>2
<1>4. WorkRight'
  BY <1>a DEF WorkRight, NoFrames
<1>5. FramesRight'
  <2> SUFFICES ASSUME NEW d \in ConnId, NEW i \in 1 .. Len(to_server[d])
               PROVE  FrameRight(d, i)'
    BY <1>a DEF FramesRight
  <2>1. to_server[d][i].stream \in Visitors
    BY QueueTypes
  <2>2. FrameRight(d, i)
    BY DEF FramesRight
  <2> QED
    BY <1>a, <1>b, <2>1, <2>2 DEF FrameRight, IsEnd, Failed
<1>6. Ended'
  BY <1>a, <1>b DEF Ended, Listening, NoFrames
<1>9. AllOwed'
  <2>1. v \in pending
    BY <1>a, <1>c DEF Ended, Listening
  <2>2. \A w \in Visitors : Owed(w) => Owed(w)'
    BY <2>1, <1>a, <1>b
  <2>3. ASSUME NEW d \in ConnId, NEW i \in 1 .. Len(to_client'[d]) PROVE Owed(to_client[d][i])'
    <3>1. CASE d # c
      BY <3>1, <2>2, <1>d, QueueTypes DEF AllOwed
    <3>2. CASE d = c
      <4>1. \/ i \in 1 .. Len(to_client[c]) /\ to_client'[c][i] = to_client[c][i]
            \/ to_client'[c][i] = v
        BY <3>2, <1>c, <1>d, QueueTypes
      <4> QED
        BY <3>2, <4>1, <2>1, <2>2, <1>a, <1>c, QueueTypes DEF AllOwed
    <3> QED
      BY <3>1, <3>2
  <2> QED
    BY <2>2, <2>3, <1>a DEF AllOwed
<1> QED
  BY <1>1, <1>2, <1>3, <1>4, <1>5, <1>6, <1>9

\* What the server's next frame leaves behind.
LEMMA Taken ==
  ASSUME TypeOK, NEW c \in ConnId, TakeFrame(c)
  PROVE  /\ Frame(c) = to_server[c][1] /\ Frame(c).stream \in Visitors /\ Frame(c) \in FrameSet
         /\ Len(to_server[c]) \in Nat \ {0} /\ Len(to_server'[c]) = Len(to_server[c]) - 1
         /\ \A i \in 1 .. Len(to_server'[c]) :
              i + 1 \in 1 .. Len(to_server[c]) /\ to_server'[c][i] = to_server[c][i + 1]
         /\ \A d \in ConnId \ {c} : to_server'[d] = to_server[d]
<1>1. to_server[c] \in Seq(FrameSet) /\ to_server \in [ConnId -> Seq(FrameSet)]
  BY DEF TypeOK
<1>2. /\ to_server'[c] = Tail(to_server[c]) /\ to_server[c] # <<>>
      /\ \A d \in ConnId \ {c} : to_server'[d] = to_server[d]
  BY <1>1 DEF TakeFrame
<1>3. /\ Len(Tail(to_server[c])) = Len(to_server[c]) - 1 /\ Len(to_server[c]) \in Nat \ {0}
      /\ \A i \in 1 .. Len(to_server[c]) - 1 : Tail(to_server[c])[i] = to_server[c][i + 1]
      /\ Head(to_server[c]) = to_server[c][1] /\ Head(to_server[c]) \in FrameSet
  BY <1>1, <1>2, TailOf
<1>4. \A f \in FrameSet : f.stream \in Visitors
  BY DEF FrameSet
<1> QED
  BY <1>2, <1>3, <1>4 DEF Frame

\* The server takes a frame; an End or Abort clears the stream's pending entry.
LEMMA ServerRecvProtocol == ASSUME Protocol, NEW c \in ConnId, ServerRecv(c) PROVE Protocol'
<1> USE DEF Owed, Protocol
<1> DEFINE s == Frame(c).stream
<1>1. TypeOK'
  BY ServerType
<1>a. TakeFrame(c) /\ UNCHANGED <<vis, target, link, to_client, work, sent>>
  BY DEF ServerRecv, RecvHeadOrChunk, RecvEndOrAbort, TakeFrame, visVars
<1>b. \/ pending' = pending
      \/ IsEnd(Frame(c)) /\ pending' = pending \ {s}
  BY DEF ServerRecv, RecvHeadOrChunk, RecvEndOrAbort, IsEnd
<1>c. /\ Frame(c) = to_server[c][1] /\ s \in Visitors
      /\ Len(to_server[c]) \in Nat \ {0} /\ Len(to_server'[c]) = Len(to_server[c]) - 1
      /\ \A i \in 1 .. Len(to_server'[c]) :
           i + 1 \in 1 .. Len(to_server[c]) /\ to_server'[c][i] = to_server[c][i + 1]
      /\ \A d \in ConnId \ {c} : to_server'[d] = to_server[d]
  BY <1>a, Taken
<1>d. FrameRight(c, 1)
  BY <1>c DEF FramesRight
<1>e. IsEnd(Frame(c)) => work[s] = "over" /\ (\A i \in 1 .. Len(to_server'[c]) : to_server'[c][i].stream # s)
  BY <1>c, <1>d DEF FrameRight
<1>f. \A w \in Visitors : NoFrames(w) => NoFrames(w)'
  <2> SUFFICES ASSUME NEW w \in Visitors, NoFrames(w),
                      NEW d \in ConnId, NEW i \in 1 .. Len(to_server'[d])
               PROVE  to_server'[d][i].stream # w
    BY DEF NoFrames
  <2>1. CASE d = c
    BY <2>1, <1>c DEF NoFrames
  <2>2. CASE d # c
    BY <2>2, <1>c DEF NoFrames
  <2> QED
    BY <2>1, <2>2
<1>g. \A d \in ConnId \ {c} : \A i \in 1 .. Len(to_server'[d]) : to_server'[d][i].stream # s
  <2> SUFFICES ASSUME NEW d \in ConnId \ {c}, NEW i \in 1 .. Len(to_server[d])
               PROVE  to_server[d][i].stream # s
    BY <1>c
  <2>1. FrameRight(d, i)
    BY DEF FramesRight
  <2> QED
    BY <1>c, <1>d, <2>1 DEF FrameRight
<1> HIDE DEF s
<1>2. Unopened'
  BY <1>a, <1>b DEF Unopened
<1>3. OpensOnce'
  BY <1>a DEF OpensOnce
<1>4. WorkRight'
  BY <1>a, <1>f DEF WorkRight
<1>5. FramesRight'
  <2> SUFFICES ASSUME NEW d \in ConnId, NEW i \in 1 .. Len(to_server'[d])
               PROVE  FrameRight(d, i)'
    BY DEF FramesRight
  <2>1. PICK k \in 1 .. Len(to_server[d]) :
          /\ to_server'[d][i] = to_server[d][k]
          /\ \A j \in i + 1 .. Len(to_server'[d]) :
               \E m \in k + 1 .. Len(to_server[d]) : to_server'[d][j] = to_server[d][m]
    <3>1. CASE d = c
      <4>1. i + 1 \in 1 .. Len(to_server[d]) /\ to_server'[d][i] = to_server[d][i + 1]
        BY <3>1, <1>c
      <4>2. ASSUME NEW j \in i + 1 .. Len(to_server'[d])
            PROVE  j + 1 \in (i + 1) + 1 .. Len(to_server[d]) /\ to_server'[d][j] = to_server[d][j + 1]
        BY <3>1, <1>c
      <4> QED
        BY <4>1, <4>2
    <3>2. CASE d # c
      BY <3>2, <1>c
    <3> QED
      BY <3>1, <3>2
  <2>2. FrameRight(d, k) /\ to_server[d][k].stream \in Visitors
    BY QueueTypes DEF FramesRight
  <2>3. IsEnd(Frame(c)) => to_server'[d][i].stream # s
    BY <1>e, <1>g
  <2> QED
    BY <1>a, <1>b, <2>1, <2>2, <2>3 DEF FrameRight, IsEnd
<1>6. Ended'
  <2> SUFFICES ASSUME NEW w \in Visitors, Listening(w), w \notin pending'
               PROVE  work[w] = "over" /\ NoFrames(w)'
    BY <1>a DEF Ended, Listening
  <2>1. CASE w \notin pending
    BY <2>1, <1>f DEF Ended
  <2>2. CASE w \in pending
    BY <2>2, <1>b, <1>e, <1>g DEF NoFrames
  <2> QED
    BY <2>1, <2>2
<1>9. AllOwed'
  <2>1. \A w \in Visitors : Owed(w) /\ work[w] # "over" => Owed(w)'
    BY <1>a, <1>b, <1>e
  <2>2. \A d \in ConnId : \A i \in 1 .. Len(to_client[d]) :
          to_client[d][i] \in Visitors /\ work[to_client[d][i]] # "over"
    BY QueueTypes DEF OpensOnce
  <2> QED
    BY <2>1, <2>2, <1>a DEF AllOwed
<1> QED
  BY <1>1, <1>2, <1>3, <1>4, <1>5, <1>6, <1>9

LEMMA ConnectProtocol == ASSUME Protocol, NEW c \in ConnId, Connect(c) PROVE Protocol'
<1> USE DEF Owed, Protocol
<1>1. TypeOK'
  BY LinkType
<1>2. link' = [link EXCEPT ![c] = "up"] /\ UNCHANGED <<vis, target, pending, to_client, to_server, work, sent>>
  BY DEF Connect, visVars
<1>3. Unopened' /\ OpensOnce' /\ Ended'
  BY <1>2 DEF Unopened, OpensOnce, Ended, Listening, NoFrames
<1>4. WorkRight'
  BY <1>2 DEF WorkRight, NoFrames, TypeOK
<1>5. FramesRight'
  BY <1>2 DEF FramesRight, FrameRight, IsEnd
<1>9. AllOwed'
  BY <1>2 DEF AllOwed
<1> QED
  BY <1>1, <1>3, <1>4, <1>5, <1>9

\* A lost link takes the OpenStreams on the way and the client's streams with it.
LEMMA LinkLostProtocol == ASSUME Protocol, NEW c \in ConnId, LinkLost(c) PROVE Protocol'
<1> USE DEF Owed, Protocol
<1>1. TypeOK'
  BY LinkType
<1>a. /\ to_client' = [to_client EXCEPT ![c] = <<>>] /\ link' = [link EXCEPT ![c] = "down"]
      /\ UNCHANGED <<vis, target, pending, to_server, sent>>
  BY DEF LinkLost, visVars, regVars
<1>b. \A v \in Visitors : work'[v] = IF target[v] = c /\ work[v] \in {"busy", "head"}
                                         THEN "dead" ELSE work[v]
  BY DEF LinkLost
<1>c. Len(to_client'[c]) = 0 /\ \A d \in ConnId \ {c} : to_client'[d] = to_client[d]
  BY <1>a DEF TypeOK
<1>2. Unopened'
  <2> SUFFICES ASSUME NEW v \in Visitors, vis[v] \in Unsent
               PROVE  /\ work'[v] = "none" /\ (vis[v] \notin {"opening", "dropped"} => v \notin pending)
                      /\ \A d \in ConnId : \A i \in 1 .. Len(to_client'[d]) : to_client'[d][i] # v
    BY <1>a DEF Unopened
  <2> QED
    BY <1>b, <1>c DEF Unopened
<1>3. OpensOnce'
  <2> SUFFICES ASSUME NEW d \in ConnId \ {c}, NEW i \in 1 .. Len(to_client[d])
               PROVE  work'[to_client[d][i]] = "none"
    BY <1>a, <1>c DEF OpensOnce
  <2> QED
    BY <1>b, QueueTypes DEF OpensOnce
<1>4. WorkRight'
  BY <1>a, <1>b DEF WorkRight, NoFrames, TypeOK
<1>5. FramesRight'
  <2> SUFFICES ASSUME NEW d \in ConnId, NEW i \in 1 .. Len(to_server[d])
               PROVE  FrameRight(d, i)'
    BY <1>a DEF FramesRight
  <2>1. to_server[d][i].stream \in Visitors /\ FrameRight(d, i)
    BY QueueTypes DEF FramesRight
  <2> QED
    BY <1>a, <1>b, <2>1 DEF FrameRight, IsEnd
<1>6. Ended'
  BY <1>a, <1>b DEF Ended, Listening, NoFrames
<1>9. AllOwed'
  BY <1>a, <1>b, <1>c DEF AllOwed
<1> QED
  BY <1>1, <1>2, <1>3, <1>4, <1>5, <1>6, <1>9

LEMMA ServerClosesProtocol == ASSUME Protocol, NEW c \in ConnId, ServerCloses(c) PROVE Protocol'
<1> USE DEF Owed, Protocol
<1>1. TypeOK'
  BY LinkType
<1>a. /\ to_server' = [to_server EXCEPT ![c] = <<>>] /\ link' = [link EXCEPT ![c] = "closed"]
      /\ link[c] = "down" /\ UNCHANGED <<vis, target, pending, to_client, work, sent>>
  BY DEF ServerCloses, visVars
<1>b. Len(to_server'[c]) = 0 /\ \A d \in ConnId \ {c} : to_server'[d] = to_server[d]
  BY <1>a DEF TypeOK
<1>c. \A w \in Visitors : NoFrames(w) => NoFrames(w)'
  BY <1>b DEF NoFrames
<1>2. Unopened' /\ OpensOnce'
  BY <1>a DEF Unopened, OpensOnce
<1>3. WorkRight'
  BY <1>a, <1>c DEF WorkRight, TypeOK
<1>4. FramesRight'
  BY <1>a, <1>b DEF FramesRight, FrameRight, IsEnd
<1>5. Ended'
  BY <1>a, <1>c DEF Ended, Listening
<1>9. AllOwed'
  BY <1>a DEF AllOwed
<1> QED
  BY <1>1, <1>2, <1>3, <1>4, <1>5, <1>9

LEMMA ClientTakesProtocol == ASSUME Protocol, NEW c \in ConnId, ClientTakes(c) PROVE Protocol'
<1> USE DEF Owed, Protocol
<1> DEFINE s == Head(to_client[c])
<1>1. TypeOK'
  BY LinkType
<1>a. /\ link[c] = "up" /\ to_client[c] # <<>>
      /\ UNCHANGED <<vis, target, pending, link, to_server, sent>>
  BY DEF ClientTakes, visVars, regVars
<1>b. /\ s = to_client[c][1] /\ s \in Visitors /\ Len(to_client[c]) \in Nat \ {0}
      /\ Len(to_client'[c]) = Len(to_client[c]) - 1
      /\ \A i \in 1 .. Len(to_client'[c]) : to_client'[c][i] = to_client[c][i + 1]
      /\ \A d \in ConnId \ {c} : to_client'[d] = to_client[d]
  <2>1. to_client[c] \in Seq(Visitors) /\ to_client'[c] = Tail(to_client[c])
        /\ \A d \in ConnId \ {c} : to_client'[d] = to_client[d]
    BY DEF ClientTakes, TypeOK
  <2> QED
    BY <1>a, <2>1, TailOf
<1>c. \A w \in Visitors : work'[w] = IF w = s THEN "busy" ELSE work[w]
  BY <1>b DEF ClientTakes, TypeOK
<1>d. work[s] = "none" /\ target[s] = c
  BY <1>b DEF OpensOnce
<1>e. \A d \in ConnId : \A i \in 1 .. Len(to_client'[d]) :
        \E k \in 1 .. Len(to_client[d]) : to_client'[d][i] = to_client[d][k] /\ (d = c => k # 1)
  <2> SUFFICES ASSUME NEW d \in ConnId, NEW i \in 1 .. Len(to_client'[d])
               PROVE  \E k \in 1 .. Len(to_client[d]) :
                        to_client'[d][i] = to_client[d][k] /\ (d = c => k # 1)
    OBVIOUS
  <2>1. CASE d = c
    <3>1. i + 1 \in 1 .. Len(to_client[c]) /\ i + 1 # 1
      BY <2>1, <1>b
    <3> QED
      BY <2>1, <3>1, <1>b
  <2>2. CASE d # c
    BY <2>2, <1>b
  <2> QED
    BY <2>1, <2>2
<1> HIDE DEF s
<1>2. Unopened'
  <2> SUFFICES ASSUME NEW v \in Visitors, vis[v] \in Unsent
               PROVE  /\ work'[v] = "none" /\ (vis[v] \notin {"opening", "dropped"} => v \notin pending)
                      /\ \A d \in ConnId : \A i \in 1 .. Len(to_client'[d]) : to_client'[d][i] # v
    BY <1>a DEF Unopened
  <2>1. v # s
    BY <1>b DEF Unopened
  <2> QED
    BY <2>1, <1>c, <1>e DEF Unopened
<1>3. OpensOnce'
  <2> SUFFICES ASSUME NEW d \in ConnId, NEW i \in 1 .. Len(to_client'[d])
               PROVE  /\ work'[to_client'[d][i]] = "none" /\ target[to_client'[d][i]] = d
                      /\ \A j \in 1 .. Len(to_client'[d]) :
                           i # j => to_client'[d][i] # to_client'[d][j]
    BY <1>a DEF OpensOnce
  <2>1. PICK k \in 1 .. Len(to_client[d]) : to_client'[d][i] = to_client[d][k] /\ (d = c => k # 1)
    BY <1>e
  <2>2. /\ work[to_client[d][k]] = "none" /\ target[to_client[d][k]] = d
        /\ to_client[d][k] \in Visitors
    BY QueueTypes DEF OpensOnce
  <2>3. to_client[d][k] # s
    BY <2>1, <2>2, <1>b, <1>d DEF OpensOnce
  <2>4. ASSUME NEW j \in 1 .. Len(to_client'[d]), i # j PROVE to_client'[d][i] # to_client'[d][j]
    <3>1. CASE d = c
      <4>1. /\ i + 1 \in 1 .. Len(to_client[c]) /\ j + 1 \in 1 .. Len(to_client[c]) /\ i + 1 # j + 1
        BY <3>1, <2>4, <1>b
      <4> QED
        BY <3>1, <4>1, <1>b DEF OpensOnce
    <3>2. CASE d # c
      BY <3>2, <2>4, <1>b DEF OpensOnce
    <3> QED
      BY <3>1, <3>2
  <2> QED
    BY <2>1, <2>2, <2>3, <2>4, <1>c
<1>4. WorkRight'
  BY <1>a, <1>b, <1>c, <1>d DEF WorkRight, NoFrames
<1>5. FramesRight'
  <2> SUFFICES ASSUME NEW d \in ConnId, NEW i \in 1 .. Len(to_server[d])
               PROVE  FrameRight(d, i)'
    BY <1>a DEF FramesRight
  <2>1. to_server[d][i].stream \in Visitors /\ FrameRight(d, i)
    BY QueueTypes DEF FramesRight
  <2> QED
    BY <1>a, <1>c, <1>d, <2>1 DEF FrameRight, IsEnd
<1>6. Ended'
  BY <1>a, <1>c, <1>d DEF Ended, Listening, NoFrames
<1>9. AllOwed'
  <2>1. \A w \in Visitors : Owed(w) <=> Owed(w)'
    BY <1>a
  <2>2. Owed(s)
    BY <1>b DEF AllOwed
  <2>3. \A w \in Visitors : work'[w] \in {"busy", "head"} => Owed(w)'
    BY <2>1, <2>2, <1>c DEF AllOwed
  <2>4. ASSUME NEW d \in ConnId, NEW i \in 1 .. Len(to_client'[d]) PROVE Owed(to_client[d][i])'
    <3>1. PICK k \in 1 .. Len(to_client[d]) : to_client'[d][i] = to_client[d][k]
      BY <1>e
    <3> QED
      BY <2>1, <3>1, QueueTypes, <1>a DEF AllOwed
  <2> QED
    BY <2>3, <2>4 DEF AllOwed
<1> QED
  BY <1>1, <1>2, <1>3, <1>4, <1>5, <1>6, <1>9

\* What a client at work may do.
LEMMA ClientSends ==
  ASSUME Protocol, NEW v \in Visitors, ClientStep(v)
  PROVE  \E kind \in {"head", "chunk", "end", "abort"}, n \in Nat :
           /\ Up(v) /\ SendFrame(v, kind, n)
           /\ kind \in {"head", "abort"} <=> work[v] = "busy"
           /\ kind \in {"chunk", "end"} <=> work[v] = "head"
           /\ work[v] \in {"busy", "head"}
           /\ work' = [work EXCEPT ![v] = IF kind \in {"end", "abort"} THEN "over" ELSE "head"]
           /\ IF kind = "chunk" THEN n = sent[v] + 1 /\ sent' = [sent EXCEPT ![v] = n]
                                ELSE sent' = sent
           /\ UNCHANGED <<visVars, regVars, link, to_client>>
<1> USE DEF Owed, Protocol
<1>1. CASE ClientAbort(v)
  BY <1>1 DEF ClientAbort
<1>2. CASE ClientHead(v)
  BY <1>2 DEF ClientHead
<1>3. CASE ClientChunk(v)
  <2>1. sent[v] + 1 \in Nat /\ work' = [work EXCEPT ![v] = "head"]
    BY <1>3 DEF ClientChunk, TypeOK
  <2> QED
    BY <1>3, <2>1 DEF ClientChunk
<1>4. CASE ClientEnd(v)
  BY <1>4 DEF ClientEnd
<1> QED
  BY <1>1, <1>2, <1>3, <1>4 DEF ClientStep

LEMMA ClientProtocol == ASSUME Protocol, NEW v \in Visitors, ClientStep(v) PROVE Protocol'
<1> USE DEF Owed, Protocol
<1>1. TypeOK'
  BY ClientType
<1>a. PICK kind \in {"head", "chunk", "end", "abort"}, n \in Nat :
           /\ Up(v) /\ SendFrame(v, kind, n)
           /\ work[v] \in {"busy", "head"}
           /\ work' = [work EXCEPT ![v] = IF kind \in {"end", "abort"} THEN "over" ELSE "head"]
           /\ IF kind = "chunk" THEN n = sent[v] + 1 /\ sent' = [sent EXCEPT ![v] = n]
                                ELSE sent' = sent
           /\ UNCHANGED <<visVars, regVars, link, to_client>>
  BY ClientSends
<1> DEFINE f == [stream |-> v, kind |-> kind, number |-> n]
           c == target[v]
           m == Len(to_server[c])
<1>b. /\ c \in ConnId /\ m \in Nat
      /\ \A d \in ConnId \ {c} : to_server'[d] = to_server[d]
      /\ Len(to_server'[c]) = m + 1
      /\ \A i \in 1 .. m : to_server'[c][i] = to_server[c][i]
      /\ to_server'[c][m + 1] = f
  BY <1>a, Sends, QueueTypes
<1>c. f.stream = v /\ f.kind = kind
  OBVIOUS
<1>d. UNCHANGED <<vis, target, pending, link, to_client>>
  BY <1>a DEF visVars, regVars
<1>e. \A w \in Visitors : w # v => work'[w] = work[w] /\ sent'[w] = sent[w]
  BY <1>a DEF TypeOK
<1>f. work'[v] = IF kind \in {"end", "abort"} THEN "over" ELSE "head"
  BY <1>a DEF TypeOK
<1>h. c = target[v]
  OBVIOUS
<1>g. /\ link[c] = "up" /\ vis[v] \notin Unsent
      /\ \A d \in ConnId : \A i \in 1 .. Len(to_client[d]) : to_client[d][i] # v
  BY <1>a DEF WorkRight, Unopened, OpensOnce
<1> HIDE DEF f, c, m
<1>i. ASSUME NEW d \in ConnId, NEW i \in 1 .. Len(to_server'[d])
      PROVE  \/ i \in 1 .. Len(to_server[d]) /\ to_server'[d][i] = to_server[d][i]
             \/ d = c /\ i = m + 1 /\ to_server'[d][i] = f
  BY <1>b, QueueTypes DEF m
<1>j. \A w \in Visitors : w # v /\ NoFrames(w) => NoFrames(w)'
  <2> SUFFICES ASSUME NEW w \in Visitors, w # v, NoFrames(w),
                      NEW d \in ConnId, NEW i \in 1 .. Len(to_server'[d])
               PROVE  to_server'[d][i].stream # w
    BY DEF NoFrames
  <2> QED
    BY <1>c, <1>i DEF NoFrames
<1>2. Unopened'
  BY <1>d, <1>e, <1>g DEF Unopened
<1>3. OpensOnce'
  BY <1>d, <1>e, <1>g, QueueTypes DEF OpensOnce
<1>4. WorkRight'
  <2> SUFFICES ASSUME NEW w \in Visitors
               PROVE  /\ work'[w] \in {"none", "busy"} => sent'[w] = 0 /\ NoFrames(w)'
                      /\ work'[w] \in {"busy", "head"} => target[w] \in ConnId /\ link[target[w]] = "up"
    BY <1>d DEF WorkRight
  <2>1. CASE w = v
    BY <2>1, <1>b, <1>f, <1>g, <1>h
  <2>2. CASE w # v
    BY <2>2, <1>e, <1>j DEF WorkRight
  <2> QED
    BY <2>1, <2>2
<1>5. FramesRight'
  <2> SUFFICES ASSUME NEW d \in ConnId, NEW i \in 1 .. Len(to_server'[d])
               PROVE  FrameRight(d, i)'
    BY DEF FramesRight
  <2>1. CASE i \in 1 .. Len(to_server[d]) /\ to_server'[d][i] = to_server[d][i]
    <3> DEFINE g == to_server[d][i]
    <3>1. g.stream \in Visitors /\ FrameRight(d, i)
      BY <2>1, QueueTypes DEF FramesRight
    <3>2. ASSUME IsEnd(g)
          PROVE  /\ work'[g.stream] = "over"
                 /\ \A j \in i + 1 .. Len(to_server'[d]) : to_server'[d][j].stream # g.stream
      <4>1. work[g.stream] = "over" /\ g.stream # v
        BY <3>1, <3>2, <1>a DEF FrameRight
      <4>2. ASSUME NEW j \in i + 1 .. Len(to_server'[d]) PROVE to_server'[d][j].stream # g.stream
        <5>1. j \in 1 .. Len(to_server'[d])
          BY <2>1
        <5>2. CASE j \in 1 .. Len(to_server[d]) /\ to_server'[d][j] = to_server[d][j]
          <6>1. j \in i + 1 .. Len(to_server[d])
            BY <5>2
          <6> QED
            BY <3>1, <3>2, <5>2, <6>1 DEF FrameRight
        <5>3. CASE to_server'[d][j] = f
          BY <4>1, <5>3, <1>c
        <5> QED
          BY <5>1, <5>2, <5>3, <1>i
      <4> QED
        BY <4>1, <4>2, <3>1, <1>e
    <3> QED
      BY <2>1, <3>1, <3>2, <1>d DEF FrameRight, IsEnd
  <2>2. CASE d = c /\ i = m + 1 /\ to_server'[d][i] = f
    <3>1. i + 1 > Len(to_server'[d])
      BY <2>2, <1>b
    <3>2. Owed(v)
      BY <1>a DEF AllOwed
    <3> QED
      BY <2>2, <3>1, <3>2, <1>a, <1>c, <1>d, <1>f, <1>h DEF FrameRight, IsEnd
  <2> QED
    BY <2>1, <2>2, <1>i
<1>6. Ended'
  BY <1>a, <1>d, <1>e, <1>j DEF Ended, Listening
<1>9. AllOwed'
  BY <1>a, <1>d, <1>e DEF AllOwed
<1> QED
  BY <1>1, <1>2, <1>3, <1>4, <1>5, <1>6, <1>9

LEMMA HandlerProtocol ==
  ASSUME Protocol, NEW v \in Visitors, HandlerStep(v) \/ VisitorLeaves(v) PROVE Protocol'
<1> USE DEF Unsent, Failed, VisStates, Listening
<1>t. TypeOK'
  BY HandlerType, VisitorType DEF Protocol
<1>u. vis[v] \in {"new", "admit", "upload"} => v \notin pending
  BY DEF Protocol, Unopened
<1>1. CASE Refuse(v)
  BY <1>1, <1>t, <1>u, HandlerMoves DEF Refuse, regVars
<1>2. CASE Acquire(v)
  BY <1>2, <1>t, <1>u, HandlerMoves DEF Acquire
<1>3. CASE BodyTooLarge(v)
  BY <1>3, <1>t, <1>u, HandlerMoves DEF BodyTooLarge
<1>4. CASE InsertPending(v)
  BY <1>4, <1>t, <1>u, HandlerMoves DEF InsertPending
<1>5. CASE SendOpen(v)
  BY <1>5, SendOpenProtocol
<1>6. CASE ClientOffline(v)
  BY <1>6, <1>t, HandlerMoves DEF ClientOffline, GiveUp
<1>7. CASE Timeout(v)
  BY <1>7, <1>t, HandlerMoves DEF Timeout, GiveUp
<1>8. CASE BadFirstEvent(v)
  BY <1>8, <1>t, HandlerMoves DEF BadFirstEvent, GiveUp
<1>9. CASE FirstHead(v)
  BY <1>9, <1>t, HandlerMoves DEF FirstHead
<1>10. CASE BodyChunk(v)
  <2>1. Goto(v, "body")
    BY <1>10 DEF BodyChunk, Goto, Protocol, TypeOK
  <2> QED
    BY <1>10, <2>1, <1>t, HandlerMoves DEF BodyChunk
<1>11. CASE BodyEnd(v)
  BY <1>11, <1>t, HandlerMoves DEF BodyEnd
<1>12. CASE VisitorLeaves(v)
  BY <1>12, <1>t, <1>u, HandlerMoves DEF VisitorLeaves
<1> QED
  BY <1>1, <1>2, <1>3, <1>4, <1>5, <1>6, <1>7, <1>8, <1>9, <1>10, <1>11, <1>12 DEF HandlerStep, UploadStep, TaskStep

\* The first layer is inductive by itself.
LEMMA ProtocolInv == Protocol /\ [Next]_vars => Protocol'
<1>1. ASSUME Protocol, UNCHANGED vars PROVE Protocol'
  BY <1>1 DEF vars, visVars, regVars, connVars, Protocol, TypeOK, Unopened, OpensOnce, WorkRight,
              AllOwed, Owed, FramesRight, FrameRight, Ended, NoFrames, Listening, IsEnd
<1> QED
  BY <1>1, ArriveProtocol, HandlerProtocol, ClientProtocol, ConnectProtocol, LinkLostProtocol,
     ServerClosesProtocol, ServerRecvProtocol, ClientTakesProtocol DEF Next

-----------------------------------------------------------------------------
(* Second layer.                                                           *)

\* The server has taken the End or Abort of v, or lost it with the link.
Returned(v) ==
  /\ work[v] = "over"
  /\ \A c \in ConnId : \A i \in 1 .. Len(to_server[c]) :
       to_server[c][i].stream = v => ~IsEnd(to_server[c][i])

\* Streams that may have been released by their handler and by routes_ws.
Twice == {v \in Visitors : vis[v] \in Failed /\ Returned(v)}

\* Streams that took a slot and have not been released.
Slots == {v \in Visitors : vis[v] \in {"upload", "dropped"}} \cup pending

SlotsBound ==
  /\ active <= Cardinality(Slots)
  /\ Cardinality(Slots) <= active + Cardinality(Twice)

\* Both sets are finite, and so are their parts.
LEMMA SlotSets ==
  ASSUME Protocol
  PROVE  /\ IsFiniteSet(Slots) /\ Cardinality(Slots) \in Nat
         /\ IsFiniteSet(Twice) /\ Cardinality(Twice) \in Nat
         /\ active \in Nat
<1>1. Slots \subseteq Visitors /\ Twice \subseteq Visitors /\ active \in Nat
  BY DEF Slots, Twice, Protocol, TypeOK
<1> QED
  BY <1>1, FS_Subset, FS_CardinalityType, HttpStreamsAssumption

\* A step that neither gives nor takes a slot.
LEMMA SlotsSame ==
  ASSUME Protocol, Protocol', SlotsBound, active' = active, Slots' = Slots,
         Twice \subseteq Twice'
  PROVE  SlotsBound'
<1>1. IsFiniteSet(Twice') /\ Cardinality(Twice') \in Nat
  <2>1. Twice' \subseteq Visitors
    BY DEF Twice
  <2> QED
    BY <2>1, FS_Subset, FS_CardinalityType, HttpStreamsAssumption
<1>2. Cardinality(Twice) <= Cardinality(Twice')
  BY <1>1, FS_Subset
<1> QED
  BY <1>1, <1>2, SlotSets DEF SlotsBound

\* A stream is released: its slot is one of those held, or one released before.
LEMMA SlotsReleased ==
  ASSUME Protocol, Protocol', SlotsBound, active' = Released(active), NEW v \in Visitors,
         Slots' = Slots \ {v}, Twice \subseteq Twice',
         v \in Slots \/ v \in Twice' \ Twice
  PROVE  SlotsBound'
<1>1. /\ IsFiniteSet(Slots) /\ Cardinality(Slots) \in Nat
      /\ IsFiniteSet(Twice) /\ Cardinality(Twice) \in Nat /\ active \in Nat
  BY SlotSets
<1>2. IsFiniteSet(Twice') /\ Cardinality(Twice') \in Nat
  <2>1. Twice' \subseteq Visitors
    BY DEF Twice
  <2> QED
    BY <2>1, FS_Subset, FS_CardinalityType, HttpStreamsAssumption
<1>3. Cardinality(Twice) <= Cardinality(Twice')
  BY <1>2, FS_Subset
<1>4. CASE v \in Slots
  <2>1. Cardinality(Slots') = Cardinality(Slots) - 1
    BY <1>1, <1>4, FS_RemoveElement
  <2>2. PICK h \in Nat, t \in Nat, u \in Nat, a \in Nat :
          /\ h = Cardinality(Slots) /\ t = Cardinality(Twice)
          /\ u = Cardinality(Twice') /\ a = active
    BY <1>1, <1>2
  <2>3. t <= u /\ a <= h /\ h <= a + t
    BY <2>2, <1>3 DEF SlotsBound
  <2>4. h - 1 <= Released(a) + u /\ (h \in Nat \ {0} => Released(a) <= h - 1)
    BY <2>3 DEF Released
  <2>5. h # 0
    BY <1>1, <1>4, <2>2, FS_EmptySet
  <2> QED
    BY <2>1, <2>2, <2>4, <2>5 DEF SlotsBound
<1>5. CASE v \notin Slots
  <2>1. Slots' = Slots
    BY <1>5
  <2>2. Twice \cup {v} \subseteq Twice' /\ v \notin Twice
    BY <1>5
  <2>3. Cardinality(Twice \cup {v}) = Cardinality(Twice) + 1
    BY <1>1, <2>2, FS_AddElement
  <2>4. Cardinality(Twice \cup {v}) <= Cardinality(Twice')
    BY <1>2, <2>2, FS_Subset
  <2> QED
    BY <1>1, <1>2, <2>1, <2>3, <2>4 DEF SlotsBound, Released
<1> QED
  BY <1>4, <1>5

\* What has been returned stays returned while clients and connections rest.
LEMMA TwiceStays ==
  ASSUME UNCHANGED <<work, to_server>>, \A v \in Visitors : vis[v] \in Failed => vis'[v] \in Failed
  PROVE  Twice \subseteq Twice'
BY DEF Twice, Returned, IsEnd

LEMMA HandlerSlots ==
  ASSUME Protocol, Protocol', SlotsBound, NEW v \in Visitors,
         Arrive(v) \/ HandlerStep(v) \/ VisitorLeaves(v)
  PROVE  SlotsBound'
<1> USE DEF Goto, Failed
<1>t. vis \in [Visitors -> VisStates]
  BY DEF Protocol, TypeOK
<1>u. vis[v] \in {"new", "admit", "upload"} => v \notin pending
  BY DEF Protocol, Unopened, Unsent
<1>1. CASE Arrive(v) \/ Refuse(v) \/ FirstHead(v) \/ BodyEnd(v) \/ VisitorLeaves(v) \/ SendOpen(v)
  <2>1. PICK x \in {"404", "admit", "429", "body", "done", "gone", "dropped", "wait"} :
          /\ vis' = [vis EXCEPT ![v] = x]
          /\ x = "dropped" <=> vis[v] \in {"upload", "opening"} /\ VisitorLeaves(v)
          /\ vis[v] \in {"new", "admit", "upload", "wait", "body", "opening"}
          /\ vis[v] = "upload" => VisitorLeaves(v)
    BY <1>1 DEF Arrive, Refuse, FirstHead, BodyEnd, VisitorLeaves, SendOpen
  <2>2. UNCHANGED <<pending, active, work, to_server>>
    BY <1>1 DEF Arrive, Refuse, FirstHead, BodyEnd, VisitorLeaves, SendOpen, regVars, connVars
  <2>3. vis[v] = "opening" => v \in pending
    BY DEF Protocol, Ended, Unopened, Unsent, Listening
  <2>4. Slots' = Slots
    BY <1>1, <1>t, <2>1, <2>2, <2>3 DEF Slots
  <2>5. \A w \in Visitors : vis[w] \in Failed => vis'[w] \in Failed
    BY <1>t, <2>1, <2>2
  <2> QED
    BY <2>2, <2>4, <2>5, TwiceStays, SlotsSame
<1>2. CASE BodyChunk(v)
  <2>1. UNCHANGED <<vis, pending, active, work, to_server>>
    BY <1>2 DEF BodyChunk, connVars
  <2>2. Slots' = Slots
    BY <2>1 DEF Slots
  <2> QED
    BY <2>1, <2>2, TwiceStays, SlotsSame
<1>3. CASE InsertPending(v)
  <2>1. /\ vis[v] = "upload" /\ vis' = [vis EXCEPT ![v] = "opening"] /\ pending' = pending \cup {v}
        /\ UNCHANGED <<active, work, to_server>>
    BY <1>3 DEF InsertPending, connVars
  <2>2. Slots' = Slots
    BY <1>t, <2>1 DEF Slots
  <2>3. \A w \in Visitors : vis[w] \in Failed => vis'[w] \in Failed
    BY <1>t, <2>1
  <2> QED
    BY <2>1, <2>2, <2>3, TwiceStays, SlotsSame
<1>4. CASE Acquire(v)
  <2>1. /\ vis[v] = "admit" /\ vis' = [vis EXCEPT ![v] = "upload"] /\ active' = active + 1
        /\ UNCHANGED <<pending, work, to_server>>
    BY <1>4 DEF Acquire, connVars
  <2>2. Slots' = Slots \cup {v} /\ v \notin Slots
    BY <1>t, <1>u, <2>1 DEF Slots
  <2>3. Cardinality(Slots') = Cardinality(Slots) + 1
    BY <2>2, SlotSets, FS_AddElement
  <2>4. Twice' = Twice
    BY <1>t, <2>1 DEF Twice, Returned, IsEnd
  <2> QED
    BY <2>1, <2>3, <2>4, SlotSets DEF SlotsBound
<1>5. CASE BodyTooLarge(v)
  <2>1. /\ vis[v] = "upload" /\ vis' = [vis EXCEPT ![v] = "413"] /\ active' = Released(active)
        /\ UNCHANGED <<pending, work, to_server>>
    BY <1>5 DEF BodyTooLarge, connVars
  <2>2. Slots' = Slots \ {v} /\ v \in Slots
    BY <1>t, <1>u, <2>1 DEF Slots
  <2>3. \A w \in Visitors : vis[w] \in Failed => vis'[w] \in Failed
    BY <1>t, <2>1
  <2> QED
    BY <2>1, <2>2, <2>3, TwiceStays, SlotsReleased
<1>6. CASE ClientOffline(v) \/ Timeout(v) \/ BadFirstEvent(v)
  <2>1. PICK x \in Failed : vis' = [vis EXCEPT ![v] = x]
    BY <1>6 DEF ClientOffline, Timeout, BadFirstEvent, GiveUp
  <2>2. /\ vis[v] \in {"opening", "wait"} /\ pending' = pending \ {v}
        /\ active' = Released(active) /\ UNCHANGED <<work, to_server>>
    BY <1>6 DEF ClientOffline, Timeout, BadFirstEvent, GiveUp, connVars
  <2>3. Slots' = Slots \ {v}
    BY <1>t, <2>1, <2>2 DEF Slots
  <2>4. \A w \in Visitors : vis[w] \in Failed => vis'[w] \in Failed
    BY <1>t, <2>1, <2>2
  <2>5. ASSUME v \notin Slots PROVE v \in Twice' \ Twice
    <3>1. work[v] = "over" /\ NoFrames(v)
      BY <2>2, <2>5 DEF Slots, Protocol, Ended, Listening
    <3>2. vis'[v] \in Failed /\ vis[v] \notin Failed
      BY <1>t, <2>1, <2>2
    <3>3. Returned(v)'
      BY <3>1, <2>2 DEF Returned, NoFrames, IsEnd
    <3> QED
      BY <3>2, <3>3 DEF Twice
  <2> QED
    BY <2>2, <2>3, <2>4, <2>5, TwiceStays, SlotsReleased
<1> QED
  BY <1>1, <1>2, <1>3, <1>4, <1>5, <1>6 DEF HandlerStep, UploadStep, TaskStep

LEMMA ServerSlots ==
  ASSUME Protocol, Protocol', SlotsBound, NEW c \in ConnId, ServerRecv(c) PROVE SlotsBound'
<1>1. TakeFrame(c) /\ UNCHANGED <<vis, work>>
  BY DEF ServerRecv, RecvHeadOrChunk, RecvEndOrAbort, TakeFrame, visVars
<1>a. PICK s \in Visitors : s = Frame(c).stream
  BY <1>1, Taken DEF Protocol
<1>2. /\ Frame(c) = to_server[c][1] /\ s = Frame(c).stream
      /\ Len(to_server[c]) \in Nat \ {0} /\ Len(to_server'[c]) = Len(to_server[c]) - 1
      /\ \A i \in 1 .. Len(to_server'[c]) :
           i + 1 \in 1 .. Len(to_server[c]) /\ to_server'[c][i] = to_server[c][i + 1]
      /\ \A d \in ConnId \ {c} : to_server'[d] = to_server[d]
  BY <1>1, <1>a, Taken DEF Protocol
<1>3. Twice \subseteq Twice'
  <2> SUFFICES ASSUME NEW w \in Visitors, Returned(w), NEW d \in ConnId,
                      NEW i \in 1 .. Len(to_server'[d]), to_server'[d][i].stream = w
               PROVE  ~IsEnd(to_server[d][i])'
    BY <1>1 DEF Twice, Returned
  <2>1. CASE d = c
    BY <2>1, <1>2 DEF Returned, IsEnd
  <2>2. CASE d # c
    BY <2>2, <1>2 DEF Returned, IsEnd
  <2> QED
    BY <2>1, <2>2
<1>4. CASE RecvHeadOrChunk(c)
  <2>1. active' = active /\ Slots' = Slots
    BY <1>1, <1>4 DEF RecvHeadOrChunk, Slots
  <2> QED
    BY <2>1, <1>3, SlotsSame
<1>5. CASE RecvEndOrAbort(c)
  <2>1. IsEnd(Frame(c)) /\ pending' = pending \ {s} /\ active' = Released(active)
    BY <1>2, <1>5 DEF RecvEndOrAbort, IsEnd
  <2>2. FrameRight(c, 1)
    BY <1>2 DEF Protocol, FramesRight
  <2>3. target[s] = c /\ work[s] = "over"
    BY <1>2, <2>1, <2>2 DEF FrameRight
  <2>3a. s \in pending \/ vis[s] \in Failed
    BY <1>2, <2>1, <2>2 DEF FrameRight, Owed
  <2>4. vis[s] \notin {"upload", "dropped"}
    BY <1>2, <2>3 DEF Protocol, Unopened, Unsent
  <2>5. Slots' = Slots \ {s}
    BY <1>1, <2>1, <2>4 DEF Slots
  <2>6. ASSUME s \notin Slots PROVE s \in Twice' \ Twice
    <3>1. vis[s] \in Failed
      BY <2>3a, <2>6 DEF Slots
    <3>2. ~Returned(s)
      <4>1. /\ 1 \in 1 .. Len(to_server[c]) /\ to_server[c][1].stream = s
            /\ IsEnd(to_server[c][1])
        BY <1>2, <2>1
      <4> QED
        BY <4>1 DEF Returned
    <3>3. \A d \in ConnId : \A i \in 1 .. Len(to_server'[d]) : to_server'[d][i].stream # s
      <4> SUFFICES ASSUME NEW d \in ConnId, NEW i \in 1 .. Len(to_server'[d])
                   PROVE  to_server'[d][i].stream # s
        OBVIOUS
      <4>1. CASE d = c
        BY <4>1, <1>2, <2>1, <2>2 DEF FrameRight
      <4>2. CASE d # c
        BY <4>2, <1>2, <2>3 DEF Protocol, FramesRight, FrameRight
      <4> QED
        BY <4>1, <4>2
    <3>4. Returned(s)'
      BY <1>1, <2>3, <3>3 DEF Returned
    <3> QED
      BY <3>1, <3>2, <3>4, <1>1, <1>2 DEF Twice
  <2> QED
    BY <2>1, <2>5, <2>6, <1>2, <1>3, SlotsReleased
<1> QED
  BY <1>4, <1>5 DEF ServerRecv

LEMMA LinkSlots ==
  ASSUME Protocol, Protocol', SlotsBound, NEW c \in ConnId,
         Connect(c) \/ LinkLost(c) \/ ServerCloses(c) \/ ClientTakes(c)
  PROVE  SlotsBound'
<1>1. active' = active /\ vis' = vis /\ Slots' = Slots
  BY DEF Connect, LinkLost, ServerCloses, ClientTakes, visVars, regVars, Slots
<1>2. \A d \in ConnId : to_server'[d] = to_server[d] \/ Len(to_server'[d]) = 0
  BY DEF Connect, LinkLost, ServerCloses, ClientTakes, Protocol, TypeOK
<1>3. \A v \in Visitors : work[v] = "over" => work'[v] = "over"
  <2>1. CASE Connect(c) \/ ServerCloses(c)
    BY <2>1 DEF Connect, ServerCloses
  <2>2. CASE LinkLost(c)
    BY <2>2 DEF LinkLost
  <2>3. CASE ClientTakes(c)
    <3>1. to_client[c] \in Seq(Visitors) /\ to_client[c] # <<>>
      BY <2>3 DEF ClientTakes, Protocol, TypeOK
    <3>2. Len(to_client[c]) \in Nat \ {0} /\ Head(to_client[c]) = to_client[c][1]
      BY <3>1, TailOf
    <3>3. work[Head(to_client[c])] = "none"
      BY <3>2 DEF Protocol, OpensOnce
    <3> QED
      BY <2>3, <3>3 DEF ClientTakes, Protocol, TypeOK
  <2> QED
    BY <2>1, <2>2, <2>3
<1>4. Twice \subseteq Twice'
  BY <1>1, <1>2, <1>3 DEF Twice, Returned, IsEnd
<1> QED
  BY <1>1, <1>4, SlotsSame

LEMMA ClientSlots ==
  ASSUME Protocol, Protocol', SlotsBound, NEW v \in Visitors, ClientStep(v) PROVE SlotsBound'
<1>1. PICK kind \in {"head", "chunk", "end", "abort"}, n \in Nat :
           /\ Up(v) /\ SendFrame(v, kind, n)
           /\ work[v] \in {"busy", "head"}
           /\ work' = [work EXCEPT ![v] = IF kind \in {"end", "abort"} THEN "over" ELSE "head"]
           /\ UNCHANGED <<visVars, regVars, link, to_client>>
  BY ClientSends
<1> DEFINE f == [stream |-> v, kind |-> kind, number |-> n]
           c == target[v]
<1>2. /\ c \in ConnId
      /\ \A d \in ConnId \ {c} : to_server'[d] = to_server[d]
      /\ Len(to_server'[c]) = Len(to_server[c]) + 1 /\ Len(to_server[c]) \in Nat
      /\ \A i \in 1 .. Len(to_server[c]) : to_server'[c][i] = to_server[c][i]
      /\ to_server'[c][Len(to_server[c]) + 1] = f
  BY <1>1, Sends, QueueTypes DEF Protocol
<1>3. f.stream = v
  OBVIOUS
<1> HIDE DEF f, c
<1>4. active' = active /\ vis' = vis /\ Slots' = Slots
  BY <1>1 DEF visVars, regVars, Slots
<1>5. ASSUME NEW w \in Twice PROVE w \in Twice'
  <2>1. w \in Visitors /\ work[w] = "over" /\ w # v /\ work'[w] = "over"
    BY <1>1 DEF Twice, Returned, Protocol, TypeOK
  <2>2. ASSUME NEW d \in ConnId, NEW i \in 1 .. Len(to_server'[d]), to_server'[d][i].stream = w
        PROVE  ~IsEnd(to_server[d][i])'
    <3>1. i \in 1 .. Len(to_server[d]) /\ to_server'[d][i] = to_server[d][i]
      BY <2>1, <2>2, <1>2, <1>3
    <3> QED
      BY <2>2, <3>1 DEF Twice, Returned, IsEnd
  <2> QED
    BY <2>1, <2>2, <1>4 DEF Twice, Returned
<1> QED
  BY <1>4, <1>5, SlotsSame

LEMMA SlotsInv == Protocol /\ Protocol' /\ SlotsBound /\ [Next]_vars => SlotsBound'
<1>1. SlotsBound /\ UNCHANGED vars => SlotsBound'
  BY DEF vars, visVars, regVars, connVars, SlotsBound, Slots, Twice, Returned, IsEnd
<1> QED
  BY <1>1, HandlerSlots, ServerSlots, LinkSlots, ClientSlots DEF Next

-----------------------------------------------------------------------------
(* Third layer.                                                            *)

IsChunk(f) == f.kind = "chunk"

\* Chunk n of stream v is in its event channel, or on its way to the server.
Queued(v, n) ==
  \E i \in 1 .. Len(events[v]) : IsChunk(events[v][i]) /\ events[v][i].number = n
OnTheWay(v, n) ==
  \E c \in ConnId : \E i \in 1 .. Len(to_server[c]) :
    to_server[c][i].stream = v /\ IsChunk(to_server[c][i]) /\ to_server[c][i].number = n
Coming(v, n) == Queued(v, n) \/ OnTheWay(v, n)

EndQueued(v)   == \E i \in 1 .. Len(events[v]) : IsEnd(events[v][i])
EndOnTheWay(v) ==
  \E c \in ConnId : \E i \in 1 .. Len(to_server[c]) :
    to_server[c][i].stream = v /\ IsEnd(to_server[c][i])

\* The chunks come one after the other, first those of the event channel.
ChannelInOrder(v) ==
  \A i \in 1 .. Len(events[v]) : IsChunk(events[v][i]) =>
    /\ got[v] < events[v][i].number /\ events[v][i].number <= sent[v]
    /\ \A j \in 1 .. i - 1 : IsChunk(events[v][j]) => events[v][j].number < events[v][i].number

FramesInOrder(v) ==
  \A c \in ConnId : \A i \in 1 .. Len(to_server[c]) :
    to_server[c][i].stream = v /\ IsChunk(to_server[c][i]) =>
      LET n == to_server[c][i].number IN
      /\ got[v] < n /\ n <= sent[v]
      /\ \A j \in 1 .. Len(events[v]) : IsChunk(events[v][j]) => events[v][j].number < n
      /\ \A j \in 1 .. i - 1 :
           to_server[c][j].stream = v /\ IsChunk(to_server[c][j]) => to_server[c][j].number < n

NoGap(v) == \A n \in Nat : Coming(v, n) => n = got[v] + 1 \/ Coming(v, n - 1)

\* As long as the client is at it, and behind its End, the last chunk is there.
Whole(v) ==
  work[v] = "head" \/ EndQueued(v) \/ EndOnTheWay(v) => sent[v] = got[v] \/ Coming(v, sent[v])

EndIsLast(v) ==
  \A i \in 1 .. Len(events[v]) : IsEnd(events[v][i]) =>
    i = Len(events[v]) /\ NoFrames(v) /\ work[v] = "over"

ChunksRight(v) ==
  ChannelInOrder(v) /\ FramesInOrder(v) /\ NoGap(v) /\ Whole(v) /\ EndIsLast(v)

Counts ==
  \A v \in Visitors :
    /\ got[v] <= sent[v]
    /\ work[v] \in {"none", "busy"} => events[v] = <<>>
    /\ vis[v] = "done" => work[v] = "over"

Chunks == Counts /\ \A v \in Visitors : Listening(v) => ChunksRight(v)

\* What the channel of a stream holds.
LEMMA EventTypes ==
  ASSUME TypeOK, NEW v \in Visitors
  PROVE  /\ events[v] \in Seq(FrameSet) /\ Len(events[v]) \in Nat
         /\ got[v] \in Nat /\ sent[v] \in Nat
         /\ \A i \in 1 .. Len(events[v]) : events[v][i] \in FrameSet /\ events[v][i].number \in Nat
         /\ \A c \in ConnId : \A i \in 1 .. Len(to_server[c]) : to_server[c][i].number \in Nat
<1>1. events[v] \in Seq(FrameSet) /\ got[v] \in Nat /\ sent[v] \in Nat
  BY DEF TypeOK
<1>2. \A f \in FrameSet : f.number \in Nat
  BY DEF FrameSet
<1>3. \A i \in 1 .. Len(events[v]) : events[v][i] \in FrameSet
  BY <1>1, ElementOf
<1> QED
  BY <1>1, <1>2, <1>3, QueueTypes

\* A step that leaves channel, counts and frames of v alone.
LEMMA ChunksRest ==
  ASSUME NEW v \in Visitors, ChunksRight(v),
         to_server' = to_server, events'[v] = events[v], got'[v] = got[v], sent'[v] = sent[v],
         work'[v] = "head" => work[v] = "head", work[v] = "over" => work'[v] = "over"
  PROVE  ChunksRight(v)'
BY DEF ChunksRight, ChannelInOrder, FramesInOrder, NoGap, Whole, EndIsLast, NoFrames,
       Coming, Queued, OnTheWay, EndQueued, EndOnTheWay, IsChunk, IsEnd

\* Nothing is on its way for a stream that has not been opened.
LEMMA ChunksFresh ==
  ASSUME NEW v \in Visitors, NoFrames(v)', events'[v] = <<>>, work'[v] = "none"
  PROVE  ChunksRight(v)'
BY DEF ChunksRight, ChannelInOrder, FramesInOrder, NoGap, Whole, EndIsLast, NoFrames,
       Coming, Queued, OnTheWay, EndQueued, EndOnTheWay

LEMMA ChannelTail ==
  ASSUME Protocol, NEW v \in Visitors, ChunksRight(v), events[v] # <<>>,
         to_server' = to_server, work' = work, sent' = sent,
         events'[v] = Tail(events[v]),
         \/ ~IsChunk(events[v][1]) /\ ~IsEnd(events[v][1]) /\ got'[v] = got[v]
         \/ IsChunk(events[v][1]) /\ got'[v] = events[v][1].number
  PROVE  ChunksRight(v)'
<1> DEFINE q == events[v]
           m == Len(events[v])
<1>1. /\ m \in Nat \ {0} /\ Len(events'[v]) = m - 1
      /\ \A i \in 1 .. m - 1 : events'[v][i] = q[i + 1]
      /\ got[v] \in Nat /\ sent[v] \in Nat
      /\ \A i \in 1 .. m : q[i].number \in Nat
      /\ \A c \in ConnId : \A i \in 1 .. Len(to_server[c]) : to_server[c][i].number \in Nat
  BY TailOf, EventTypes DEF Protocol
<1>2. got'[v] \in Nat /\ got[v] <= got'[v] /\ (IsChunk(q[1]) => got'[v] = q[1].number)
  BY <1>1 DEF ChunksRight, ChannelInOrder, IsChunk, IsEnd
<1>3. ChannelInOrder(v)'
  <2> SUFFICES ASSUME NEW i \in 1 .. Len(events'[v]), IsChunk(q[i + 1])
               PROVE  /\ got'[v] < q[i + 1].number /\ q[i + 1].number <= sent[v]
                      /\ \A j \in 1 .. i - 1 :
                           IsChunk(q[j + 1]) => q[j + 1].number < q[i + 1].number
    BY <1>1 DEF ChannelInOrder, IsChunk
  <2>1. i + 1 \in 1 .. m /\ 1 \in 1 .. (i + 1) - 1 /\ \A j \in 1 .. i - 1 : j + 1 \in 1 .. (i + 1) - 1
    BY <1>1
  <2>2. /\ got[v] < q[i + 1].number /\ q[i + 1].number <= sent[v]
        /\ \A j \in 1 .. (i + 1) - 1 : IsChunk(q[j]) => q[j].number < q[i + 1].number
    BY <2>1 DEF ChunksRight, ChannelInOrder
  <2>3. got'[v] < q[i + 1].number
    BY <2>1, <2>2, <1>2
  <2> QED
    BY <2>1, <2>2, <2>3
<1>4. FramesInOrder(v)'
  <2> SUFFICES ASSUME NEW c \in ConnId, NEW i \in 1 .. Len(to_server[c]),
                      to_server[c][i].stream = v, IsChunk(to_server[c][i])
               PROVE  /\ got'[v] < to_server[c][i].number /\ to_server[c][i].number <= sent[v]
                      /\ \A j \in 1 .. Len(events'[v]) :
                           IsChunk(q[j + 1]) => q[j + 1].number < to_server[c][i].number
                      /\ \A j \in 1 .. i - 1 :
                           to_server[c][j].stream = v /\ IsChunk(to_server[c][j]) =>
                             to_server[c][j].number < to_server[c][i].number
    BY <1>1 DEF FramesInOrder, IsChunk
  <2>1. /\ got[v] < to_server[c][i].number /\ to_server[c][i].number <= sent[v]
        /\ \A j \in 1 .. m : IsChunk(q[j]) => q[j].number < to_server[c][i].number
        /\ \A j \in 1 .. i - 1 : to_server[c][j].stream = v /\ IsChunk(to_server[c][j]) =>
             to_server[c][j].number < to_server[c][i].number
    BY DEF ChunksRight, FramesInOrder
  <2> QED
    BY <2>1, <1>1, <1>2
<1>5. \A n \in Nat : Coming(v, n) => Coming(v, n)' \/ (IsChunk(q[1]) /\ n = q[1].number)
  <2> SUFFICES ASSUME NEW n \in Nat, Coming(v, n), ~(IsChunk(q[1]) /\ n = q[1].number)
               PROVE  Coming(v, n)'
    OBVIOUS
  <2>1. CASE OnTheWay(v, n)
    BY <2>1 DEF Coming, OnTheWay, IsChunk
  <2>2. CASE Queued(v, n)
    <3>1. PICK i \in 1 .. m : IsChunk(q[i]) /\ q[i].number = n
      BY <2>2 DEF Queued
    <3>2. i - 1 \in 1 .. Len(events'[v]) /\ events'[v][i - 1] = q[i]
      BY <3>1, <1>1
    <3> QED
      BY <3>1, <3>2 DEF Coming, Queued, IsChunk
  <2> QED
    BY <2>1, <2>2 DEF Coming
<1>6. \A n \in Nat : Coming(v, n)' => Coming(v, n) /\ got'[v] < n
  <2> SUFFICES ASSUME NEW n \in Nat, Coming(v, n)' PROVE Coming(v, n) /\ got'[v] < n
    OBVIOUS
  <2>1. CASE OnTheWay(v, n)'
    BY <2>1, <1>4 DEF Coming, OnTheWay, IsChunk, FramesInOrder
  <2>2. CASE Queued(v, n)'
    <3>1. PICK i \in 1 .. Len(events'[v]) : IsChunk(events'[v][i]) /\ events'[v][i].number = n
      BY <2>2 DEF Queued, IsChunk
    <3>2. i + 1 \in 1 .. m /\ events'[v][i] = q[i + 1]
      BY <3>1, <1>1
    <3> QED
      BY <3>1, <3>2, <1>3 DEF Coming, Queued, IsChunk, ChannelInOrder
  <2> QED
    BY <2>1, <2>2 DEF Coming
<1>7. NoGap(v)'
  <2> SUFFICES ASSUME NEW n \in Nat, Coming(v, n)'
               PROVE  n = got'[v] + 1 \/ Coming(v, n - 1)'
    BY DEF NoGap
  <2>1. Coming(v, n) /\ got'[v] < n /\ n - 1 \in Nat
    BY <1>2, <1>6
  <2>2. CASE n = got[v] + 1
    BY <2>1, <2>2, <1>1, <1>2
  <2>3. CASE Coming(v, n - 1)
    <3>1. CASE IsChunk(q[1]) /\ n - 1 = q[1].number
      BY <2>1, <3>1, <1>2
    <3>2. CASE ~(IsChunk(q[1]) /\ n - 1 = q[1].number)
      BY <2>1, <2>3, <3>2, <1>5
    <3> QED
      BY <3>1, <3>2
  <2> QED
    BY <2>1, <2>2, <2>3 DEF ChunksRight, NoGap
<1>8. Whole(v)'
  <2> SUFFICES ASSUME work[v] = "head" \/ EndQueued(v)' \/ EndOnTheWay(v)'
               PROVE  sent[v] = got'[v] \/ Coming(v, sent[v])'
    BY DEF Whole
  <2>1. EndQueued(v)' => EndQueued(v)
    <3> SUFFICES ASSUME NEW i \in 1 .. Len(events'[v]), IsEnd(events'[v][i]) PROVE EndQueued(v)
      BY DEF EndQueued, IsEnd
    <3>1. i + 1 \in 1 .. m /\ events'[v][i] = q[i + 1]
      BY <1>1
    <3> QED
      BY <3>1 DEF EndQueued
  <2>2. EndOnTheWay(v)' => EndOnTheWay(v)
    BY DEF EndOnTheWay, IsEnd
  <2>3. sent[v] = got[v] \/ Coming(v, sent[v])
    BY <2>1, <2>2 DEF ChunksRight, Whole
  <2>4. CASE Coming(v, sent[v])
    BY <2>4, <1>1, <1>2, <1>5
  <2>5. CASE sent[v] = got[v]
    BY <2>5, <1>1, <1>2 DEF ChunksRight, ChannelInOrder
  <2> QED
    BY <2>3, <2>4, <2>5
<1>9. EndIsLast(v)'
  <2> SUFFICES ASSUME NEW i \in 1 .. Len(events'[v]), IsEnd(events'[v][i])
               PROVE  i = Len(events'[v]) /\ NoFrames(v)' /\ work[v] = "over"
    BY DEF EndIsLast, IsEnd
  <2>1. i + 1 \in 1 .. m /\ events'[v][i] = q[i + 1]
    BY <1>1
  <2>2. i + 1 = m /\ NoFrames(v) /\ work[v] = "over"
    BY <2>1 DEF ChunksRight, EndIsLast
  <2> QED
    BY <2>2, <1>1 DEF NoFrames
<1> QED
  BY <1>3, <1>4, <1>7, <1>8, <1>9 DEF ChunksRight

LEMMA HandlerChunks ==
  ASSUME Protocol, Chunks, NEW v \in Visitors,
         Arrive(v) \/ HandlerStep(v) \/ VisitorLeaves(v)
  PROVE  Chunks'
<1>t. /\ vis \in [Visitors -> VisStates] /\ got \in [Visitors -> Nat]
      /\ events \in [Visitors -> Seq(FrameSet)] /\ TypeOK
  BY DEF Protocol, TypeOK
<1>u. UNCHANGED <<work, sent, to_server>>
  BY DEF Arrive, HandlerStep, UploadStep, TaskStep, VisitorLeaves, Acquire, Refuse, BodyTooLarge, InsertPending, SendOpen,
         ClientOffline, Timeout, BadFirstEvent, FirstHead, BodyChunk, BodyEnd, GiveUp, connVars
<1>1. CASE UNCHANGED <<events, got>> /\ (\E x \in VisStates \ {"done"} : Goto(v, x))
           /\ (Listening(v)' => Listening(v) \/ vis[v] = "upload")
  <2>1. Counts'
    BY <1>1, <1>t, <1>u DEF Counts, Chunks, Goto
  <2>2. ASSUME NEW w \in Visitors, Listening(w)' PROVE ChunksRight(w)'
    <3>1. Listening(w) \/ w = v
      BY <2>2, <1>1, <1>t DEF Goto, Listening
    <3>2. CASE Listening(w)
      BY <3>2, <1>1, <1>u, ChunksRest DEF Chunks
    <3>3. CASE w = v /\ vis[v] = "upload"
      <4>1. work[v] = "none" /\ events[v] = <<>> /\ NoFrames(v)
        BY <3>3 DEF Protocol, Unopened, Unsent, WorkRight, Chunks, Counts
      <4> QED
        BY <3>3, <4>1, <1>1, <1>u, ChunksFresh DEF NoFrames
    <3> QED
      BY <2>2, <3>1, <3>2, <3>3, <1>1
  <2> QED
    BY <2>1, <2>2 DEF Chunks
<1>2. CASE Arrive(v) \/ Acquire(v) \/ Refuse(v) \/ BodyTooLarge(v) \/ SendOpen(v)
           \/ InsertPending(v) \/ ClientOffline(v) \/ Timeout(v)
  <2>1. UNCHANGED <<events, got>>
    BY <1>2 DEF Arrive, Acquire, Refuse, BodyTooLarge, SendOpen, InsertPending, ClientOffline,
                Timeout, GiveUp, regVars
  <2>2. PICK x \in {"404", "admit", "upload", "429", "413", "wait", "opening", "502", "504"} : Goto(v, x)
    BY <1>2 DEF Arrive, Acquire, Refuse, BodyTooLarge, SendOpen, InsertPending, ClientOffline,
                Timeout, GiveUp
  <2>3. x \in {"opening", "wait"} => vis[v] \in {"upload", "opening"}
    BY <1>2, <2>2, <1>t DEF Arrive, Acquire, Refuse, BodyTooLarge, SendOpen, InsertPending,
                ClientOffline, Timeout, GiveUp, Goto
  <2>4. Listening(v)' => Listening(v) \/ vis[v] = "upload"
    BY <2>2, <2>3, <1>t DEF Listening, Goto
  <2>5. x \in VisStates \ {"done"}
    BY DEF VisStates, Unsent, Failed
  <2> QED
    BY <2>1, <2>2, <2>4, <2>5, <1>1
<1>3. CASE BadFirstEvent(v) \/ VisitorLeaves(v)
  <2>1. PICK x \in {"502", "gone", "dropped"} : Goto(v, x)
    BY <1>3 DEF BadFirstEvent, VisitorLeaves, GiveUp
  <2>2. /\ got' = got /\ \A w \in Visitors \ {v} : events'[w] = events[w]
        /\ events'[v] = <<>> \/ events[v] # <<>>
    BY <1>3, <1>t DEF BadFirstEvent, VisitorLeaves, GiveUp
  <2>3. Counts'
    BY <2>1, <2>2, <1>t, <1>u DEF Counts, Chunks, Goto
  <2>4. ASSUME NEW w \in Visitors, Listening(w)' PROVE ChunksRight(w)'
    <3>1. Listening(w) /\ w # v
      BY <2>1, <2>4, <1>t DEF Goto, Listening
    <3> QED
      BY <3>1, <2>2, <1>u, ChunksRest DEF Chunks
  <2> QED
    BY <2>3, <2>4 DEF Chunks
<1>4. CASE FirstHead(v) \/ BodyChunk(v)
  <2>1. /\ vis[v] \in {"wait", "body"} /\ events[v] # <<>>
        /\ events' = [events EXCEPT ![v] = Tail(@)]
        /\ vis' = [vis EXCEPT ![v] = "body"]
    BY <1>4, <1>t DEF FirstHead, BodyChunk, Goto
  <2>2. \/ Head(events[v]).kind = "head" /\ got' = got
        \/ /\ Head(events[v]).kind = "chunk"
           /\ got' = [got EXCEPT ![v] = Head(events[v]).number]
    BY <1>4 DEF FirstHead, BodyChunk
  <2>3. /\ Head(events[v]) = events[v][1] /\ Len(events[v]) \in Nat \ {0}
        /\ \A w \in Visitors \ {v} : events'[w] = events[w] /\ got'[w] = got[w]
        /\ events'[v] = Tail(events[v])
    BY <2>1, <2>2, <1>t, TailOf
  <2>4. \/ ~IsChunk(events[v][1]) /\ ~IsEnd(events[v][1]) /\ got'[v] = got[v]
        \/ IsChunk(events[v][1]) /\ got'[v] = events[v][1].number
    BY <2>2, <2>3, <1>t DEF IsChunk, IsEnd
  <2>5. ChunksRight(v)
    BY <2>1 DEF Chunks, Listening
  <2>6. ChunksRight(v)'
    BY <2>1, <2>3, <2>4, <2>5, <1>u, ChannelTail
  <2>7. got'[v] <= sent[v]
    BY <2>3, <2>4, <2>5 DEF Chunks, Counts, ChunksRight, ChannelInOrder
  <2>8. Counts'
    <3> SUFFICES ASSUME NEW w \in Visitors
                 PROVE  /\ got'[w] <= sent[w]
                        /\ work[w] \in {"none", "busy"} => events'[w] = <<>>
                        /\ vis'[w] = "done" => work[w] = "over"
      BY <1>u DEF Counts
    <3>1. CASE w = v
      BY <3>1, <2>1, <2>7, <1>t DEF Chunks, Counts
    <3>2. CASE w # v
      BY <3>2, <2>1, <2>3, <1>t DEF Chunks, Counts
    <3> QED
      BY <3>1, <3>2
  <2>9. ASSUME NEW w \in Visitors \ {v}, Listening(w)' PROVE ChunksRight(w)'
    <3>1. Listening(w)
      BY <2>1, <2>9, <1>t DEF Listening
    <3> QED
      BY <3>1, <2>3, <1>u, ChunksRest DEF Chunks
  <2> QED
    BY <2>6, <2>8, <2>9 DEF Chunks
<1>5. CASE BodyEnd(v)
  <2>1. /\ vis[v] = "body" /\ events[v] # <<>> /\ Head(events[v]).kind \in {"end", "abort"}
        /\ events' = [events EXCEPT ![v] = Tail(@)] /\ got' = got
        /\ vis' = [vis EXCEPT ![v] = "done"]
    BY <1>5 DEF BodyEnd, Goto
  <2>2. /\ Head(events[v]) = events[v][1] /\ Len(events[v]) \in Nat \ {0}
        /\ \A w \in Visitors \ {v} : events'[w] = events[w]
    BY <2>1, <1>t, TailOf
  <2>3. work[v] = "over"
    BY <2>1, <2>2 DEF Chunks, Listening, ChunksRight, EndIsLast, IsEnd
  <2>4. Counts'
    BY <2>1, <2>2, <2>3, <1>t, <1>u DEF Chunks, Counts
  <2>5. ASSUME NEW w \in Visitors, Listening(w)' PROVE ChunksRight(w)'
    <3>1. Listening(w) /\ w # v
      BY <2>1, <2>5, <1>t DEF Listening
    <3> QED
      BY <3>1, <2>1, <2>2, <1>u, ChunksRest DEF Chunks
  <2> QED
    BY <2>4, <2>5 DEF Chunks
<1> QED
  BY <1>2, <1>3, <1>4, <1>5 DEF HandlerStep, UploadStep, TaskStep

\* The first frame of c, which is not one of v, is gone, and v's channel is as it was.
LEMMA ChunksOthersTaken ==
  ASSUME Protocol, NEW v \in Visitors, ChunksRight(v), NEW c \in ConnId, TakeFrame(c),
         Frame(c).stream # v, events'[v] = events[v], got'[v] = got[v], sent' = sent, work' = work
  PROVE  ChunksRight(v)'
<1>1. /\ to_server[c][1].stream # v
      /\ Len(to_server[c]) \in Nat \ {0} /\ Len(to_server'[c]) = Len(to_server[c]) - 1
      /\ \A i \in 1 .. Len(to_server'[c]) :
           i + 1 \in 1 .. Len(to_server[c]) /\ to_server'[c][i] = to_server[c][i + 1]
      /\ \A d \in ConnId \ {c} : to_server'[d] = to_server[d]
  BY Taken DEF Protocol
<1>2. ChannelInOrder(v)'
  BY DEF ChunksRight, ChannelInOrder, IsChunk
<1>3. FramesInOrder(v)'
  <2> SUFFICES ASSUME NEW d \in ConnId, NEW i \in 1 .. Len(to_server'[d]),
                      to_server'[d][i].stream = v, IsChunk(to_server[d][i])'
               PROVE  LET n == to_server'[d][i].number IN
                      /\ got[v] < n /\ n <= sent[v]
                      /\ \A j \in 1 .. Len(events[v]) : IsChunk(events[v][j]) => events[v][j].number < n
                      /\ \A j \in 1 .. i - 1 :
                           to_server'[d][j].stream = v /\ IsChunk(to_server[d][j])' =>
                             to_server'[d][j].number < n
    BY DEF FramesInOrder, IsChunk
  <2>1. CASE d # c
    BY <2>1, <1>1 DEF ChunksRight, FramesInOrder, IsChunk
  <2>2. CASE d = c
    <3>1. i + 1 \in 1 .. Len(to_server[c]) /\ to_server'[c][i] = to_server[c][i + 1]
      BY <2>2, <1>1
    <3>2. ASSUME NEW j \in 1 .. i - 1
          PROVE  j + 1 \in 1 .. (i + 1) - 1 /\ to_server'[c][j] = to_server[c][j + 1]
      <4>1. j \in 1 .. Len(to_server'[c])
        BY <2>2, <1>1
      <4> QED
        BY <4>1, <1>1
    <3> QED
      BY SMTT(30), <2>2, <3>1, <3>2 DEF ChunksRight, FramesInOrder, IsChunk
  <2> QED
    BY <2>1, <2>2
<1>4. \A d \in ConnId : \A k \in 1 .. Len(to_server[d]) : to_server[d][k].stream = v =>
        \E i \in 1 .. Len(to_server'[d]) : to_server'[d][i] = to_server[d][k]
  <2> SUFFICES ASSUME NEW d \in ConnId, NEW k \in 1 .. Len(to_server[d]), to_server[d][k].stream = v
               PROVE  \E i \in 1 .. Len(to_server'[d]) : to_server'[d][i] = to_server[d][k]
    OBVIOUS
  <2>1. CASE d # c
    BY <2>1, <1>1
  <2>2. CASE d = c
    <3>1. k - 1 \in 1 .. Len(to_server'[c]) /\ to_server'[c][k - 1] = to_server[c][k]
      BY <2>2, <1>1
    <3> QED
      BY <2>2, <3>1
  <2> QED
    BY <2>1, <2>2
<1>5. \A d \in ConnId : \A i \in 1 .. Len(to_server'[d]) :
        \E k \in 1 .. Len(to_server[d]) : to_server'[d][i] = to_server[d][k]
  <2> SUFFICES ASSUME NEW d \in ConnId, NEW i \in 1 .. Len(to_server'[d])
               PROVE  \E k \in 1 .. Len(to_server[d]) : to_server'[d][i] = to_server[d][k]
    OBVIOUS
  <2> QED
    BY <1>1
<1>6. \A n \in Nat : Coming(v, n) <=> Coming(v, n)'
  <2> SUFFICES ASSUME NEW n \in Nat PROVE Coming(v, n) <=> Coming(v, n)'
    OBVIOUS
  <2>1. Queued(v, n) <=> Queued(v, n)'
    BY DEF Queued, IsChunk
  <2>2. ASSUME OnTheWay(v, n) PROVE OnTheWay(v, n)'
    <3>0. PICK d \in ConnId : \E k \in 1 .. Len(to_server[d]) :
            to_server[d][k].stream = v /\ IsChunk(to_server[d][k]) /\ to_server[d][k].number = n
      BY <2>2 DEF OnTheWay
    <3>1. PICK k \in 1 .. Len(to_server[d]) :
            to_server[d][k].stream = v /\ IsChunk(to_server[d][k]) /\ to_server[d][k].number = n
      BY <3>0
    <3>2. PICK i \in 1 .. Len(to_server'[d]) : to_server'[d][i] = to_server[d][k]
      BY <3>1, <1>4
    <3> QED
      BY <3>1, <3>2 DEF OnTheWay, IsChunk
  <2>3. ASSUME OnTheWay(v, n)' PROVE OnTheWay(v, n)
    <3>0. PICK d \in ConnId : \E i \in 1 .. Len(to_server'[d]) :
            to_server'[d][i].stream = v /\ IsChunk(to_server[d][i])' /\ to_server'[d][i].number = n
      BY <2>3 DEF OnTheWay, IsChunk
    <3>1. PICK i \in 1 .. Len(to_server'[d]) :
            to_server'[d][i].stream = v /\ IsChunk(to_server[d][i])' /\ to_server'[d][i].number = n
      BY <3>0
    <3>2. PICK k \in 1 .. Len(to_server[d]) : to_server'[d][i] = to_server[d][k]
      BY <1>5
    <3> QED
      BY <3>1, <3>2 DEF OnTheWay, IsChunk
  <2> QED
    BY <2>1, <2>2, <2>3 DEF Coming
<1>7. EndOnTheWay(v)' => EndOnTheWay(v)
  BY <1>5 DEF EndOnTheWay, IsEnd
<1>8. NoGap(v)'
  <2> SUFFICES ASSUME NEW n \in Nat, Coming(v, n), n # got[v] + 1 PROVE Coming(v, n - 1)'
    BY <1>6 DEF NoGap
  <2>1. Coming(v, n - 1)
    BY DEF ChunksRight, NoGap
  <2>2. n - 1 \in Nat
    <3>1. \A d \in ConnId : \A i \in 1 .. Len(to_server[d]) : to_server[d][i].number \in Nat
      BY EventTypes DEF Protocol
    <3>2. \A i \in 1 .. Len(events[v]) : events[v][i].number \in Nat
      BY EventTypes DEF Protocol
    <3> QED
      BY <2>1, <3>1, <3>2 DEF Coming, Queued, OnTheWay
  <2> QED
    BY <2>1, <2>2, <1>6
<1>9. Whole(v)'
  <2>1. EndQueued(v)' <=> EndQueued(v)
    BY DEF EndQueued, IsEnd
  <2>2. sent[v] \in Nat
    BY EventTypes DEF Protocol
  <2> QED
    BY <2>1, <2>2, <1>6, <1>7 DEF ChunksRight, Whole
<1>10. EndIsLast(v)'
  <2>1. NoFrames(v) => NoFrames(v)'
    BY <1>5 DEF NoFrames
  <2> QED
    BY <2>1 DEF ChunksRight, EndIsLast, IsEnd
<1> QED
  BY <1>2, <1>3, <1>8, <1>9, <1>10 DEF ChunksRight

\* route_event: the first frame of c goes to the end of its stream's channel.
LEMMA ChunksRouted ==
  ASSUME Protocol, NEW v \in Visitors, ChunksRight(v), NEW c \in ConnId, TakeFrame(c),
         Frame(c).stream = v, events'[v] = Append(events[v], Frame(c)),
         got'[v] = got[v], sent' = sent, work' = work
  PROVE  ChunksRight(v)'
<1>0. PICK f \in FrameSet : f = Frame(c)
  BY Taken DEF Protocol
<1>a. PICK m \in Nat : m = Len(events[v])
  BY EventTypes DEF Protocol
<1>1. /\ to_server[c][1] = f /\ f.stream = v
      /\ Len(to_server[c]) \in Nat \ {0} /\ Len(to_server'[c]) = Len(to_server[c]) - 1
      /\ \A i \in 1 .. Len(to_server'[c]) :
           i + 1 \in 1 .. Len(to_server[c]) /\ to_server'[c][i] = to_server[c][i + 1]
      /\ \A d \in ConnId \ {c} : to_server'[d] = to_server[d]
  BY <1>0, Taken DEF Protocol
<1>2. /\ Len(events'[v]) = m + 1 /\ events'[v][m + 1] = f
      /\ \A i \in 1 .. m : events'[v][i] = events[v][i]
  BY <1>0, <1>a, EventTypes, Appended DEF Protocol
<1>b. \A i \in 1 .. m + 1 : i \in 1 .. m \/ i = m + 1
  OBVIOUS
<1>3. 1 \in 1 .. Len(to_server[c]) /\ FrameRight(c, 1)
  BY <1>1 DEF Protocol, FramesRight
<1>4. IsChunk(f) =>
        /\ got[v] < f.number /\ f.number <= sent[v]
        /\ \A j \in 1 .. m : IsChunk(events[v][j]) => events[v][j].number < f.number
  BY <1>1, <1>3, <1>a DEF ChunksRight, FramesInOrder
<1>5. \A d \in ConnId \ {c} : \A i \in 1 .. Len(to_server[d]) : to_server[d][i].stream # v
  <2> SUFFICES ASSUME NEW d \in ConnId \ {c}, NEW i \in 1 .. Len(to_server[d])
               PROVE  to_server[d][i].stream # v
    OBVIOUS
  <2>1. FrameRight(d, i)
    BY DEF Protocol, FramesRight
  <2> QED
    BY <1>1, <1>3, <2>1 DEF FrameRight
<1>e. \A d \in ConnId : \A i \in 1 .. Len(to_server'[d]) :
        \E k \in 1 .. Len(to_server[d]) : to_server'[d][i] = to_server[d][k]
  <2> SUFFICES ASSUME NEW d \in ConnId, NEW i \in 1 .. Len(to_server'[d])
               PROVE  \E k \in 1 .. Len(to_server[d]) : to_server'[d][i] = to_server[d][k]
    OBVIOUS
  <2> QED
    BY SMTT(30), <1>1
<1>6. ChannelInOrder(v)'
  <2> SUFFICES ASSUME NEW i \in 1 .. m + 1, IsChunk(events[v][i])'
               PROVE  /\ got[v] < events'[v][i].number /\ events'[v][i].number <= sent[v]
                      /\ \A j \in 1 .. i - 1 :
                           IsChunk(events[v][j])' => events'[v][j].number < events'[v][i].number
    BY <1>2 DEF ChannelInOrder, IsChunk
  <2>1. CASE i \in 1 .. m
    <3>1. /\ events'[v][i] = events[v][i]
          /\ \A j \in 1 .. i - 1 : events'[v][j] = events[v][j]
      BY <2>1, <1>2
    <3> QED
      BY <2>1, <3>1, <1>a DEF ChunksRight, ChannelInOrder, IsChunk
  <2>2. CASE i = m + 1
    <3>1. \A j \in 1 .. i - 1 : j \in 1 .. m /\ events'[v][j] = events[v][j]
      BY <2>2, <1>2
    <3> QED
      BY <2>2, <3>1, <1>2, <1>4 DEF IsChunk
  <2> QED
    BY <2>1, <2>2, <1>b
<1>7. FramesInOrder(v)'
  <2> SUFFICES ASSUME NEW i \in 1 .. Len(to_server'[c]),
                      to_server'[c][i].stream = v, IsChunk(to_server[c][i])'
               PROVE  LET n == to_server'[c][i].number IN
                      /\ got[v] < n /\ n <= sent[v]
                      /\ \A j \in 1 .. m + 1 : IsChunk(events[v][j])' => events'[v][j].number < n
                      /\ \A j \in 1 .. i - 1 :
                           to_server'[c][j].stream = v /\ IsChunk(to_server[c][j])' =>
                             to_server'[c][j].number < n
    <3>1. ASSUME NEW d \in ConnId, NEW i \in 1 .. Len(to_server'[d]), to_server'[d][i].stream = v
          PROVE  d = c
      BY <3>1, <1>1, <1>5
    <3> QED
      BY <3>1, <1>2 DEF FramesInOrder, IsChunk
  <2>1. /\ i + 1 \in 1 .. Len(to_server[c]) /\ to_server'[c][i] = to_server[c][i + 1]
        /\ 1 \in 1 .. (i + 1) - 1
    BY <1>1
  <2>a. ASSUME NEW j \in 1 .. i - 1
        PROVE  j + 1 \in 1 .. (i + 1) - 1 /\ to_server'[c][j] = to_server[c][j + 1]
    <3>1. j \in 1 .. Len(to_server'[c])
      BY <1>1
    <3> QED
      BY <3>1, <1>1
  <2>2. LET n == to_server[c][i + 1].number IN
        /\ got[v] < n /\ n <= sent[v]
        /\ \A j \in 1 .. m : IsChunk(events[v][j]) => events[v][j].number < n
        /\ \A j \in 1 .. (i + 1) - 1 :
             to_server[c][j].stream = v /\ IsChunk(to_server[c][j]) => to_server[c][j].number < n
    BY <2>1, <1>a DEF ChunksRight, FramesInOrder, IsChunk
  <2>3. IsChunk(f) => f.number < to_server[c][i + 1].number
    BY <2>1, <2>2, <1>1
  <2>4. \A j \in 1 .. m + 1 : IsChunk(events[v][j])' => events'[v][j].number < to_server[c][i + 1].number
    BY <2>2, <2>3, <1>2, <1>b DEF IsChunk
  <2> QED
    BY <2>1, <2>a, <2>2, <2>4 DEF IsChunk
<1>8. \A n \in Nat : Coming(v, n) <=> Coming(v, n)'
  <2> SUFFICES ASSUME NEW n \in Nat PROVE Coming(v, n) <=> Coming(v, n)'
    OBVIOUS
  <2>1. Queued(v, n)' <=> Queued(v, n) \/ (IsChunk(f) /\ f.number = n)
    <3>1. ASSUME Queued(v, n)' PROVE Queued(v, n) \/ (IsChunk(f) /\ f.number = n)
      <4>1. PICK i \in 1 .. m + 1 : IsChunk(events[v][i])' /\ events'[v][i].number = n
        BY <3>1, <1>2 DEF Queued, IsChunk
      <4> QED
        BY <4>1, <1>2, <1>a, <1>b DEF Queued, IsChunk
    <3>2. ASSUME Queued(v, n) PROVE Queued(v, n)'
      <4>1. PICK i \in 1 .. m : IsChunk(events[v][i]) /\ events[v][i].number = n
        BY <3>2, <1>a DEF Queued
      <4>2. i \in 1 .. Len(events'[v]) /\ events'[v][i] = events[v][i]
        BY <4>1, <1>2
      <4> QED
        BY <4>1, <4>2 DEF Queued, IsChunk
    <3>3. ASSUME IsChunk(f), f.number = n PROVE Queued(v, n)'
      <4>1. m + 1 \in 1 .. Len(events'[v])
        BY <1>2
      <4> QED
        BY <3>3, <4>1, <1>2 DEF Queued, IsChunk
    <3> QED
      BY <3>1, <3>2, <3>3
  <2>2. OnTheWay(v, n) <=> OnTheWay(v, n)' \/ (IsChunk(f) /\ f.number = n)
    <3>1. ASSUME OnTheWay(v, n) PROVE OnTheWay(v, n)' \/ (IsChunk(f) /\ f.number = n)
      <4>1. PICK k \in 1 .. Len(to_server[c]) : /\ to_server[c][k].stream = v
                      /\ IsChunk(to_server[c][k]) /\ to_server[c][k].number = n
        BY <3>1, <1>5 DEF OnTheWay
      <4>2. CASE k = 1
        BY <4>1, <4>2, <1>1
      <4>3. CASE k # 1
        <5>1. k - 1 \in 1 .. Len(to_server'[c]) /\ to_server'[c][k - 1] = to_server[c][k]
          BY <4>3, <1>1
        <5> QED
          BY <4>1, <5>1 DEF OnTheWay, IsChunk
      <4> QED
        BY <4>2, <4>3
    <3>2. ASSUME OnTheWay(v, n)' PROVE OnTheWay(v, n)
      <4>0. PICK d \in ConnId : \E i \in 1 .. Len(to_server'[d]) :
              to_server'[d][i].stream = v /\ IsChunk(to_server[d][i])' /\ to_server'[d][i].number = n
        BY <3>2 DEF OnTheWay, IsChunk
      <4>1. PICK i \in 1 .. Len(to_server'[d]) :
              to_server'[d][i].stream = v /\ IsChunk(to_server[d][i])' /\ to_server'[d][i].number = n
        BY <4>0
      <4>2. PICK k \in 1 .. Len(to_server[d]) : to_server'[d][i] = to_server[d][k]
        BY <1>e
      <4> QED
        BY <4>1, <4>2 DEF OnTheWay, IsChunk
    <3>3. ASSUME IsChunk(f), f.number = n PROVE OnTheWay(v, n)
      BY <3>3, <1>1, <1>3 DEF OnTheWay
    <3> QED
      BY <3>1, <3>2, <3>3
  <2> QED
    BY <2>1, <2>2 DEF Coming
<1>9. EndQueued(v)' \/ EndOnTheWay(v)' => EndQueued(v) \/ EndOnTheWay(v)
  <2>1. ASSUME EndQueued(v)' PROVE EndQueued(v) \/ EndOnTheWay(v)
    <3>1. PICK i \in 1 .. m + 1 : IsEnd(events[v][i])'
      BY <2>1, <1>2 DEF EndQueued, IsEnd
    <3>2. CASE i \in 1 .. m
      BY <3>1, <3>2, <1>2, <1>a DEF EndQueued, IsEnd
    <3>3. CASE i = m + 1
      BY <3>1, <3>3, <1>1, <1>2, <1>3 DEF EndOnTheWay, IsEnd
    <3> QED
      BY <3>2, <3>3, <1>b
  <2>2. EndOnTheWay(v)' => EndOnTheWay(v)
    BY <1>e DEF EndOnTheWay, IsEnd
  <2> QED
    BY <2>1, <2>2
<1>10. NoGap(v)'
  <2> SUFFICES ASSUME NEW n \in Nat, Coming(v, n), n # got[v] + 1 PROVE Coming(v, n - 1)'
    BY <1>8 DEF NoGap
  <2>1. Coming(v, n - 1)
    BY DEF ChunksRight, NoGap
  <2>2. n - 1 \in Nat
    <3>1. \A d \in ConnId : \A i \in 1 .. Len(to_server[d]) : to_server[d][i].number \in Nat
      BY EventTypes DEF Protocol
    <3>2. \A i \in 1 .. Len(events[v]) : events[v][i].number \in Nat
      BY EventTypes DEF Protocol
    <3> QED
      BY <2>1, <3>1, <3>2 DEF Coming, Queued, OnTheWay
  <2> QED
    BY <2>1, <2>2, <1>8
<1>11. Whole(v)'
  <2>1. sent[v] \in Nat
    BY EventTypes DEF Protocol
  <2> QED
    BY <2>1, <1>8, <1>9 DEF ChunksRight, Whole
<1>12. EndIsLast(v)'
  <2> SUFFICES ASSUME NEW i \in 1 .. m + 1, IsEnd(events[v][i])'
               PROVE  i = m + 1 /\ NoFrames(v)' /\ work[v] = "over"
    BY <1>2 DEF EndIsLast, IsEnd
  <2>1. CASE i \in 1 .. m
    <3>1. NoFrames(v)
      BY <2>1, <1>2, <1>a DEF ChunksRight, EndIsLast, IsEnd
    <3> QED
      BY <3>1, <1>1, <1>3 DEF NoFrames
  <2>2. CASE i = m + 1
    <3>1. IsEnd(f)
      BY <2>2, <1>2 DEF IsEnd
    <3>2. /\ work[v] = "over"
          /\ \A j \in 2 .. Len(to_server[c]) : to_server[c][j].stream # v
      BY <3>1, <1>1, <1>3 DEF FrameRight
    <3>3. \A j \in 1 .. Len(to_server'[c]) : j + 1 \in 2 .. Len(to_server[c])
      BY <1>1
    <3>4. ASSUME NEW d \in ConnId, NEW j \in 1 .. Len(to_server'[d]) PROVE to_server'[d][j].stream # v
      <4>1. CASE d = c
        BY <4>1, <3>2, <3>3, <1>1
      <4>2. CASE d # c
        BY <4>2, <1>1, <1>5
      <4> QED
        BY <4>1, <4>2
    <3> QED
      BY <2>2, <3>2, <3>4 DEF NoFrames
  <2> QED
    BY <2>1, <2>2, <1>b
<1> QED
  BY <1>6, <1>7, <1>10, <1>11, <1>12 DEF ChunksRight

LEMMA ServerChunks ==
  ASSUME Protocol, Chunks, NEW c \in ConnId, ServerRecv(c) PROVE Chunks'
<1>1. TakeFrame(c) /\ UNCHANGED <<vis, got, work, sent>> /\ RouteEvent(Frame(c).stream, Frame(c))
  BY DEF ServerRecv, RecvHeadOrChunk, RecvEndOrAbort, TakeFrame, visVars
<1>2. PICK s \in Visitors, f \in FrameSet : s = Frame(c).stream /\ f = Frame(c)
  BY <1>1, Taken DEF Protocol
<1>3. ~NoFrames(s)
  BY <1>1, <1>2, Taken DEF Protocol, NoFrames
<1>4. /\ \A w \in Visitors \ {s} : events'[w] = events[w]
      /\ s \in pending /\ Listening(s) => events'[s] = Append(events[s], f)
      /\ ~(s \in pending /\ Listening(s)) => events'[s] = events[s]
  BY <1>1, <1>2 DEF RouteEvent, Protocol, TypeOK
<1>5. Counts'
  <2>1. work[s] \notin {"none", "busy"}
    BY <1>3 DEF Protocol, WorkRight
  <2> QED
    BY <1>1, <1>4, <2>1 DEF Chunks, Counts
<1>6. ASSUME NEW w \in Visitors, Listening(w)' PROVE ChunksRight(w)'
  <2>1. Listening(w) /\ ChunksRight(w)
    BY <1>1, <1>6 DEF Chunks, Listening
  <2>2. CASE w # s
    BY <1>1, <1>2, <1>4, <2>1, <2>2, ChunksOthersTaken
  <2>3. CASE w = s
    <3>1. s \in pending
      BY <1>3, <2>1, <2>3 DEF Protocol, Ended
    <3> QED
      BY <1>1, <1>2, <1>4, <2>1, <2>3, <3>1, ChunksRouted
  <2> QED
    BY <2>2, <2>3
<1> QED
  BY <1>5, <1>6 DEF Chunks

\* A close loses the frames of the streams of its connection, from some chunk on,
\* and with their End, if it was there.
LEMMA ChunksDropped ==
  ASSUME Protocol, NEW v \in Visitors, ChunksRight(v), NEW c \in ConnId, ServerCloses(c)
  PROVE  ChunksRight(v)'
<1>1. /\ UNCHANGED <<events, got, work, sent>> /\ link[c] = "down"
      /\ Len(to_server'[c]) = 0 /\ \A d \in ConnId \ {c} : to_server'[d] = to_server[d]
  BY DEF ServerCloses, visVars, Protocol, TypeOK
<1>2. ASSUME NEW d \in ConnId, NEW i \in 1 .. Len(to_server[d]), to_server[d][i].stream = v
      PROVE  target[v] = d
  <2>1. FrameRight(d, i)
    BY DEF Protocol, FramesRight
  <2> QED
    BY <1>2, <2>1 DEF FrameRight
<1>3. CASE target[v] # c
  <2>1. \A n \in Nat : OnTheWay(v, n)' <=> OnTheWay(v, n)
    BY <1>1, <1>2, <1>3 DEF OnTheWay, IsChunk
  <2>2. EndOnTheWay(v)' <=> EndOnTheWay(v)
    BY <1>1, <1>2, <1>3 DEF EndOnTheWay, IsEnd
  <2>3. NoFrames(v) => NoFrames(v)'
    BY <1>1 DEF NoFrames
  <2>4. ChannelInOrder(v)' /\ EndIsLast(v)'
    BY <1>1, <2>3 DEF ChunksRight, ChannelInOrder, EndIsLast, IsChunk, IsEnd
  <2>5. FramesInOrder(v)'
    BY <1>1 DEF ChunksRight, FramesInOrder, IsChunk
  <2>6. \A n \in Nat : Coming(v, n)' <=> Coming(v, n)
    BY <1>1, <2>1 DEF Coming, Queued, IsChunk
  <2>7. NoGap(v)'
    <3> SUFFICES ASSUME NEW n \in Nat, Coming(v, n), n # got[v] + 1 PROVE Coming(v, n - 1)'
      BY <1>1, <2>6 DEF NoGap
    <3>1. Coming(v, n - 1)
      BY DEF ChunksRight, NoGap
    <3>2. n - 1 \in Nat
      <4>1. \A d \in ConnId : \A i \in 1 .. Len(to_server[d]) : to_server[d][i].number \in Nat
        BY EventTypes DEF Protocol
      <4>2. \A i \in 1 .. Len(events[v]) : events[v][i].number \in Nat
        BY EventTypes DEF Protocol
      <4> QED
        BY <3>1, <4>1, <4>2 DEF Coming, Queued, OnTheWay
    <3> QED
      BY <3>1, <3>2, <2>6
  <2>8. Whole(v)'
    <3>1. sent[v] \in Nat /\ (EndQueued(v)' <=> EndQueued(v))
      BY <1>1, EventTypes DEF Protocol, EndQueued, IsEnd
    <3> QED
      BY <1>1, <2>2, <2>6, <3>1 DEF ChunksRight, Whole
  <2> QED
    BY <2>4, <2>5, <2>7, <2>8 DEF ChunksRight
<1>4. CASE target[v] = c
  <2>1. NoFrames(v)'
    BY <1>1, <1>2, <1>4 DEF NoFrames
  <2>2. ChannelInOrder(v)' /\ EndIsLast(v)' /\ FramesInOrder(v)'
    BY <1>1, <2>1 DEF ChunksRight, ChannelInOrder, EndIsLast, FramesInOrder, NoFrames, IsChunk, IsEnd
  <2>3. \A n \in Nat : (Coming(v, n)' <=> Queued(v, n)) /\ (Queued(v, n)' <=> Queued(v, n))
    BY <1>1, <2>1 DEF Coming, OnTheWay, Queued, NoFrames, IsChunk
  <2>4. NoGap(v)'
    <3> SUFFICES ASSUME NEW n \in Nat, Queued(v, n), n # got[v] + 1 PROVE Queued(v, n - 1)'
      BY <1>1, <2>3 DEF NoGap, Coming
    <3>1. Coming(v, n - 1)
      BY DEF ChunksRight, NoGap, Coming
    <3>2. PICK i \in 1 .. Len(events[v]) : IsChunk(events[v][i]) /\ events[v][i].number = n
      BY DEF Queued
    <3>3. ~OnTheWay(v, n - 1)
      <4> SUFFICES ASSUME NEW d \in ConnId, NEW k \in 1 .. Len(to_server[d]),
                          to_server[d][k].stream = v, IsChunk(to_server[d][k]),
                          to_server[d][k].number = n - 1
                   PROVE  FALSE
        BY DEF OnTheWay
      <4>1. n < to_server[d][k].number
        BY <3>2 DEF ChunksRight, FramesInOrder
      <4> QED
        BY <4>1
    <3>4. Queued(v, n - 1)
      BY <3>1, <3>3 DEF Coming
    <3> QED
      BY <3>4, <1>1 DEF Queued, IsChunk
  <2>5. Whole(v)'
    <3> SUFFICES ASSUME work[v] = "head" \/ EndQueued(v)' \/ EndOnTheWay(v)'
                 PROVE  sent[v] = got[v] \/ Coming(v, sent[v])'
      BY <1>1 DEF Whole
    <3>1. work[v] # "head" /\ ~EndOnTheWay(v)'
      BY <1>1, <1>4, <2>1 DEF Protocol, WorkRight, EndOnTheWay, NoFrames
    <3>2. EndQueued(v)
      BY <3>1, <1>1 DEF EndQueued, IsEnd
    <3>3. NoFrames(v) /\ sent[v] \in Nat
      BY <3>2, EventTypes DEF ChunksRight, EndIsLast, EndQueued, Protocol
    <3>4. sent[v] = got[v] \/ Coming(v, sent[v])
      BY <3>2 DEF ChunksRight, Whole
    <3>5. ~OnTheWay(v, sent[v])
      BY <3>3 DEF OnTheWay, NoFrames
    <3>6. sent[v] = got[v] \/ Queued(v, sent[v])
      BY <3>4, <3>5 DEF Coming
    <3> QED
      BY <1>1, <2>3, <3>3, <3>6
  <2> QED
    BY <2>2, <2>4, <2>5 DEF ChunksRight
<1> QED
  BY <1>3, <1>4

LEMMA LinkChunks ==
  ASSUME Protocol, Chunks, NEW c \in ConnId,
         Connect(c) \/ LinkLost(c) \/ ServerCloses(c) \/ ClientTakes(c)
  PROVE  Chunks'
<1>1. UNCHANGED <<vis, events, got, sent>>
  BY DEF Connect, LinkLost, ServerCloses, ClientTakes, visVars, regVars
<1>2. ASSUME NEW v \in Visitors
      PROVE  \/ work'[v] = work[v]
             \/ work[v] = "none" /\ work'[v] = "busy"
             \/ work[v] \in {"busy", "head"} /\ work'[v] = "dead"
  <2>1. CASE Connect(c) \/ ServerCloses(c)
    BY <2>1 DEF Connect, ServerCloses
  <2>2. CASE LinkLost(c)
    BY <2>2 DEF LinkLost
  <2>3. CASE ClientTakes(c)
    <3>1. to_client[c] \in Seq(Visitors) /\ to_client[c] # <<>>
      BY <2>3 DEF ClientTakes, Protocol, TypeOK
    <3>2. Len(to_client[c]) \in Nat \ {0} /\ Head(to_client[c]) = to_client[c][1]
      BY <3>1, TailOf
    <3>3. work[Head(to_client[c])] = "none"
      BY <3>2 DEF Protocol, OpensOnce
    <3> QED
      BY <2>3, <3>3 DEF ClientTakes, Protocol, TypeOK
  <2> QED
    BY <2>1, <2>2, <2>3
<1>3. Counts'
  BY <1>1, <1>2 DEF Chunks, Counts
<1>4. ASSUME NEW v \in Visitors, Listening(v)' PROVE ChunksRight(v)'
  <2>1. ChunksRight(v)
    BY <1>1, <1>4 DEF Chunks, Listening
  <2>2. CASE ServerCloses(c)
    BY <2>1, <2>2, ChunksDropped
  <2>3. CASE ~ServerCloses(c)
    <3>1. to_server' = to_server
      BY <2>3 DEF Connect, LinkLost, ClientTakes
    <3>2. (work'[v] = "head" => work[v] = "head") /\ (work[v] = "over" => work'[v] = "over")
      BY <1>2
    <3> QED
      BY <1>1, <2>1, <3>1, <3>2, ChunksRest
  <2> QED
    BY <2>2, <2>3
<1> QED
  BY <1>3, <1>4 DEF Chunks

\* The client appends a frame of v to the queue of v's connection: what that does
\* to the frames on the way.
LEMMA ClientAppends ==
  ASSUME Protocol, NEW v \in Visitors, NEW kind \in {"head", "chunk", "end", "abort"}, NEW k \in Nat,
         Up(v), SendFrame(v, kind, k)
  PROVE  /\ \A w \in Visitors, n \in Nat :
              OnTheWay(w, n)' <=> OnTheWay(w, n) \/ (w = v /\ kind = "chunk" /\ n = k)
         /\ \A w \in Visitors :
              EndOnTheWay(w)' <=> EndOnTheWay(w) \/ (w = v /\ kind \in {"end", "abort"})
         /\ \A w \in Visitors \ {v} : NoFrames(w) => NoFrames(w)'
         /\ \A d \in ConnId : \A i \in 1 .. Len(to_server'[d]) :
              \/ i \in 1 .. Len(to_server[d]) /\ to_server'[d][i] = to_server[d][i]
              \/ /\ d = target[v] /\ i = Len(to_server[d]) + 1
                 /\ to_server'[d][i] = [stream |-> v, kind |-> kind, number |-> k]
<1> DEFINE g == [stream |-> v, kind |-> kind, number |-> k]
<1>0. PICK c \in ConnId, f \in FrameSet : c = target[v] /\ f = g
  BY Sends DEF Protocol
<1>1. f.stream = v /\ f.kind = kind /\ f.number = k
  BY <1>0
<1>2. /\ \A d \in ConnId \ {c} : to_server'[d] = to_server[d]
      /\ Len(to_server'[c]) = Len(to_server[c]) + 1 /\ Len(to_server[c]) \in Nat
      /\ \A i \in 1 .. Len(to_server[c]) : to_server'[c][i] = to_server[c][i]
      /\ to_server'[c][Len(to_server[c]) + 1] = f
  <2>1. TypeOK /\ Len(to_server[c]) \in Nat
    BY QueueTypes DEF Protocol
  <2>2. /\ \A d \in ConnId \ {target[v]} : to_server'[d] = to_server[d]
        /\ Len(to_server'[target[v]]) = Len(to_server[target[v]]) + 1
        /\ \A i \in 1 .. Len(to_server[target[v]]) : to_server'[target[v]][i] = to_server[target[v]][i]
        /\ to_server'[target[v]][Len(to_server[target[v]]) + 1] = g
    BY <2>1, Sends
  <2> HIDE DEF g
  <2> QED
    BY <1>0, <2>1, <2>2
<1> HIDE DEF g
<1>3. ASSUME NEW d \in ConnId, NEW i \in 1 .. Len(to_server'[d])
      PROVE  \/ i \in 1 .. Len(to_server[d]) /\ to_server'[d][i] = to_server[d][i]
             \/ d = c /\ i = Len(to_server[d]) + 1 /\ to_server'[d][i] = f
  BY <1>2
<1>4. ASSUME NEW d \in ConnId, NEW i \in 1 .. Len(to_server[d])
      PROVE  i \in 1 .. Len(to_server'[d]) /\ to_server'[d][i] = to_server[d][i]
  BY <1>2
<1>5. Len(to_server[c]) + 1 \in 1 .. Len(to_server'[c])
  BY <1>2
<1>6. ASSUME NEW w \in Visitors, NEW n \in Nat
      PROVE  OnTheWay(w, n)' <=> OnTheWay(w, n) \/ (w = v /\ kind = "chunk" /\ n = k)
  <2>1. ASSUME OnTheWay(w, n)' PROVE OnTheWay(w, n) \/ (w = v /\ kind = "chunk" /\ n = k)
    <3>1. PICK d \in ConnId : \E i \in 1 .. Len(to_server'[d]) :
            to_server'[d][i].stream = w /\ IsChunk(to_server[d][i])' /\ to_server'[d][i].number = n
      BY <2>1 DEF OnTheWay, IsChunk
    <3>2. PICK i \in 1 .. Len(to_server'[d]) :
            to_server'[d][i].stream = w /\ IsChunk(to_server[d][i])' /\ to_server'[d][i].number = n
      BY <3>1
    <3> QED
      BY <1>1, <1>3, <3>2 DEF OnTheWay, IsChunk
  <2>2. ASSUME OnTheWay(w, n) PROVE OnTheWay(w, n)'
    BY <2>2, <1>4 DEF OnTheWay, IsChunk
  <2>3. ASSUME w = v, kind = "chunk", n = k PROVE OnTheWay(w, n)'
    BY <2>3, <1>1, <1>2, <1>5 DEF OnTheWay, IsChunk
  <2> QED
    BY <2>1, <2>2, <2>3
<1>7. ASSUME NEW w \in Visitors
      PROVE  EndOnTheWay(w)' <=> EndOnTheWay(w) \/ (w = v /\ kind \in {"end", "abort"})
  <2>1. ASSUME EndOnTheWay(w)' PROVE EndOnTheWay(w) \/ (w = v /\ kind \in {"end", "abort"})
    <3>1. PICK d \in ConnId : \E i \in 1 .. Len(to_server'[d]) :
            to_server'[d][i].stream = w /\ IsEnd(to_server[d][i])'
      BY <2>1 DEF EndOnTheWay, IsEnd
    <3>2. PICK i \in 1 .. Len(to_server'[d]) :
            to_server'[d][i].stream = w /\ IsEnd(to_server[d][i])'
      BY <3>1
    <3> QED
      BY <1>1, <1>3, <3>2 DEF EndOnTheWay, IsEnd
  <2>2. ASSUME EndOnTheWay(w) PROVE EndOnTheWay(w)'
    BY <2>2, <1>4 DEF EndOnTheWay, IsEnd
  <2>3. ASSUME w = v, kind \in {"end", "abort"} PROVE EndOnTheWay(w)'
    BY <2>3, <1>1, <1>2, <1>5 DEF EndOnTheWay, IsEnd
  <2> QED
    BY <2>1, <2>2, <2>3
<1>8. ASSUME NEW w \in Visitors \ {v}, NoFrames(w) PROVE NoFrames(w)'
  BY <1>1, <1>3, <1>8 DEF NoFrames
<1> QED
  BY <1>0, <1>3, <1>6, <1>7, <1>8 DEF g

LEMMA ClientChunks ==
  ASSUME Protocol, Chunks, NEW v \in Visitors, ClientStep(v) PROVE Chunks'
<1>1. PICK kind \in {"head", "chunk", "end", "abort"}, k \in Nat :
        /\ Up(v) /\ SendFrame(v, kind, k)
        /\ work[v] = IF kind \in {"head", "abort"} THEN "busy" ELSE "head"
        /\ work' = [work EXCEPT ![v] = IF kind \in {"end", "abort"} THEN "over" ELSE "head"]
        /\ IF kind = "chunk" THEN k = sent[v] + 1 /\ sent' = [sent EXCEPT ![v] = k]
                             ELSE sent' = sent
        /\ UNCHANGED <<vis, events, got>>
  BY ClientSends DEF visVars, regVars
<1>t. TypeOK
  BY DEF Protocol
<1>2. /\ \A w \in Visitors, n \in Nat :
           OnTheWay(w, n)' <=> OnTheWay(w, n) \/ (w = v /\ kind = "chunk" /\ n = k)
      /\ \A w \in Visitors :
           EndOnTheWay(w)' <=> EndOnTheWay(w) \/ (w = v /\ kind \in {"end", "abort"})
      /\ \A w \in Visitors \ {v} : NoFrames(w) => NoFrames(w)'
  <2>1. Up(v) /\ SendFrame(v, kind, k)
    BY <1>1
  <2> QED
    BY ZenonT(60), <2>1, ClientAppends
<1>a. PICK c \in ConnId, f \in FrameSet : c = target[v] /\ f.stream = v /\ f.kind = kind /\ f.number = k
                                   /\ f = [stream |-> v, kind |-> kind, number |-> k]
  BY <1>1, <1>t, Sends
<1>3. \A d \in ConnId : \A i \in 1 .. Len(to_server'[d]) :
        \/ i \in 1 .. Len(to_server[d]) /\ to_server'[d][i] = to_server[d][i]
        \/ d = c /\ i = Len(to_server[d]) + 1 /\ to_server'[d][i] = f
  BY <1>1, <1>a, ClientAppends
<1>4. \A w \in Visitors, n \in Nat :
        /\ Queued(w, n)' <=> Queued(w, n)
        /\ Coming(w, n)' <=> Coming(w, n) \/ (w = v /\ kind = "chunk" /\ n = k)
  BY <1>1, <1>2 DEF Coming, Queued, IsChunk
<1>5. \A w \in Visitors : EndQueued(w)' <=> EndQueued(w)
  BY <1>1 DEF EndQueued, IsEnd
<1>6. sent[v] \in Nat /\ got[v] \in Nat /\ got[v] <= sent[v]
  BY <1>t DEF TypeOK, Chunks, Counts
<1>7. \A w \in Visitors : sent'[w] = IF w = v /\ kind = "chunk" THEN sent[w] + 1 ELSE sent[w]
  BY <1>1, <1>t DEF TypeOK
<1>8. \A w \in Visitors \ {v} : work'[w] = work[w]
  BY <1>1
<1>9. work'[v] = IF kind \in {"end", "abort"} THEN "over" ELSE "head"
  BY <1>1, <1>t DEF TypeOK
<1>10. Counts'
  <2> SUFFICES ASSUME NEW w \in Visitors
               PROVE  /\ got[w] <= sent'[w]
                      /\ work'[w] \in {"none", "busy"} => events[w] = <<>>
                      /\ vis[w] = "done" => work'[w] = "over"
    BY <1>1 DEF Counts
  <2>1. CASE w = v
    BY <2>1, <1>1, <1>6, <1>7, <1>9 DEF Chunks, Counts
  <2>2. CASE w # v
    BY <2>2, <1>7, <1>8 DEF Chunks, Counts
  <2> QED
    BY <2>1, <2>2
\* a chunk coming has a positive predecessor, whatever its stream
<1>n. ASSUME NEW w \in Visitors, NEW n \in Nat, Coming(w, n), ChunksRight(w), n # got[w] + 1
      PROVE  n - 1 \in Nat /\ Coming(w, n - 1)
  <2>1. Coming(w, n - 1)
    BY <1>n DEF ChunksRight, NoGap
  <2>2. /\ \A d \in ConnId : \A i \in 1 .. Len(to_server[d]) : to_server[d][i].number \in Nat
        /\ \A i \in 1 .. Len(events[w]) : events[w][i].number \in Nat
    BY <1>t, EventTypes
  <2> QED
    BY <2>1, <2>2 DEF Coming, Queued, OnTheWay
<1>11. ASSUME NEW w \in Visitors \ {v}, ChunksRight(w) PROVE ChunksRight(w)'
  <2>0. \A d \in ConnId : \A i \in 1 .. Len(to_server'[d]) : to_server'[d][i].stream = w =>
          i \in 1 .. Len(to_server[d]) /\ to_server'[d][i] = to_server[d][i]
    BY <1>3, <1>a, <1>11
  <2>1. ChannelInOrder(w)' /\ EndIsLast(w)'
    BY <1>1, <1>2, <1>7, <1>8, <1>11 DEF ChunksRight, ChannelInOrder, EndIsLast, IsChunk, IsEnd
  <2>2. FramesInOrder(w)'
    <3> SUFFICES ASSUME NEW d \in ConnId, NEW i \in 1 .. Len(to_server'[d]),
                        to_server'[d][i].stream = w, IsChunk(to_server[d][i])'
                 PROVE  LET n == to_server'[d][i].number IN
                        /\ got[w] < n /\ n <= sent[w]
                        /\ \A j \in 1 .. Len(events[w]) :
                             IsChunk(events[w][j]) => events[w][j].number < n
                        /\ \A j \in 1 .. i - 1 : to_server'[d][j].stream = w /\ IsChunk(to_server[d][j])' =>
                             to_server'[d][j].number < n
      BY <1>1, <1>7 DEF FramesInOrder, IsChunk
    <3>1. i \in 1 .. Len(to_server[d]) /\ to_server'[d][i] = to_server[d][i]
      BY <2>0
    <3>2. ASSUME NEW j \in 1 .. i - 1 PROVE to_server'[d][j] = to_server[d][j]
      <4>1. Len(to_server[d]) \in Nat
        BY <1>t, QueueTypes
      <4>2. j # Len(to_server[d]) + 1
        BY <4>1, <3>1
      <4>3. \A i0 \in 1 .. Len(to_server'[d]) : i0 # Len(to_server[d]) + 1 =>
              to_server'[d][i0] = to_server[d][i0]
        BY <1>3
      <4>4. j \in 1 .. Len(to_server'[d])
        <5>1. Len(to_server'[d]) \in Nat
          BY <1>1, <1>t, ClientType, QueueTypes
        <5> QED
          BY <5>1
      <4> QED
        BY <4>2, <4>3, <4>4
    <3> QED
      BY <3>1, <3>2, <1>11 DEF ChunksRight, FramesInOrder, IsChunk
  <2>3. NoGap(w)'
    BY <1>1, <1>4, <1>n, <1>11 DEF NoGap
  <2>4. Whole(w)'
    <3>1. sent[w] \in Nat
      BY <1>t DEF TypeOK
    <3> QED
      BY <1>1, <1>2, <1>4, <1>5, <1>7, <1>8, <1>11, <3>1 DEF ChunksRight, Whole
  <2> QED
    BY <2>1, <2>2, <2>3, <2>4 DEF ChunksRight
<1>12. CASE kind \in {"head", "abort"}
  <2>1. work[v] = "busy" /\ sent[v] = 0 /\ got[v] = 0 /\ NoFrames(v) /\ events[v] = <<>>
    BY <1>1, <1>6, <1>12 DEF Protocol, WorkRight, Chunks, Counts
  <2>2. ASSUME NEW n \in Nat PROVE ~Coming(v, n)'
    <3>1. ~Queued(v, n) /\ ~OnTheWay(v, n)
      BY <2>1 DEF Queued, OnTheWay, NoFrames
    <3> QED
      BY <1>4, <1>12, <3>1 DEF Coming
  <2>3. \A d \in ConnId : \A i \in 1 .. Len(to_server'[d]) :
          to_server'[d][i].stream = v => ~IsChunk(to_server[d][i])'
    BY <1>3, <1>a, <1>12, <2>1 DEF NoFrames, IsChunk
  <2>4. ChannelInOrder(v)' /\ EndIsLast(v)' /\ FramesInOrder(v)'
    BY <1>1, <2>1, <2>3 DEF ChannelInOrder, EndIsLast, FramesInOrder
  <2>5. NoGap(v)' /\ Whole(v)'
    BY <1>1, <1>7, <1>12, <2>1, <2>2 DEF NoGap, Whole
  <2>6. ChunksRight(v)'
    BY <2>4, <2>5 DEF ChunksRight
  <2> QED
    BY <1>1, <1>10, <1>11, <2>6 DEF Chunks, Listening
<1>13. CASE kind \in {"chunk", "end"} /\ ChunksRight(v)
  <2>1. work[v] = "head"
    BY <1>1, <1>13
  <2>2. /\ ~EndQueued(v) /\ EndIsLast(v)'
    BY <1>1, <1>13, <2>1 DEF ChunksRight, EndIsLast, EndQueued, IsEnd
  <2>3. ChannelInOrder(v)'
    <3>1. \A i \in 1 .. Len(events[v]) : events[v][i].number \in Nat
      BY <1>t, EventTypes
    <3> QED
      BY <1>1, <1>6, <1>7, <1>13, <3>1 DEF ChunksRight, ChannelInOrder, IsChunk
  <2>4. FramesInOrder(v)'
    <3> SUFFICES ASSUME NEW d \in ConnId, NEW i \in 1 .. Len(to_server'[d]),
                        to_server'[d][i].stream = v, IsChunk(to_server[d][i])'
                 PROVE  LET n == to_server'[d][i].number IN
                        /\ got[v] < n /\ n <= sent'[v]
                        /\ \A j \in 1 .. Len(events[v]) :
                             IsChunk(events[v][j]) => events[v][j].number < n
                        /\ \A j \in 1 .. i - 1 : to_server'[d][j].stream = v /\ IsChunk(to_server[d][j])' =>
                             to_server'[d][j].number < n
      BY <1>1 DEF FramesInOrder, IsChunk
    <3>a. Len(to_server[d]) \in Nat /\ Len(to_server'[d]) \in Nat
      BY <1>t, ClientType, QueueTypes
    <3>b. ASSUME NEW j \in 1 .. i - 1
          PROVE  j \in 1 .. Len(to_server[d]) /\ to_server'[d][j] = to_server[d][j]
      <4>1. j \in 1 .. Len(to_server'[d]) /\ i <= Len(to_server[d]) + 1
        BY <3>a, <1>3
      <4>2. j # Len(to_server[d]) + 1
        BY <3>a, <4>1
      <4> QED
        BY <1>3, <4>1, <4>2
    <3>c. \A j \in 1 .. Len(to_server[d]) : to_server[d][j].number \in Nat
      BY <1>t, EventTypes
    <3>1. CASE i \in 1 .. Len(to_server[d]) /\ to_server'[d][i] = to_server[d][i]
      <4>1. LET n == to_server[d][i].number IN
            /\ got[v] < n /\ n <= sent[v]
            /\ \A j \in 1 .. Len(events[v]) : IsChunk(events[v][j]) => events[v][j].number < n
            /\ \A j \in 1 .. i - 1 : to_server[d][j].stream = v /\ IsChunk(to_server[d][j]) =>
                 to_server[d][j].number < n
        BY <3>1, <1>13 DEF ChunksRight, FramesInOrder, IsChunk
      <4>2. to_server[d][i].number <= sent'[v]
        BY <4>1, <3>1, <3>c, <1>6, <1>7
      <4> QED
        BY <3>1, <3>b, <4>1, <4>2 DEF IsChunk
    <3>2. CASE to_server'[d][i] = f
      <4>1. kind = "chunk" /\ k = sent[v] + 1 /\ sent'[v] = k
        BY <3>2, <1>1, <1>7, <1>a DEF IsChunk
      <4>2. got[v] < k /\ k <= sent'[v]
        BY <4>1, <1>6
      <4>3. ASSUME NEW j \in 1 .. Len(events[v]), IsChunk(events[v][j]) PROVE events[v][j].number < k
        <5>1. events[v][j].number <= sent[v] /\ events[v][j].number \in Nat
          BY <4>3, <1>13, <1>t, EventTypes DEF ChunksRight, ChannelInOrder
        <5> QED
          BY <4>1, <5>1, <1>6
      <4>4. ASSUME NEW j \in 1 .. i - 1, to_server'[d][j].stream = v, IsChunk(to_server[d][j])'
            PROVE  to_server'[d][j].number < k
        <5>1. to_server[d][j].number <= sent[v] /\ to_server[d][j].number \in Nat
          BY <4>4, <3>b, <3>c, <1>13 DEF ChunksRight, FramesInOrder, IsChunk
        <5> QED
          BY SMTT(30), <3>b, <4>1, <5>1, <1>6
      <4> QED
        BY <3>2, <1>a, <4>2, <4>3, <4>4
    <3> QED
      BY <1>3, <3>1, <3>2
  <2>5. sent[v] = got[v] \/ Coming(v, sent[v])
    BY <2>1, <1>13 DEF ChunksRight, Whole
  <2>6. NoGap(v)'
    <3> SUFFICES ASSUME NEW n \in Nat, Coming(v, n)' PROVE n = got[v] + 1 \/ Coming(v, n - 1)'
      BY <1>1 DEF NoGap
    <3>1. CASE Coming(v, n)
      BY <3>1, <1>4, <1>n, <1>13
    <3>2. CASE kind = "chunk" /\ n = k
      <4>1. n = sent[v] + 1 /\ n - 1 = sent[v]
        BY <3>2, <1>1, <1>6
      <4> QED
        BY <4>1, <2>5, <1>4, <1>6
    <3> QED
      BY <1>4, <3>1, <3>2
  <2>7. Whole(v)'
    <3>1. CASE kind = "chunk"
      <4>1. k = sent'[v] /\ Coming(v, k)'
        BY <3>1, <1>1, <1>4, <1>7
      <4> QED
        BY <4>1 DEF Whole
    <3>2. CASE kind = "end"
      BY <3>2, <2>5, <1>1, <1>4, <1>6, <1>7 DEF Whole
    <3> QED
      BY <3>1, <3>2, <1>13
  <2>8. ChunksRight(v)'
    BY <2>2, <2>3, <2>4, <2>6, <2>7 DEF ChunksRight
  <2> QED
    BY <1>1, <1>10, <1>11, <2>8 DEF Chunks, Listening
<1>14. CASE ~Listening(v)
  BY <1>1, <1>10, <1>11, <1>14 DEF Chunks, Listening
<1> QED
  BY <1>12, <1>13, <1>14 DEF Chunks

LEMMA ChunksInv == Protocol /\ Chunks /\ [Next]_vars => Chunks'
<1>1. ASSUME Protocol, Chunks, UNCHANGED vars PROVE Chunks'
  <2>1. Counts'
    BY <1>1 DEF vars, visVars, regVars, connVars, Chunks, Counts
  <2>2. ASSUME NEW v \in Visitors, Listening(v)' PROVE ChunksRight(v)'
    <3>1. Listening(v)
      BY <1>1, <2>2 DEF vars, visVars, Listening
    <3> QED
      BY <1>1, <3>1, ChunksRest DEF vars, visVars, regVars, connVars, Chunks
  <2> QED
    BY <2>1, <2>2 DEF Chunks
<1> QED
  BY <1>1, HandlerChunks, ServerChunks, LinkChunks, ClientChunks DEF Next

-----------------------------------------------------------------------------
(* Fourth layer.                                                           *)

\* A connection a route or a lookup found has been up.
Known ==
  /\ route # NoConn => link[route] # "none"
  /\ \A v \in Visitors :
       /\ target[v] # NoConn => link[target[v]] # "none"
       /\ vis[v] \notin {"new", "404"} => target[v] \in ConnId

\* A stream in the pending table is that of a handler or body that has had no End.
PendingRight ==
  \A v \in pending :
    /\ vis[v] \in {"opening", "wait", "body", "gone", "dropped"}
    /\ \A i \in 1 .. Len(events[v]) : ~IsEnd(events[v][i])

\* The End or Abort of v is on its way on c, or the client is still to send it.
Ending(v, c) ==
  \/ \E i \in 1 .. Len(to_server[c]) : to_server[c][i].stream = v /\ IsEnd(to_server[c][i])
  \/ work[v] \in {"busy", "head"}
  \/ \E i \in 1 .. Len(to_client[c]) : to_client[c][i] = v

\* What the client owes for a stream it has been sent while the link holds.
EndOwed(v) ==
  v \in pending /\ vis[v] \in {"wait", "body", "gone"} /\ link[target[v]] = "up"
    => Ending(v, target[v])

Releasable == Known /\ PendingRight /\ \A v \in Visitors : EndOwed(v)

\* Nothing a client owes is lost by a step that leaves its queues alone.
LEMMA OwedStays ==
  ASSUME NEW v \in Visitors, EndOwed(v), target'[v] = target[v],
         v \in pending' => v \in pending,
         vis'[v] \in {"wait", "body", "gone"} => vis[v] \in {"wait", "body", "gone"},
         link'[target[v]] = "up" => link[target[v]] = "up",
         Ending(v, target[v]) /\ link'[target[v]] = "up" => Ending(v, target[v])'
  PROVE  EndOwed(v)'
BY DEF EndOwed, Ending

\* A step that takes nothing from the queues of c keeps what c is owed.
LEMMA EndingStays ==
  ASSUME NEW v \in Visitors, NEW c \in ConnId,
         \A i \in 1 .. Len(to_server[c]) :
           i \in 1 .. Len(to_server'[c]) /\ to_server'[c][i] = to_server[c][i],
         \A i \in 1 .. Len(to_client[c]) :
           i \in 1 .. Len(to_client'[c]) /\ to_client'[c][i] = to_client[c][i],
         work'[v] = work[v], Ending(v, c)
  PROVE  Ending(v, c)'
BY DEF Ending, IsEnd

LEMMA HandlerReleasable ==
  ASSUME Protocol, Chunks, Releasable, NEW v \in Visitors,
         Arrive(v) \/ HandlerStep(v) \/ VisitorLeaves(v)
  PROVE  Releasable'
<1>t. /\ vis \in [Visitors -> VisStates] /\ target \in [Visitors -> ConnId \cup {NoConn}]
      /\ route \in ConnId \cup {NoConn} /\ pending \subseteq Visitors
      /\ events \in [Visitors -> Seq(FrameSet)]
  BY DEF Protocol, TypeOK
<1>u. vis[v] \in {"new", "admit", "upload"} => v \notin pending /\ work[v] = "none"
  BY DEF Protocol, Unopened, Unsent
<1>v. work[v] = "none" => events[v] = <<>>
  BY DEF Chunks, Counts
<1>r. /\ UNCHANGED <<route, link, work, to_server>>
      /\ \A w \in Visitors \ {v} :
           vis'[w] = vis[w] /\ target'[w] = target[w] /\ events'[w] = events[w]
           /\ (w \in pending' <=> w \in pending)
  BY <1>t DEF Arrive, HandlerStep, UploadStep, TaskStep, VisitorLeaves, Acquire, Refuse, BodyTooLarge,
              InsertPending, SendOpen, ClientOffline, Timeout, BadFirstEvent, FirstHead, BodyChunk,
              BodyEnd, GiveUp, Goto, regVars, connVars
<1>1. Known'
  <2>1. target'[v] = target[v] \/ target'[v] = route
    BY <1>t DEF Arrive, HandlerStep, UploadStep, TaskStep, VisitorLeaves, Acquire, Refuse, BodyTooLarge,
              InsertPending, SendOpen, ClientOffline, Timeout, BadFirstEvent, FirstHead, BodyChunk,
              BodyEnd, GiveUp
  <2>2. vis'[v] \notin {"new", "404"} => target'[v] \in ConnId
    <3>1. CASE Arrive(v)
      BY <3>1, <1>t DEF Arrive, Goto
    <3>2. CASE ~Arrive(v)
      <4>1. target' = target /\ vis[v] \notin {"new", "404"}
        BY <3>2, <1>t DEF HandlerStep, UploadStep, TaskStep, VisitorLeaves, Acquire, Refuse, BodyTooLarge,
              InsertPending, SendOpen, ClientOffline, Timeout, BadFirstEvent, FirstHead, BodyChunk,
              BodyEnd, GiveUp
      <4> QED
        BY <4>1 DEF Releasable, Known
    <3> QED
      BY <3>1, <3>2
  <2> QED
    BY <1>r, <2>1, <2>2 DEF Releasable, Known
<1>2. PendingRight'
  <2>1. ASSUME v \in pending'
        PROVE  /\ vis'[v] \in {"opening", "wait", "body", "gone", "dropped"}
               /\ \A i \in 1 .. Len(events'[v]) : ~IsEnd(events'[v][i])
    <3>1. CASE InsertPending(v)
      <4>1. vis'[v] = "opening" /\ events'[v] = <<>>
        BY <3>1, <1>t, <1>u, <1>v DEF InsertPending, Goto
      <4> QED
        BY <4>1
    <3>2. CASE Arrive(v) \/ Refuse(v) \/ Acquire(v) \/ BodyTooLarge(v)
      <4>1. v \notin pending'
        BY <3>2, <1>u DEF Arrive, Refuse, Acquire, BodyTooLarge, regVars
      <4> QED
        BY <2>1, <4>1
    <3>3. CASE ClientOffline(v) \/ Timeout(v) \/ BadFirstEvent(v)
      BY <2>1, <3>3 DEF ClientOffline, Timeout, BadFirstEvent, GiveUp
    <3>4. CASE VisitorLeaves(v)
      <4>1. events'[v] = <<>> /\ vis'[v] \in {"gone", "dropped"}
        BY <3>4, <1>t DEF VisitorLeaves, Goto
      <4> QED
        BY <4>1
    <3>5. CASE SendOpen(v)
      <4>1. vis'[v] = "wait" /\ events' = events /\ v \in pending
        BY <2>1, <3>5, <1>t DEF SendOpen, Goto, regVars
      <4> QED
        BY <4>1 DEF Releasable, PendingRight
    <3>6. CASE FirstHead(v) \/ BodyChunk(v)
      <4>1. /\ vis[v] \in {"wait", "body"} /\ vis'[v] = "body" /\ v \in pending
            /\ events[v] # <<>> /\ events'[v] = Tail(events[v])
        BY <2>1, <3>6, <1>t DEF FirstHead, BodyChunk, Goto
      <4>2. /\ Len(events'[v]) = Len(events[v]) - 1 /\ Len(events[v]) \in Nat
            /\ \A i \in 1 .. Len(events'[v]) : events'[v][i] = events[v][i + 1]
        BY <4>1, <1>t, TailOf
      <4>3. \A i \in 1 .. Len(events[v]) : ~IsEnd(events[v][i])
        BY <4>1 DEF Releasable, PendingRight
      <4>4. \A i \in 1 .. Len(events'[v]) : ~IsEnd(events'[v][i])
        <5> SUFFICES ASSUME NEW i \in 1 .. Len(events'[v]) PROVE ~IsEnd(events'[v][i])
          OBVIOUS
        <5>1. i + 1 \in 1 .. Len(events[v]) /\ events'[v][i] = events[v][i + 1]
          BY <4>2
        <5> QED
          BY <4>3, <5>1
      <4> QED
        BY <4>1, <4>4
    <3>7. CASE BodyEnd(v)
      <4>1. v \in pending /\ events[v] # <<>> /\ IsEnd(Head(events[v]))
        BY <2>1, <3>7 DEF BodyEnd, IsEnd
      <4>2. Head(events[v]) = events[v][1] /\ 1 \in 1 .. Len(events[v])
        BY <4>1, <1>t, TailOf
      <4> QED
        BY <4>1, <4>2 DEF Releasable, PendingRight
    <3> QED
      BY <3>1, <3>2, <3>3, <3>4, <3>5, <3>6, <3>7 DEF HandlerStep, UploadStep, TaskStep
  <2>2. ASSUME NEW w \in pending', w # v
        PROVE  /\ vis'[w] \in {"opening", "wait", "body", "gone", "dropped"}
               /\ \A i \in 1 .. Len(events'[w]) : ~IsEnd(events'[w][i])
    <3>1. w \in Visitors
      BY <1>t, <2>2, HandlerType, VisitorType DEF Protocol, TypeOK
    <3> QED
      BY <1>r, <2>2, <3>1 DEF Releasable, PendingRight
  <2> QED
    BY <2>1, <2>2 DEF PendingRight, IsEnd
<1>3. ASSUME NEW w \in Visitors PROVE EndOwed(w)'
  <2>o. EndOwed(w)
    BY DEF Releasable
  <2>1. CASE SendOpen(v)
    <3>1. /\ vis[v] = "opening" /\ target' = target /\ link' = link /\ pending' = pending
          /\ UNCHANGED <<to_server, work>> /\ target[v] \in ConnId
          /\ to_client' = IF link[target[v]] = "up"
                            THEN [to_client EXCEPT ![target[v]] = Append(@, v)] ELSE to_client
      BY <2>1, <1>t DEF SendOpen, regVars, Protocol, TypeOK
    <3>2. to_client \in [ConnId -> Seq(Visitors)]
      BY DEF Protocol, TypeOK
    <3>3. \A d \in ConnId : \A i \in 1 .. Len(to_client[d]) :
            i \in 1 .. Len(to_client'[d]) /\ to_client'[d][i] = to_client[d][i]
      <4> SUFFICES ASSUME NEW d \in ConnId
                   PROVE  \A i \in 1 .. Len(to_client[d]) :
                            i \in 1 .. Len(to_client'[d]) /\ to_client'[d][i] = to_client[d][i]
        OBVIOUS
      <4>1. to_client'[d] = to_client[d] \/ to_client'[d] = Append(to_client[d], v)
        BY <3>1, <3>2
      <4>2. to_client[d] \in Seq(Visitors) /\ Len(to_client[d]) \in Nat
        BY <3>2
      <4>3. CASE to_client'[d] = Append(to_client[d], v)
        BY <4>2, <4>3, Appended
      <4> QED
        BY <4>1, <4>2, <4>3
    <3>4. CASE w = v
      <4>1. CASE link[target[v]] = "up"
        <5>1. to_client'[target[v]] = Append(to_client[target[v]], v)
              /\ to_client[target[v]] \in Seq(Visitors) /\ Len(to_client[target[v]]) \in Nat
          BY <3>1, <3>2, <4>1
        <5>2. /\ Len(to_client'[target[v]]) = Len(to_client[target[v]]) + 1
              /\ to_client'[target[v]][Len(to_client[target[v]]) + 1] = v
          BY <5>1, Appended
        <5>3. \E i \in 1 .. Len(to_client'[target[v]]) : to_client'[target[v]][i] = v
          BY <5>1, <5>2
        <5> QED
          BY <3>1, <3>4, <5>3 DEF EndOwed, Ending
      <4>2. CASE link[target[v]] # "up"
        BY <3>1, <3>4, <4>2 DEF EndOwed
      <4> QED
        BY <4>1, <4>2
    <3>5. CASE w # v
      <4>1. CASE target[w] \in ConnId
        <5>1. Ending(w, target[w]) => Ending(w, target[w])'
          BY <3>1, <3>3, <4>1, EndingStays
        <5> QED
          BY <3>1, <3>5, <2>o, <5>1, <1>r, OwedStays
      <4>2. CASE target[w] \notin ConnId
        <5>1. w \notin pending'
          BY <3>1, <4>2 DEF Releasable, Known, PendingRight
        <5> QED
          BY <5>1 DEF EndOwed
      <4> QED
        BY <4>1, <4>2
    <3> QED
      BY <3>4, <3>5
  <2>2. CASE ~SendOpen(v)
    <3>1. to_client' = to_client
      BY <2>2 DEF Arrive, HandlerStep, UploadStep, TaskStep, VisitorLeaves, Acquire, Refuse, BodyTooLarge,
              InsertPending, ClientOffline, Timeout, BadFirstEvent, FirstHead, BodyChunk,
              BodyEnd, GiveUp, connVars
    <3>2. \A c \in ConnId \cup {NoConn} : Ending(w, c) => Ending(w, c)'
      BY <3>1, <1>r DEF Ending, IsEnd
    <3>3. CASE w # v
      BY <3>2, <3>3, <1>r, <1>t, <2>o, OwedStays
    <3>4. CASE w = v /\ v \in pending' /\ vis'[v] \in {"wait", "body", "gone"}
      <4>1. v \in pending /\ vis[v] \in {"wait", "body"} /\ target' = target
        BY <2>2, <3>4, <1>t, <1>u DEF Arrive, HandlerStep, UploadStep, TaskStep, VisitorLeaves, Acquire, Refuse, BodyTooLarge,
              InsertPending, ClientOffline, Timeout, BadFirstEvent, FirstHead, BodyChunk,
              BodyEnd, GiveUp, Goto, regVars
      <4> QED
        BY <3>2, <3>4, <4>1, <1>r, <1>t, <2>o, OwedStays
    <3>5. CASE w = v /\ ~ (v \in pending' /\ vis'[v] \in {"wait", "body", "gone"})
      BY <3>5 DEF EndOwed
    <3> QED
      BY <3>3, <3>4, <3>5
  <2> QED
    BY <2>1, <2>2
<1> QED
  BY <1>1, <1>2, <1>3 DEF Releasable

LEMMA ServerReleasable ==
  ASSUME Protocol, Protocol', Releasable, NEW c \in ConnId, ServerRecv(c) PROVE Releasable'
<1>1. TakeFrame(c) /\ UNCHANGED <<vis, target, route, link, to_client, work>>
  BY DEF ServerRecv, RecvHeadOrChunk, RecvEndOrAbort, TakeFrame, visVars
<1>2. PICK s \in Visitors : s = Frame(c).stream
  BY <1>1, Taken DEF Protocol
<1>3. /\ Frame(c) = to_server[c][1] /\ Frame(c) \in FrameSet
      /\ Len(to_server[c]) \in Nat \ {0} /\ Len(to_server'[c]) = Len(to_server[c]) - 1
      /\ \A i \in 1 .. Len(to_server'[c]) :
           i + 1 \in 1 .. Len(to_server[c]) /\ to_server'[c][i] = to_server[c][i + 1]
      /\ \A d \in ConnId \ {c} : to_server'[d] = to_server[d]
  BY <1>1, Taken DEF Protocol
<1>4. /\ pending' \subseteq pending /\ pending \subseteq Visitors
      /\ IsEnd(Frame(c)) => s \notin pending'
      /\ events' = IF s \in pending /\ Listening(s)
                     THEN [events EXCEPT ![s] = Append(@, Frame(c))] ELSE events
      /\ events \in [Visitors -> Seq(FrameSet)]
  BY <1>2 DEF ServerRecv, RecvHeadOrChunk, RecvEndOrAbort, RouteEvent, IsEnd, Protocol, TypeOK
<1>5. Known'
  BY <1>1 DEF Releasable, Known
<1>6. PendingRight'
  <2> SUFFICES ASSUME NEW w \in pending'
               PROVE  /\ vis[w] \in {"opening", "wait", "body", "gone", "dropped"}
                      /\ \A i \in 1 .. Len(events'[w]) : ~IsEnd(events'[w][i])
    BY <1>1 DEF PendingRight, IsEnd
  <2>1. /\ vis[w] \in {"opening", "wait", "body", "gone", "dropped"}
        /\ \A i \in 1 .. Len(events[w]) : ~IsEnd(events[w][i])
        /\ events[w] \in Seq(FrameSet) /\ w \in Visitors
    BY <1>4 DEF Releasable, PendingRight
  <2>2. CASE events'[w] = events[w]
    BY <2>1, <2>2
  <2>3. CASE events'[w] # events[w]
    <3>1. w = s /\ events'[w] = Append(events[w], Frame(c)) /\ ~IsEnd(Frame(c))
      BY <2>1, <2>3, <1>4
    <3>2. \A i \in 1 .. Len(events'[w]) :
            events'[w][i] = Frame(c) \/ (i \in 1 .. Len(events[w]) /\ events'[w][i] = events[w][i])
      BY <2>1, <3>1, <1>3, Appended
    <3> QED
      BY <2>1, <3>1, <3>2
  <2> QED
    BY <2>1, <2>2, <2>3
<1>7. ASSUME NEW w \in Visitors PROVE EndOwed(w)'
  <2>1. CASE w \notin pending'
    BY <2>1 DEF EndOwed
  <2>2. CASE w \in pending'
    <3>1. Ending(w, target[w]) => Ending(w, target[w])'
      <4> SUFFICES ASSUME NEW i \in 1 .. Len(to_server[target[w]]),
                          to_server[target[w]][i].stream = w, IsEnd(to_server[target[w]][i])
                   PROVE  Ending(w, target[w])'
        BY <1>1 DEF Ending
      <4>1. CASE target[w] = c
        <5>1. i # 1
          BY <1>2, <1>3, <1>4, <2>2, <4>1
        <5>2. i - 1 \in 1 .. Len(to_server'[c]) /\ to_server'[c][i - 1] = to_server[c][i]
          BY <1>3, <4>1, <5>1
        <5> QED
          BY <1>1, <4>1, <5>2 DEF Ending, IsEnd
      <4>2. CASE target[w] # c
        <5>1. target[w] \in ConnId
          BY <1>4, <2>2 DEF Releasable, Known, PendingRight
        <5>2. to_server'[target[w]] = to_server[target[w]]
          BY <1>3, <4>2, <5>1
        <5> QED
          BY <1>1, <5>2 DEF Ending, IsEnd
      <4> QED
        BY <4>1, <4>2
    <3>2. EndOwed(w)
      BY DEF Releasable
    <3> QED
      BY <3>1, <3>2, <1>1, <1>4, OwedStays
  <2> QED
    BY <2>1, <2>2
<1> QED
  BY <1>5, <1>6, <1>7 DEF Releasable

\* A lost link ends what it owes; whoever connects is nobody's target yet.
LEMMA LinkReleasable ==
  ASSUME Protocol, Releasable, NEW c \in ConnId,
         Connect(c) \/ LinkLost(c) \/ ServerCloses(c) \/ ClientTakes(c)
  PROVE  Releasable'
<1>1. /\ UNCHANGED <<vis, target, pending, events>>
      /\ link \in [ConnId -> {"none", "up", "down", "closed"}]
      /\ target \in [Visitors -> ConnId \cup {NoConn}]
      /\ \A d \in ConnId \ {c} : link'[d] = link[d]
      /\ link'[c] # "none"
  BY DEF Connect, LinkLost, ServerCloses, ClientTakes, visVars, regVars, Protocol, TypeOK
<1>2. Known'
  <2>1. route' \in {route, c, NoConn} /\ route \in ConnId \cup {NoConn}
    BY DEF Connect, LinkLost, ServerCloses, ClientTakes, regVars, Protocol, TypeOK
  <2>2. \A d \in ConnId : link[d] # "none" => link'[d] # "none"
    BY <1>1
  <2>3. c # NoConn
    BY DEF ConnId, NoConn
  <2> QED
    BY <1>1, <2>1, <2>2 DEF Releasable, Known
<1>3. PendingRight'
  BY <1>1 DEF Releasable, PendingRight, IsEnd
<1>4. ASSUME NEW w \in Visitors, w \in pending, target[w] \in ConnId PROVE EndOwed(w)'
  <2>o. EndOwed(w)
    BY DEF Releasable
  <2>1. CASE Connect(c)
    <3>1. link[c] = "none" /\ UNCHANGED <<to_client, to_server, work>> /\ target[w] # c
      BY <1>4, <2>1 DEF Connect, Releasable, Known, ConnId, NoConn
    <3>2. Ending(w, target[w]) => Ending(w, target[w])'
      BY <1>1, <3>1 DEF Ending, IsEnd
    <3> QED
      BY <1>1, <1>4, <3>1, <3>2, <2>o, OwedStays
  <2>2. CASE LinkLost(c) \/ ServerCloses(c)
    <3>1. link'[c] # "up" /\ (target[w] # c =>
             UNCHANGED <<to_client[target[w]], to_server[target[w]], work[w]>>)
      BY <1>1, <1>4, <2>2 DEF LinkLost, ServerCloses, Protocol, TypeOK
    <3>2. CASE target[w] = c
      BY <1>1, <3>1, <3>2 DEF EndOwed
    <3>3. CASE target[w] # c
      <4>1. Ending(w, target[w]) => Ending(w, target[w])'
        BY <3>1, <3>3 DEF Ending, IsEnd
      <4> QED
        BY <1>1, <1>4, <3>3, <4>1, <2>o, OwedStays
    <3> QED
      BY <3>2, <3>3
  <2>3. CASE ClientTakes(c)
    <3>1. /\ to_client[c] \in Seq(Visitors) /\ to_client[c] # <<>> /\ link' = link
          /\ to_server' = to_server /\ to_client'[c] = Tail(to_client[c])
          /\ \A d \in ConnId \ {c} : to_client'[d] = to_client[d]
          /\ work' = [work EXCEPT ![Head(to_client[c])] = "busy"]
          /\ work \in [Visitors -> {"none", "busy", "head", "over", "dead"}]
      BY <2>3 DEF ClientTakes, Protocol, TypeOK
    <3>2. /\ Len(to_client[c]) \in Nat \ {0} /\ Len(to_client'[c]) = Len(to_client[c]) - 1
          /\ \A i \in 1 .. Len(to_client[c]) - 1 : to_client'[c][i] = to_client[c][i + 1]
          /\ Head(to_client[c]) = to_client[c][1] /\ Head(to_client[c]) \in Visitors
      BY <3>1, TailOf
    <3>3. CASE w = Head(to_client[c])
      BY <3>1, <3>2, <3>3 DEF EndOwed, Ending
    <3>4. CASE w # Head(to_client[c])
      <4>1. Ending(w, target[w]) => Ending(w, target[w])'
        <5> SUFFICES ASSUME NEW i \in 1 .. Len(to_client[target[w]]), to_client[target[w]][i] = w
                     PROVE  Ending(w, target[w])'
          BY <1>1, <3>1, <3>2, <3>4 DEF Ending, IsEnd
        <5>1. CASE target[w] = c
          <6>1. i # 1
            BY <3>2, <3>4, <5>1
          <6>2. i - 1 \in 1 .. Len(to_client'[c]) /\ to_client'[c][i - 1] = w
            BY <3>2, <5>1, <6>1
          <6> QED
            BY <1>1, <5>1, <6>2 DEF Ending
        <5>2. CASE target[w] # c
          BY <1>1, <1>4, <3>1, <5>2 DEF Ending
        <5> QED
          BY <5>1, <5>2
      <4> QED
        BY <1>1, <3>1, <4>1, <2>o, OwedStays
    <3> QED
      BY <3>3, <3>4
  <2> QED
    BY <2>1, <2>2, <2>3
<1>5. \A w \in Visitors : EndOwed(w)'
  <2> SUFFICES ASSUME NEW w \in Visitors PROVE EndOwed(w)'
    OBVIOUS
  <2>1. CASE w \in pending
    <3>1. target[w] \in ConnId
      BY <2>1 DEF Releasable, Known, PendingRight
    <3> QED
      BY <2>1, <3>1, <1>4
  <2>2. CASE w \notin pending
    BY <2>2, <1>1 DEF EndOwed
  <2> QED
    BY <2>1, <2>2
<1> QED
  BY <1>2, <1>3, <1>5 DEF Releasable

LEMMA ClientReleasable ==
  ASSUME Protocol, Releasable, NEW v \in Visitors, ClientStep(v) PROVE Releasable'
<1>1. PICK kind \in {"head", "chunk", "end", "abort"}, n \in Nat :
           /\ Up(v) /\ SendFrame(v, kind, n)
           /\ work' = [work EXCEPT ![v] = IF kind \in {"end", "abort"} THEN "over" ELSE "head"]
           /\ UNCHANGED <<visVars, regVars, link, to_client>>
  BY ClientSends
<1> DEFINE f == [stream |-> v, kind |-> kind, number |-> n]
           c == target[v]
<1>2. /\ c \in ConnId
      /\ \A d \in ConnId \ {c} : to_server'[d] = to_server[d]
      /\ Len(to_server'[c]) = Len(to_server[c]) + 1 /\ Len(to_server[c]) \in Nat
      /\ \A i \in 1 .. Len(to_server[c]) : to_server'[c][i] = to_server[c][i]
      /\ to_server'[c][Len(to_server[c]) + 1] = f
  BY <1>1, Sends, QueueTypes DEF Protocol
<1>3. f.stream = v /\ f.kind = kind /\ c = target[v]
  OBVIOUS
<1> HIDE DEF f, c
<1>4. UNCHANGED <<vis, target, route, pending, events, link, to_client>>
      /\ work \in [Visitors -> {"none", "busy", "head", "over", "dead"}]
  BY <1>1 DEF visVars, regVars, Protocol, TypeOK
<1>5. Known' /\ PendingRight'
  BY <1>4 DEF Releasable, Known, PendingRight, IsEnd
<1>6. ASSUME NEW w \in Visitors PROVE EndOwed(w)'
  <2>1. CASE w = v
    <3>1. CASE kind \in {"end", "abort"}
      <4>1. /\ Len(to_server[c]) + 1 \in 1 .. Len(to_server'[c])
            /\ to_server'[c][Len(to_server[c]) + 1].stream = v
            /\ to_server'[c][Len(to_server[c]) + 1].kind \in {"end", "abort"}
        BY <1>2, <1>3, <3>1
      <4> QED
        BY <1>3, <1>4, <2>1, <4>1 DEF EndOwed, Ending, IsEnd
    <3>2. CASE kind \notin {"end", "abort"}
      <4>1. work'[v] = "head"
        BY <1>1, <1>4, <3>2
      <4> QED
        BY <2>1, <4>1 DEF EndOwed, Ending
    <3> QED
      BY <3>1, <3>2
  <2>2. CASE w # v /\ w \in pending
    <3>1. target[w] \in ConnId
      BY <2>2 DEF Releasable, Known, PendingRight
    <3>2. \A i \in 1 .. Len(to_server[target[w]]) :
            /\ i \in 1 .. Len(to_server'[target[w]])
            /\ to_server'[target[w]][i] = to_server[target[w]][i]
      BY <1>2, <3>1
    <3>3. Ending(w, target[w]) => Ending(w, target[w])'
      BY <1>1, <1>4, <2>2, <3>1, <3>2, EndingStays
    <3>4. EndOwed(w)
      BY DEF Releasable
    <3> QED
      BY <1>4, <3>3, <3>4, OwedStays
  <2>3. CASE w \notin pending
    BY <2>3, <1>4 DEF EndOwed
  <2> QED
    BY <2>1, <2>2, <2>3
<1> QED
  BY <1>5, <1>6 DEF Releasable

LEMMA ReleasableInv ==
  Protocol /\ Protocol' /\ Chunks /\ Releasable /\ [Next]_vars => Releasable'
<1>1. ASSUME Releasable, UNCHANGED vars PROVE Releasable'
  BY <1>1 DEF vars, visVars, regVars, connVars, Releasable, Known, PendingRight, EndOwed, Ending, IsEnd
<1> QED
  BY <1>1, HandlerReleasable, ServerReleasable, LinkReleasable, ClientReleasable DEF Next

\* What took a slot and has not been released can be released, or is stranded.
LEMMA SlotsAre ==
  ASSUME Protocol, Releasable PROVE Slots = SlotHolders \cup Stranded
<1>1. pending \subseteq Visitors /\ to_server \in [ConnId -> Seq(FrameSet)]
      /\ to_client \in [ConnId -> Seq(Visitors)]
  BY DEF Protocol, TypeOK
<1>2. ASSUME NEW v \in pending, vis[v] \in {"body", "gone"}, link[target[v]] = "up"
      PROVE  EndMayCome(v)
  <2>1. vis[v] \notin {"new", "404"} => target[v] \in ConnId
    BY <1>1 DEF Releasable, Known
  <2>2. PICK c \in ConnId : c = target[v]
    BY <1>2, <2>1
  <2>3. Ending(v, c) /\ link[c] = "up"
    BY <1>1, <1>2, <2>2 DEF Releasable, EndOwed
  <2>4. DOMAIN to_server[c] = 1 .. Len(to_server[c]) /\ DOMAIN to_client[c] = 1 .. Len(to_client[c])
    BY <1>1
  <2> QED
    BY <2>2, <2>3, <2>4 DEF Ending, EndMayCome, IsEnd
<1>3. \A v \in pending : vis[v] \in {"opening", "wait", "body", "gone", "dropped"}
  BY DEF Releasable, PendingRight
<1>4. Slots \subseteq SlotHolders \cup Stranded
  BY <1>1, <1>2, <1>3 DEF Slots, SlotHolders, Stranded
<1>5. SlotHolders \cup Stranded \subseteq Slots
  BY <1>1 DEF Slots, SlotHolders, Stranded
<1> QED
  BY <1>4, <1>5

-----------------------------------------------------------------------------
(* The four layers together.                                              *)

IInv == Protocol /\ SlotsBound /\ Chunks /\ Releasable

LEMMA InitInv == Init => IInv
<1> SUFFICES ASSUME Init PROVE IInv
  OBVIOUS
<1>1. TypeOK
  BY InitType
<1>2. Protocol
  BY <1>1 DEF Init, Protocol, Unopened, OpensOnce, WorkRight, AllOwed, FramesRight, Ended,
              NoFrames, Listening
<1>3. SlotsBound
  <2>1. Slots = {} /\ Twice = {}
    BY DEF Init, Slots, Twice, Failed
  <2> QED
    BY <2>1, FS_EmptySet DEF Init, SlotsBound
<1>4. Chunks
  BY DEF Init, Chunks, Counts, Listening
<1>5. Releasable
  BY DEF Init, Releasable, Known, PendingRight, EndOwed
<1> QED
  BY <1>2, <1>3, <1>4, <1>5 DEF IInv

LEMMA Inductive == Spec => []IInv
<1>1. IInv /\ [Next]_vars => IInv'
  BY ProtocolInv, SlotsInv, ChunksInv, ReleasableInv DEF IInv
<1> QED
  BY InitInv, <1>1, PTL DEF Spec

\* A user's counter is never above the streams somebody can still release and those that
\* are stranded, and below them by no more than the streams that failed behind
\* insert_pending (routes_visitor.rs releases them, and routes_ws.rs again), for every
\* limit, every number of visitors and connections, and whatever faults.
THEOREM SlotsAreAccountedFor == Spec => []SlotsAccounted
<1>1. IInv => SlotsAccounted
  <2> SUFFICES ASSUME IInv PROVE SlotsAccounted
    OBVIOUS
  <2> DEFINE F == {v \in Visitors : vis[v] \in {"502", "504"}}
  <2>1. /\ SlotsBound /\ active \in Nat
        /\ Cardinality(Slots) \in Nat /\ Cardinality(Twice) \in Nat
    BY SlotSets DEF IInv
  <2>2. Twice \subseteq F /\ F \subseteq Visitors
    BY DEF Twice, Failed
  <2>3. IsFiniteSet(F) /\ Cardinality(F) \in Nat
    BY <2>2, FS_Subset, FS_CardinalityType, HttpStreamsAssumption
  <2>4. Cardinality(Twice) <= Cardinality(F)
    BY <2>2, <2>3, FS_Subset
  <2> QED
    BY <2>1, <2>3, <2>4, SlotsAre DEF IInv, SlotsBound, SlotsAccounted
<1> QED
  BY <1>1, Inductive, PTL

-----------------------------------------------------------------------------
(* What the visitors observe.                                              *)

Phases == [v \in Visitors |-> PhaseOf(v)]

LEMMA PhaseChanges ==
  ASSUME Protocol, NEW v \in Visitors, NEW x \in VisStates, Goto(v, x)
  PROVE  /\ Phases[v] = PhaseOf(v)
         /\ Phases' = [Phases EXCEPT ![v] = PhaseOf(v)']
         /\ vis'[v] = x
<1>1. vis'[v] = x /\ \A w \in Visitors \ {v} : vis'[w] = vis[w]
  BY DEF Goto, Protocol, TypeOK
<1>2. \A w \in Visitors \ {v} : PhaseOf(w)' = PhaseOf(w)
  BY <1>1 DEF PhaseOf
<1> QED
  BY <1>1, <1>2 DEF Phases

\* The next chunk of a body is the one behind the last, and End comes behind the last.
LEMMA NextChunk ==
  ASSUME Protocol, Chunks, NEW v \in Visitors, Listening(v), events[v] # <<>>
  PROVE  /\ IsChunk(Head(events[v])) =>
              Head(events[v]).number = got[v] + 1 /\ got[v] < sent[v]
         /\ IsEnd(Head(events[v])) => sent[v] = got[v]
<1>1. /\ Head(events[v]) = events[v][1] /\ 1 \in 1 .. Len(events[v]) /\ Len(events[v]) \in Nat
      /\ got[v] \in Nat /\ sent[v] \in Nat
      /\ \A i \in 1 .. Len(events[v]) : events[v][i].number \in Nat
  BY EventTypes, TailOf DEF Protocol
<1>2. ChunksRight(v)
  BY DEF Chunks
<1>3. ASSUME IsChunk(events[v][1]) PROVE events[v][1].number = got[v] + 1 /\ got[v] < sent[v]
  <2>1. PICK n \in Nat : n = events[v][1].number
    BY <1>1
  <2>2. got[v] < n /\ n <= sent[v] /\ Coming(v, n)
    BY <1>1, <1>2, <1>3, <2>1 DEF ChunksRight, ChannelInOrder, Coming, Queued
  <2>3. ~Coming(v, n - 1)
    <3>1. ASSUME Queued(v, n - 1) PROVE FALSE
      <4>1. PICK i \in 1 .. Len(events[v]) : IsChunk(events[v][i]) /\ events[v][i].number = n - 1
        BY <3>1 DEF Queued
      <4>2. i # 1
        BY <4>1, <2>1
      <4>3. 1 \in 1 .. i - 1
        BY <4>2, <1>1
      <4>4. n < n - 1
        BY <1>2, <1>3, <2>1, <4>1, <4>3 DEF ChunksRight, ChannelInOrder
      <4> QED
        BY <4>4
    <3>2. ASSUME OnTheWay(v, n - 1) PROVE FALSE
      <4>1. n < n - 1
        BY <1>1, <1>2, <1>3, <2>1, <3>2 DEF ChunksRight, FramesInOrder, OnTheWay
      <4> QED
        BY <4>1
    <3> QED
      BY <3>1, <3>2 DEF Coming
  <2>4. n = got[v] + 1
    BY <1>2, <2>2, <2>3 DEF ChunksRight, NoGap
  <2> QED
    BY <1>1, <2>1, <2>2, <2>4
<1>4. ASSUME IsEnd(events[v][1]) PROVE sent[v] = got[v]
  <2>1. Len(events[v]) = 1 /\ NoFrames(v) /\ EndQueued(v)
    BY <1>1, <1>2, <1>4 DEF ChunksRight, EndIsLast, EndQueued
  <2>2. ~Coming(v, sent[v])
    BY <2>1, <1>4 DEF Coming, Queued, OnTheWay, NoFrames, IsChunk, IsEnd
  <2> QED
    BY <1>2, <2>1, <2>2 DEF ChunksRight, Whole
<1> QED
  BY <1>1, <1>3, <1>4

\* Every step of a handler is one of the visitor's, or none.
LEMMA HandlerAnswers ==
  ASSUME Protocol, Chunks, NEW v \in Visitors,
         Arrive(v) \/ HandlerStep(v) \/ VisitorLeaves(v)
  PROVE  [Abstract!Next]_<<Phases, sent, got>>
<1>t. got \in [Visitors -> Nat] /\ vis \in [Visitors -> VisStates]
  BY DEF Protocol, TypeOK
<1>u. sent' = sent
  BY DEF Arrive, HandlerStep, UploadStep, TaskStep, VisitorLeaves, Acquire, Refuse, BodyTooLarge, InsertPending, SendOpen,
         ClientOffline, Timeout, BadFirstEvent, FirstHead, BodyChunk, BodyEnd, GiveUp, connVars
<1>1. ASSUME NEW x \in VisStates, Goto(v, x), PhaseOf(v)' = PhaseOf(v), got' = got
      PROVE  UNCHANGED <<Phases, sent, got>>
  <2>1. Phases \in [Visitors -> {PhaseOf(w) : w \in Visitors}]
    BY DEF Phases
  <2>2. Phases[v] = PhaseOf(v) /\ Phases' = [Phases EXCEPT ![v] = PhaseOf(v)']
    BY <1>1, PhaseChanges
  <2> QED
    BY <1>1, <1>u, <2>1, <2>2
<1>2. ASSUME NEW x \in VisStates, Goto(v, x), got' = got, NEW from, NEW to,
             PhaseOf(v) = from, PhaseOf(v)' = to
      PROVE  Phases[v] = from /\ Phases' = [Phases EXCEPT ![v] = to] /\ UNCHANGED <<sent, got>>
  BY <1>1, <1>2, <1>u, PhaseChanges
<1>3. CASE Acquire(v) \/ SendOpen(v) \/ (Arrive(v) /\ route # NoConn)
  <2>1. PICK x \in VisStates : Goto(v, x) /\ got' = got /\ x \in {"admit", "upload", "wait"}
                               /\ (x = "wait" <=> vis[v] = "opening")
                               /\ vis[v] \in {"new", "admit", "opening"}
    BY <1>3 DEF Acquire, SendOpen, Arrive, VisStates, Unsent
  <2>2. vis'[v] = x
    BY <2>1, PhaseChanges
  <2>3. PhaseOf(v)' = PhaseOf(v)
    BY <2>1, <2>2 DEF PhaseOf
  <2> QED
    BY <1>1, <2>1, <2>3
<1>4. CASE Refuse(v) \/ BodyTooLarge(v) \/ (Arrive(v) /\ route = NoConn)
  <2>1. PICK x \in VisStates : Goto(v, x) /\ got' = got /\ x \in {"404", "413", "429"}
                               /\ vis[v] \in {"new", "admit", "upload"}
    BY <1>4 DEF Refuse, BodyTooLarge, Arrive, VisStates, Unsent
  <2>2. vis'[v] = x
    BY <2>1, PhaseChanges
  <2>3. PhaseOf(v) = "silent" /\ PhaseOf(v)' = "refused"
    BY <2>1, <2>2 DEF PhaseOf
  <2>4. Phases[v] = "silent" /\ Phases' = [Phases EXCEPT ![v] = "refused"] /\ UNCHANGED <<sent, got>>
    BY <1>2, <2>1, <2>3
  <2>5. Abstract!Refuse(v)
    BY <2>4 DEF Abstract!Refuse, Abstract!Moves, Phases
  <2> QED
    BY <2>5 DEF Abstract!Next
<1>5. CASE InsertPending(v)
  <2>1. Goto(v, "opening") /\ got' = got /\ vis[v] = "upload" /\ "opening" \in VisStates
    BY <1>5 DEF InsertPending, VisStates, Unsent
  <2>2. vis'[v] = "opening"
    BY <2>1, PhaseChanges
  <2>3. PhaseOf(v) = "silent" /\ PhaseOf(v)' = "waiting"
    BY <2>1, <2>2 DEF PhaseOf
  <2>4. Phases[v] = "silent" /\ Phases' = [Phases EXCEPT ![v] = "waiting"] /\ UNCHANGED <<sent, got>>
    BY <1>2, <2>1, <2>3
  <2>5. Abstract!Forward(v)
    BY <2>4 DEF Abstract!Forward, Abstract!Moves, Phases
  <2> QED
    BY <2>5 DEF Abstract!Next
<1>6. CASE ClientOffline(v) \/ Timeout(v) \/ BadFirstEvent(v)
  <2>1. PICK x \in VisStates : Goto(v, x) /\ got' = got /\ x \in {"502", "504"}
                               /\ vis[v] \in {"opening", "wait"}
    BY <1>6 DEF ClientOffline, Timeout, BadFirstEvent, GiveUp, VisStates, Failed
  <2>2. vis'[v] = x
    BY <2>1, PhaseChanges
  <2>3. PhaseOf(v) = "waiting" /\ PhaseOf(v)' = "failed"
    BY <2>1, <2>2 DEF PhaseOf
  <2>4. Phases[v] = "waiting" /\ Phases' = [Phases EXCEPT ![v] = "failed"] /\ UNCHANGED <<sent, got>>
    BY <1>2, <2>1, <2>3
  <2>5. Abstract!Fail(v)
    BY <2>4 DEF Abstract!Fail, Abstract!Moves, Phases
  <2> QED
    BY <2>5 DEF Abstract!Next
<1>7. CASE FirstHead(v)
  <2>1. Goto(v, "body") /\ got' = got /\ vis[v] = "wait" /\ "body" \in VisStates
    BY <1>7 DEF FirstHead, VisStates
  <2>2. vis'[v] = "body"
    BY <2>1, PhaseChanges
  <2>3. PhaseOf(v) = "waiting" /\ PhaseOf(v)' = "body"
    BY <2>1, <2>2 DEF PhaseOf
  <2>4. Phases[v] = "waiting" /\ Phases' = [Phases EXCEPT ![v] = "body"] /\ UNCHANGED <<sent, got>>
    BY <1>2, <2>1, <2>3
  <2>5. Abstract!Answer(v)
    BY <2>4 DEF Abstract!Answer, Abstract!Moves, Phases
  <2> QED
    BY <2>5 DEF Abstract!Next
<1>8. CASE BodyChunk(v)
  <2>1. vis[v] = "body" /\ Phases' = Phases /\ events[v] # <<>> /\ IsChunk(Head(events[v]))
    BY <1>8 DEF BodyChunk, Phases, PhaseOf, IsChunk
  <2>2. Head(events[v]).number = got[v] + 1 /\ got[v] < sent[v]
    BY <2>1, NextChunk DEF Listening
  <2>3. Phases[v] = "body"
    BY <2>1 DEF Phases, PhaseOf
  <2>4. got' = [got EXCEPT ![v] = got[v] + 1]
    BY <1>8, <2>2 DEF BodyChunk
  <2>5. Abstract!Deliver(v)
    BY <1>u, <2>1, <2>2, <2>3, <2>4 DEF Abstract!Deliver, Phases
  <2> QED
    BY <2>5 DEF Abstract!Next
<1>9. CASE BodyEnd(v)
  <2>1. /\ Goto(v, "done") /\ got' = got /\ vis[v] = "body" /\ "done" \in VisStates
        /\ events[v] # <<>> /\ IsEnd(Head(events[v]))
    BY <1>9 DEF BodyEnd, VisStates, IsEnd
  <2>2. vis'[v] = "done"
    BY <2>1, PhaseChanges
  <2>3. PhaseOf(v) = "body" /\ PhaseOf(v)' = "finished"
    BY <2>1, <2>2 DEF PhaseOf
  <2>4. Phases[v] = "body" /\ Phases' = [Phases EXCEPT ![v] = "finished"] /\ UNCHANGED <<sent, got>>
    BY <1>2, <2>1, <2>3
  <2>5. got[v] = sent[v]
    BY <2>1, NextChunk DEF Listening
  <2>6. Abstract!Finish(v)
    BY <2>4, <2>5 DEF Abstract!Finish, Abstract!Moves, Phases
  <2> QED
    BY <2>6 DEF Abstract!Next
<1>10. CASE VisitorLeaves(v)
  <2>1. PICK x \in VisStates : Goto(v, x) /\ got' = got /\ x \in {"gone", "dropped"}
                               /\ vis[v] \in {"admit", "upload", "opening", "wait", "body"}
    BY <1>10 DEF VisitorLeaves, VisStates, Unsent
  <2>2. vis'[v] = x
    BY <2>1, PhaseChanges
  <2>3. PhaseOf(v) \in {"silent", "waiting", "body"} /\ PhaseOf(v)' = "left"
    BY <2>1, <2>2 DEF PhaseOf
  <2>4. PICK from \in {"silent", "waiting", "body"} : from = PhaseOf(v)
    BY <2>3
  <2>5. Phases[v] = from /\ Phases' = [Phases EXCEPT ![v] = "left"] /\ UNCHANGED <<sent, got>>
    BY <1>2, <2>1, <2>3, <2>4
  <2>6. Abstract!Leave(v)
    BY <2>5 DEF Abstract!Leave, Abstract!Moves, Phases
  <2> QED
    BY <2>6 DEF Abstract!Next
<1> QED
  BY <1>3, <1>4, <1>5, <1>6, <1>7, <1>8, <1>9, <1>10 DEF HandlerStep, UploadStep, TaskStep

LEMMA AnswerInit == Init => Abstract!Init
<1> SUFFICES ASSUME Init PROVE Abstract!Init
  OBVIOUS
<1>1. \A v \in Visitors : PhaseOf(v) = "silent"
  BY DEF Init, PhaseOf
<1> QED
  BY <1>1 DEF Init, Abstract!Init

LEMMA AnswerStep == IInv /\ [Next]_vars => [Abstract!Next]_<<Phases, sent, got>>
<1> SUFFICES ASSUME IInv, [Next]_vars PROVE [Abstract!Next]_<<Phases, sent, got>>
  OBVIOUS
<1>1. Protocol /\ Chunks
  BY DEF IInv
<1>2. ASSUME UNCHANGED <<vis, sent, got>> PROVE UNCHANGED <<Phases, sent, got>>
  BY <1>2 DEF Phases, PhaseOf
<1>3. ASSUME NEW v \in Visitors, ClientStep(v) PROVE [Abstract!Next]_<<Phases, sent, got>>
  <2>1. CASE ClientAbort(v) \/ ClientHead(v) \/ ClientEnd(v)
    BY <1>2, <2>1 DEF ClientAbort, ClientHead, ClientEnd, visVars
  <2>2. CASE ClientChunk(v)
    <3>1. vis' = vis /\ got' = got /\ work[v] = "head" /\ sent[v] < MaxChunks
          /\ sent' = [sent EXCEPT ![v] = @ + 1]
      BY <2>2 DEF ClientChunk, visVars
    <3>2. vis[v] # "done" /\ vis[v] \in VisStates
      BY <1>1, <3>1 DEF Chunks, Counts, Protocol, TypeOK
    <3>3. Phases' = Phases /\ Phases[v] # "finished"
      BY <3>1, <3>2 DEF Phases, PhaseOf, VisStates, Unsent, Failed
    <3>4. Abstract!Produce(v)
      BY <3>1, <3>3 DEF Abstract!Produce, Phases
    <3> QED
      BY <3>4 DEF Abstract!Next
  <2> QED
    BY <1>3, <2>1, <2>2 DEF ClientStep
<1>4. ASSUME NEW c \in ConnId,
             Connect(c) \/ LinkLost(c) \/ ServerCloses(c) \/ ServerRecv(c) \/ ClientTakes(c)
      PROVE  UNCHANGED <<Phases, sent, got>>
  BY <1>2, <1>4 DEF Connect, LinkLost, ServerCloses, ServerRecv, ClientTakes, RecvHeadOrChunk,
                    RecvEndOrAbort, TakeFrame, visVars
<1>5. CASE UNCHANGED vars
  BY <1>2, <1>5 DEF vars, visVars, connVars
<1> QED
  BY <1>1, <1>3, <1>4, <1>5, HandlerAnswers DEF Next

\* What a visitor observes is an answer as module VisitorAnswer promises it: at most one,
\* an error final, the chunks in order and none left out, the end behind the last.
THEOREM AnswersAsPromised == Spec => ImplementsAnswer
<1>1. IInv /\ [Next]_vars => [Abstract!Next]_<<[v \in Visitors |-> PhaseOf(v)], sent, got>>
  BY AnswerStep DEF Phases
<1> QED
  BY <1>1, AnswerInit, Inductive, PTL DEF Spec, ImplementsAnswer, Abstract!Spec
=============================================================================
