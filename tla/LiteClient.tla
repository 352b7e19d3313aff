----------------------------- MODULE LiteClient -----------------------------
(***************************************************************************)
(* tunnel-lite run: one control thread for each group of tunnels           *)
(* (runOnce), one thread for each TCP stream (handleTcpStream), and the    *)
(* table of streams that all groups share (g_streams).  What a worker of   *)
(* the pool does with an HTTP stream is module LocalPool; here it is one   *)
(* step, and so is every use of the local service.                         *)
(*                                                                         *)
(* A stream is one OpenStream of the server.  Its number on the wire is    *)
(* not its identity: a server that starts again counts from 1 again.  A    *)
(* message is handled in the step in which the server sends it.            *)
(***************************************************************************)
EXTENDS Naturals, Sequences, FiniteSets

CONSTANTS
  Groups,
  MaxStreams,  \* bound: streams the server opens
  MaxChunks,   \* bound: chunks the server sends on a stream
  MaxConnects, \* bound: control connections, of all groups
  Faults       \* what may go wrong in this instance

ASSUME LiteClientAssumption ==
  /\ IsFiniteSet(Groups)
  /\ MaxStreams \in Nat /\ MaxChunks \in Nat /\ MaxConnects \in Nat
  /\ Faults \subseteq {"lost", "restart", "refuse", "local_eof"}

Stream == 1 .. MaxStreams
None == 0

VARIABLES
  next_id,   \* next_stream_id of the server
  connects,  \* control connections made so far
  loop,      \* where the control thread of a group is
  shutting,  \* stream whose socket it is about to shut down
  g_streams, \* number |-> stream
  opened,    \* streams opened so far
  strm       \* struct Stream, its thread, and what the server has to say on it

vars == <<next_id, connects, loop, shutting, g_streams, opened, strm>>

Unborn == [id |-> None, group |-> None, toSend |-> 0, given |-> 0, thread |-> "none", alive |-> FALSE,
           closed |-> "none", shut |-> FALSE, pending |-> <<>>, written |-> <<>>, told |-> "none"]

Init ==
  /\ next_id = 1 /\ connects = 0 /\ opened = 0
  /\ loop = [g \in Groups |-> "top"]
  /\ shutting = [g \in Groups |-> None]
  /\ g_streams = [i \in Stream |-> None]
  /\ strm = [o \in Stream |-> Unborn]

-----------------------------------------------------------------------------
(* The table of streams, and frames to the server.                         *)

\* g_streamsMtx is held from the first stream that a leaving session closes to
\* the clearing of the table; every other use of the table is one step.
Unlocked == \A g \in Groups : loop[g] # "sweep"

Entry(o) == g_streams[strm[o].id]
Held == {g_streams[i] : i \in Stream} \ {None}

\* eraseStream: by number, whatever stream is there now.
Remove(o) == g_streams' = [g_streams EXCEPT ![strm[o].id] = None]

\* Session::send: nothing is sent once the session is over.
Reported(s, what) == IF s.alive THEN [s EXCEPT !.told = what] ELSE s

\* Stream::closed, and who set it first.
Closed(s, by) == IF s.closed = "none" THEN [s EXCEPT !.closed = by] ELSE s

\* shutdownAll: nothing to shut down before the local connection is made.
ShutDown(s) == [s EXCEPT !.shut = s.thread \in {"flush", "check", "read", "finish", "erase"}]

-----------------------------------------------------------------------------
(* runOnce, and the loop around it in main.                                *)

Goto(g, l) == loop' = [loop EXCEPT ![g] = l]

\* WebSocket::connect, the read timeout, and Register.
Connect(g) ==
  /\ loop[g] = "top" /\ connects < MaxConnects
  /\ connects' = connects + 1
  /\ Goto(g, "read")
  /\ UNCHANGED <<next_id, shutting, g_streams, opened, strm>>

\* The server cannot be reached, or refuses the handshake: no session, so nothing
\* to sweep.
ConnectFails(g) ==
  /\ loop[g] = "top" /\ connects < MaxConnects
  /\ connects' = connects + 1
  /\ Goto(g, "after")
  /\ UNCHANGED <<next_id, shutting, g_streams, opened, strm>>

\* An OpenStream for an HTTP or a TCP tunnel: into the table, then to the pool or
\* to a thread of its own; a tunnel the client does not have is refused.
OnOpenStream(g, proto) ==
  /\ loop[g] = "read" /\ Unlocked /\ opened < MaxStreams
  /\ LET o == opened + 1
         s == [Unborn EXCEPT !.id = next_id, !.group = g, !.alive = TRUE]
     IN  /\ opened' = o
         /\ CASE proto = "unknown" -> /\ strm' = [strm EXCEPT ![o] = Reported(s, "abort")]
                                      /\ UNCHANGED g_streams
              [] proto = "http" -> /\ strm' = [strm EXCEPT ![o] = [s EXCEPT !.thread = "job"]]
                                   /\ g_streams' = [g_streams EXCEPT ![next_id] = o]
              [] proto = "tcp" ->
                   /\ strm' = [strm EXCEPT ![o] =
                                [s EXCEPT !.thread = "connect", !.toSend = MaxChunks + 1]]
                   /\ g_streams' = [g_streams EXCEPT ![next_id] = o]
  /\ next_id' = next_id + 1
  /\ UNCHANGED <<connects, loop, shutting>>

\* Stream::connected.
Connected(s) == s.thread \in {"check", "read", "finish", "erase"}

\* Mutant: a chunk that comes before the local connection is dropped.
TakenIfConnected(s, n) ==
  IF Connected(s) THEN [s EXCEPT !.written = Append(@, n)] ELSE s

\* A chunk goes to the local service or waits for the connection, under
\* Stream::mtx.
Taken(s, n) ==
  IF Connected(s) THEN [s EXCEPT !.written = Append(@, n)] ELSE [s EXCEPT !.pending = Append(@, n)]

\* A chunk is for the stream the table has under its number.
OnChunk(g, o) ==
  /\ loop[g] = "read" /\ Unlocked /\ strm[o].group = g /\ strm[o].alive /\ strm[o].toSend > 1
  /\ LET n == strm[o].given + 1
         said == [strm EXCEPT ![o].toSend = @ - 1, ![o].given = n]
     IN  strm' = IF Entry(o) = None THEN said ELSE [said EXCEPT ![Entry(o)] = Taken(@, n)]
  /\ UNCHANGED <<next_id, connects, loop, shutting, g_streams, opened>>

\* A CloseStream: out of the table, Stream::closed, and only then the socket.
OnCloseStream(g, o) ==
  /\ loop[g] = "read" /\ Unlocked /\ strm[o].group = g /\ strm[o].alive /\ strm[o].toSend > 0
  /\ Remove(o)
  /\ LET said == [strm EXCEPT ![o].toSend = 0]
     IN  IF Entry(o) = None THEN strm' = said /\ UNCHANGED <<loop, shutting>>
           ELSE /\ strm' = [said EXCEPT ![Entry(o)] = Closed(@, "server")]
                /\ shutting' = [shutting EXCEPT ![g] = Entry(o)]
                /\ Goto(g, "shut")
  /\ UNCHANGED <<next_id, connects, opened>>

Shutdown(g) ==
  /\ loop[g] \in {"shut", "shut dead"}
  /\ strm' = [strm EXCEPT ![shutting[g]] = ShutDown(@)]
  /\ shutting' = [shutting EXCEPT ![g] = None]
  /\ Goto(g, IF loop[g] = "shut" THEN "read" ELSE "dead")
  /\ UNCHANGED <<next_id, connects, g_streams, opened>>

\* The link is lost or g_stop is seen: Session::alive is reset, then every stream
\* in the table is closed, whatever group it belongs to ...
LeaveSession(g) ==
  /\ loop[g] \in {"read", "dead"} /\ Unlocked
  /\ loop[g] = "dead" \/ "lost" \in Faults
  /\ strm' = [o \in Stream |->
       LET s == IF strm[o].group = g THEN [strm[o] EXCEPT !.alive = FALSE, !.toSend = 0] ELSE strm[o]
       IN  IF o \in Held THEN Closed(s, IF s.group = g THEN "own" ELSE "other") ELSE s]
  /\ Goto(g, "sweep")
  /\ UNCHANGED <<next_id, connects, shutting, g_streams, opened>>

\* Mutant: the table is cleared and its sockets are left open.
SweepTableOnly(g) ==
  /\ loop[g] = "sweep"
  /\ g_streams' = [i \in Stream |-> None]
  /\ Goto(g, "after")
  /\ UNCHANGED <<next_id, connects, shutting, opened, strm>>

\* ... and its socket shut down.
Sweep(g) ==
  /\ loop[g] = "sweep"
  /\ strm' = [o \in Stream |-> IF o \in Held THEN ShutDown(strm[o]) ELSE strm[o]]
  /\ g_streams' = [i \in Stream |-> None]
  /\ Goto(g, "after")
  /\ UNCHANGED <<next_id, connects, shutting, opened>>

\* Back to the top after a pause, or out of the loop: --no-reconnect or a signal.
After(g) ==
  /\ loop[g] = "after"
  /\ \E l \in {"top", "exited"} : Goto(g, l)
  /\ UNCHANGED <<next_id, connects, shutting, g_streams, opened, strm>>

\* No connection outlives the server, and numbers start from 1 again.
ServerRestarts ==
  /\ "restart" \in Faults /\ next_id > 1
  /\ next_id' = 1
  /\ loop' = [g \in Groups |-> CASE loop[g] = "read" -> "dead" [] loop[g] = "shut" -> "shut dead"
                                  [] OTHER -> loop[g]]
  /\ UNCHANGED <<connects, shutting, g_streams, opened, strm>>

Control(g) ==
  \/ Connect(g) \/ ConnectFails(g) \/ Shutdown(g) \/ LeaveSession(g) \/ Sweep(g) \/ After(g)
  \/ \E proto \in {"tcp", "http", "unknown"} : OnOpenStream(g, proto)
  \/ \E o \in 1 .. opened : OnChunk(g, o) \/ OnCloseStream(g, o)

-----------------------------------------------------------------------------
(* handleTcpStream.                                                        *)

Becomes(o, s) ==
  /\ strm' = [strm EXCEPT ![o] = s]
  /\ UNCHANGED <<next_id, connects, loop, shutting, g_streams, opened>>

At(o, l) == strm[o].thread = l
To(o, l) == [strm[o] EXCEPT !.thread = l]

LocalConnect(o) == At(o, "connect") /\ Becomes(o, To(o, "flush"))

\* Mutant: the thread just returns.
LocalConnectGivesUp(o) ==
  At(o, "connect") /\ "refuse" \in Faults /\ Becomes(o, To(o, "failed"))

\* The entry stays in the table until the server closes the stream.
LocalConnectFails(o) ==
  At(o, "connect") /\ "refuse" \in Faults /\ Becomes(o, Reported(To(o, "failed"), "abort"))

\* Stream::connected and the chunks that waited for it, under Stream::mtx.
Flush(o) ==
  /\ At(o, "flush")
  /\ Becomes(o, [To(o, "check") EXCEPT !.written = @ \o strm[o].pending, !.pending = <<>>])

Check(o) ==
  At(o, "check") /\ Becomes(o, To(o, IF strm[o].closed = "none" THEN "read" ELSE "finish"))

\* The local service sends something: a chunk, unless the session is over.
LocalSends(o) ==
  /\ At(o, "read") /\ ~strm[o].shut
  /\ Becomes(o, To(o, IF strm[o].alive THEN "check" ELSE "finish"))

\* readSome gives 0: the socket is shut down, or the service closed it.
ReadEnds(o) == At(o, "read") /\ strm[o].shut /\ Becomes(o, To(o, "finish"))
LocalCloses(o) == At(o, "read") /\ "local_eof" \in Faults /\ Becomes(o, To(o, "finish"))

\* End, unless the stream was closed from the other side.
Finish(o) ==
  /\ At(o, "finish")
  /\ LET s == To(o, "erase") IN Becomes(o, IF s.closed = "none" THEN Reported(s, "end") ELSE s)

\* Out of the table; what is left of the stream is that the server knows it.
Erase(o) ==
  /\ At(o, "erase") /\ Unlocked
  /\ Remove(o)
  /\ strm' = [strm EXCEPT ![o] = [Unborn EXCEPT !.id = strm[o].id, !.group = strm[o].group,
               !.alive = strm[o].alive, !.toSend = strm[o].toSend, !.thread = "done"]]
  /\ UNCHANGED <<next_id, connects, loop, shutting, opened>>

\* A worker has answered an HTTP stream: module LocalPool.
Answer(o) ==
  At(o, "job") /\ \E what \in {"end", "abort"} : Becomes(o, Reported(To(o, "erase"), what))

StreamThread(o) ==
  LocalConnect(o) \/ LocalConnectFails(o) \/ Flush(o) \/ Check(o) \/ ReadEnds(o) \/ Finish(o)
  \/ Erase(o) \/ Answer(o)

Next ==
  \/ ServerRestarts
  \/ \E g \in Groups : Control(g)
  \/ \E o \in 1 .. opened : StreamThread(o) \/ LocalSends(o) \/ LocalCloses(o)

Spec == Init /\ [][Next]_vars

-----------------------------------------------------------------------------
(* Properties.                                                             *)

\* After a restart the server gives out numbers again.
Clashes(o) == \E u \in 1 .. opened : u # o /\ strm[u].id = strm[o].id

\* A local TCP service that is still connected was given, or will be given,
\* every chunk the server sent on the stream, once and in order: whether it came
\* before or after the connection, and whatever other streams end meanwhile.  The
\* exception is a stream whose number was given out again.
NoChunkLost == \A o \in 1 .. opened :
  strm[o].thread \in {"connect", "flush", "check", "read"} /\ strm[o].closed = "none" /\ ~Clashes(o) =>
    strm[o].written \o strm[o].pending = [i \in 1 .. strm[o].given |-> i]

\* A thread that ends in a live session has told the server, unless the server
\* closed the stream or another group of tunnels did, by leaving its session.
EndReported == \A o \in 1 .. opened :
  strm[o].thread \in {"erase", "failed"} /\ strm[o].alive /\ strm[o].closed \notin {"server", "other"} =>
    strm[o].told # "none"

\* Someone is about to shut down the socket of a stream.
ShutAhead(o) == \E g \in Groups : shutting[g] = o \/ (loop[g] = "sweep" /\ o \in Held)

\* A thread never waits for a silent local service on a stream that was closed
\* from outside: the socket is shut down or is going to be, however the closing
\* falls between connecting, looking at Stream::closed and reading.
ClosedStreamsWake == \A o \in 1 .. opened :
  At(o, "read") /\ strm[o].closed # "none" => strm[o].shut \/ ShutAhead(o)

=============================================================================
