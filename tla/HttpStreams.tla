---------------------------- MODULE HttpStreams ----------------------------
(***************************************************************************)
(* The life of visitor requests to the HTTP tunnels of one user: the       *)
(* visitor handler (routes_visitor.rs), the pending table of the registry, *)
(* the user's stream counter (auth.rs), the control connection that routes *)
(* the client's frames (routes_ws.rs), and the client that answers.        *)
(*                                                                         *)
(* A stream is named by its visitor: next_stream_id never repeats a        *)
(* number.  The client is the one both clients implement: a head, chunks   *)
(* and an End, or one Abort before any head.                               *)
(***************************************************************************)
EXTENDS Naturals, Sequences, FiniteSets

CONSTANTS
  Visitors,
  MaxConn,     \* bound: the client connects at most this often
  MaxStreams,  \* MAX_STREAMS_PER_USER
  MaxChunks,   \* bound: chunks of one response body
  Faults       \* what may go wrong in this instance

ASSUME HttpStreamsAssumption ==
  /\ IsFiniteSet(Visitors)
  /\ MaxConn \in Nat /\ MaxChunks \in Nat
  /\ MaxStreams \in Nat \ {0}
  /\ Faults \subseteq {"abort", "timeout", "leave", "drop"}

ConnId == 1 .. MaxConn
NoConn == 0

VARIABLES
  \* the registry
  clients,   \* connections that have a sender
  route,     \* connection the tunnel's public name leads to
  pending,   \* streams with a sender in the pending table
  events,    \* the event channel of each stream
  active,    \* streams[user]: the counter stream_acquire limits
  \* visitor_handler
  vis,       \* where the handler of a visitor is, or its answer
  target,    \* connection the lookup found
  got,       \* number of the last chunk the visitor was given
  \* the control connections and the client
  link,      \* none, up, down (lost, not yet noticed by the server), closed
  to_client, \* OpenStream messages on the way
  to_server, \* frames on the way
  work,      \* what the client does with a stream
  sent       \* chunks the client has sent

visVars  == <<vis, target, got>>
regVars  == <<clients, route, pending, events, active>>
connVars == <<link, to_client, to_server, work, sent>>
vars     == <<visVars, regVars, connVars>>

Init ==
  /\ clients = {} /\ route = NoConn /\ pending = {} /\ active = 0
  /\ events = [v \in Visitors |-> <<>>]
  /\ vis = [v \in Visitors |-> "new"]
  /\ target = [v \in Visitors |-> NoConn]
  /\ got = [v \in Visitors |-> 0]
  /\ link = [c \in ConnId |-> "none"]
  /\ to_client = [c \in ConnId |-> <<>>]
  /\ to_server = [c \in ConnId |-> <<>>]
  /\ work = [v \in Visitors |-> "none"]
  /\ sent = [v \in Visitors |-> 0]

-----------------------------------------------------------------------------
(* AppState and Registry.                                                  *)

CanAcquire == active < MaxStreams

\* The counter after stream_release: it never goes below zero.
Released(n) == IF n > 0 THEN n - 1 ELSE 0

\* The receiver of a stream's events exists while its handler or body does.
Listening(v) == vis[v] \in {"opening", "wait", "body"}

\* route_event: into the channel of a pending stream; the send fails when the
\* receiver is gone.
RouteEvent(v, e) ==
  events' = IF v \in pending /\ Listening(v)
              THEN [events EXCEPT ![v] = Append(@, e)] ELSE events

-----------------------------------------------------------------------------
(* visitor_handler.                                                        *)

Goto(v, s) == vis' = [vis EXCEPT ![v] = s]

\* A request comes in and the route is looked up, once.
Arrive(v) ==
  /\ vis[v] = "new"
  /\ target' = [target EXCEPT ![v] = route]
  /\ Goto(v, IF route = NoConn THEN "404" ELSE "admit")
  /\ UNCHANGED <<got, regVars, connVars>>

\* The visitor is not let in, the rate limiter or the daily quota says no
\* (modules RateLimiter and UsageMeter), or the user has as many streams as
\* allowed: "429" stands for 401 and 403 too.
Refuse(v) ==
  /\ vis[v] = "admit"
  /\ Goto(v, "429")
  /\ UNCHANGED <<target, got, regVars, connVars>>

Acquire(v) ==
  /\ vis[v] = "admit" /\ CanAcquire
  /\ active' = active + 1
  /\ Goto(v, "upload")
  /\ UNCHANGED <<target, got, clients, route, pending, events, connVars>>

\* Mutant: an early return without stream_release.
BodyTooLargeKeepsSlot(v) ==
  /\ vis[v] = "upload"
  /\ Goto(v, "413")
  /\ UNCHANGED <<target, got, regVars, connVars>>

\* The request body is over 5 MB or breaks off.
BodyTooLarge(v) ==
  /\ vis[v] = "upload"
  /\ active' = Released(active)
  /\ Goto(v, "413")
  /\ UNCHANGED <<target, got, clients, route, pending, events, connVars>>

InsertPending(v) ==
  /\ vis[v] = "upload"
  /\ pending' = pending \cup {v}
  /\ Goto(v, "opening")
  /\ UNCHANGED <<target, got, clients, route, events, active, connVars>>

\* send_to_conn succeeds as long as the connection is registered, even if the
\* link is lost and nobody has noticed.
SendOpen(v) ==
  /\ vis[v] = "opening" /\ target[v] \in clients
  /\ to_client' = IF link[target[v]] = "up"
                    THEN [to_client EXCEPT ![target[v]] = Append(@, v)] ELSE to_client
  /\ Goto(v, "wait")
  /\ UNCHANGED <<target, got, regVars, link, to_server, work, sent>>

\* Every error path behind insert_pending: take_pending and stream_release.
GiveUp(v, answer) ==
  /\ pending' = pending \ {v}
  /\ active' = Released(active)
  /\ Goto(v, answer)
  /\ UNCHANGED <<target, got, clients, route, connVars>>

ClientOffline(v) ==
  /\ vis[v] = "opening" /\ target[v] \notin clients
  /\ GiveUp(v, "502")
  /\ UNCHANGED events

\* Mutants: the timer goes on behind the head; it runs for registered clients only.
TimeoutInBody(v) ==
  /\ "timeout" \in Faults
  /\ vis[v] \in {"wait", "body"} /\ events[v] = <<>>
  /\ GiveUp(v, "504")
  /\ UNCHANGED events

TimeoutOfRegistered(v) ==
  /\ "timeout" \in Faults
  /\ vis[v] = "wait" /\ events[v] = <<>> /\ target[v] \in clients
  /\ GiveUp(v, "504")
  /\ UNCHANGED events

\* Nothing arrived for 30 seconds.
Timeout(v) ==
  /\ "timeout" \in Faults
  /\ vis[v] = "wait" /\ events[v] = <<>>
  /\ GiveUp(v, "504")
  /\ UNCHANGED events

\* The first event is not a head: Abort, End, a chunk.
BadFirstEvent(v) ==
  /\ vis[v] = "wait" /\ events[v] # <<>> /\ Head(events[v]).kind # "head"
  /\ GiveUp(v, "502")
  /\ events' = [events EXCEPT ![v] = Tail(@)]

FirstHead(v) ==
  /\ vis[v] = "wait" /\ events[v] # <<>> /\ Head(events[v]).kind = "head"
  /\ events' = [events EXCEPT ![v] = Tail(@)]
  /\ Goto(v, "body")
  /\ UNCHANGED <<target, got, clients, route, pending, active, connVars>>

\* The body stream: a chunk is passed on.
BodyChunk(v) ==
  /\ vis[v] = "body" /\ events[v] # <<>> /\ Head(events[v]).kind = "chunk"
  /\ got' = [got EXCEPT ![v] = Head(events[v]).number]
  /\ events' = [events EXCEPT ![v] = Tail(@)]
  /\ UNCHANGED <<vis, target, clients, route, pending, active, connVars>>

\* Mutant: the body gives the slot back as well.
BodyEndReleases(v) ==
  /\ vis[v] = "body" /\ events[v] # <<>> /\ Head(events[v]).kind \in {"end", "abort"}
  /\ events' = [events EXCEPT ![v] = Tail(@)]
  /\ active' = Released(active)
  /\ Goto(v, "done")
  /\ UNCHANGED <<target, got, clients, route, pending, connVars>>

\* End or Abort ends the body; the slot is left to routes_ws.
BodyEnd(v) ==
  /\ vis[v] = "body" /\ events[v] # <<>> /\ Head(events[v]).kind \in {"end", "abort"}
  /\ events' = [events EXCEPT ![v] = Tail(@)]
  /\ Goto(v, "done")
  /\ UNCHANGED <<target, got, clients, route, pending, active, connVars>>

\* The visitor hangs up: the handler, or the body stream, is dropped at the await
\* it is in, and nothing else happens.  Dropped at one of the registry's locks
\* between stream_acquire and send_to_conn, a handler leaves a stream nobody
\* else knows of.
VisitorLeaves(v) ==
  /\ "leave" \in Faults
  /\ vis[v] \in {"admit", "upload", "opening", "wait", "body"}
  /\ Goto(v, IF vis[v] \in {"upload", "opening"} THEN "dropped" ELSE "gone")
  /\ events' = [events EXCEPT ![v] = <<>>]
  /\ UNCHANGED <<target, got, clients, route, pending, active, connVars>>

-----------------------------------------------------------------------------
(* handle_socket: one frame of the client at a time, in order.             *)

Frame(c) == Head(to_server[c])

TakeFrame(c) ==
  /\ link[c] \in {"up", "down"} /\ to_server[c] # <<>>
  /\ to_server' = [to_server EXCEPT ![c] = Tail(@)]
  /\ UNCHANGED <<visVars, clients, route, link, to_client, work, sent>>

RecvHeadOrChunk(c) ==
  /\ TakeFrame(c)
  /\ Frame(c).kind \in {"head", "chunk"}
  /\ RouteEvent(Frame(c).stream, Frame(c))
  /\ UNCHANGED <<pending, active>>

\* Mutant: take_pending before route_event, which then finds no channel.
RecvEndOrAbortSwapped(c) ==
  /\ TakeFrame(c)
  /\ Frame(c).kind \in {"end", "abort"}
  /\ pending' = pending \ {Frame(c).stream}
  /\ active' = Released(active)
  /\ UNCHANGED events

\* End and Abort: route_event, take_pending, stream_release - the release
\* whether or not the stream was still pending.
RecvEndOrAbort(c) ==
  /\ TakeFrame(c)
  /\ Frame(c).kind \in {"end", "abort"}
  /\ RouteEvent(Frame(c).stream, Frame(c))
  /\ pending' = pending \ {Frame(c).stream}
  /\ active' = Released(active)

\* The client connects and registers its tunnel; an earlier connection the
\* server still holds for alive loses the route.
Connect(c) ==
  /\ link[c] = "none" /\ \A d \in ConnId : d < c => link[d] \in {"down", "closed"}
  /\ link' = [link EXCEPT ![c] = "up"]
  /\ clients' = clients \cup {c}
  /\ route' = c
  /\ UNCHANGED <<visVars, pending, events, active, to_client, to_server, work, sent>>

\* The link is lost: the client drops its streams, nothing more gets through.
LinkLost(c) ==
  /\ "drop" \in Faults
  /\ link[c] = "up"
  /\ link' = [link EXCEPT ![c] = "down"]
  /\ to_client' = [to_client EXCEPT ![c] = <<>>]
  /\ work' = [v \in Visitors |-> IF target[v] = c /\ work[v] \in {"busy", "head"}
                                   THEN "dead" ELSE work[v]]
  /\ UNCHANGED <<visVars, regVars, to_server, sent>>

\* The server notices: frames not read are lost, remove_client clears the
\* route by its name, whoever serves it now.  The pending table is not touched.
ServerCloses(c) ==
  /\ link[c] = "down"
  /\ link' = [link EXCEPT ![c] = "closed"]
  /\ to_server' = [to_server EXCEPT ![c] = <<>>]
  /\ clients' = clients \ {c}
  /\ route' = NoConn
  /\ UNCHANGED <<visVars, pending, events, active, to_client, work, sent>>

-----------------------------------------------------------------------------
(* The client: Forwarder and onOpenStream, or handleHttpStream.            *)

Up(v) == target[v] \in ConnId /\ link[target[v]] = "up"

SendFrame(v, kind, n) ==
  to_server' = [to_server EXCEPT ![target[v]] =
                  Append(@, [stream |-> v, kind |-> kind, number |-> n])]

ClientTakes(c) ==
  /\ link[c] = "up" /\ to_client[c] # <<>>
  /\ work' = [work EXCEPT ![Head(to_client[c])] = "busy"]
  /\ to_client' = [to_client EXCEPT ![c] = Tail(@)]
  /\ UNCHANGED <<visVars, regVars, link, to_server, sent>>

\* Unknown tunnel, or the local service cannot be reached or does not answer.
ClientAbort(v) ==
  /\ "abort" \in Faults
  /\ work[v] = "busy" /\ Up(v)
  /\ SendFrame(v, "abort", 0)
  /\ work' = [work EXCEPT ![v] = "over"]
  /\ UNCHANGED <<visVars, regVars, link, to_client, sent>>

ClientHead(v) ==
  /\ work[v] = "busy" /\ Up(v)
  /\ SendFrame(v, "head", 0)
  /\ work' = [work EXCEPT ![v] = "head"]
  /\ UNCHANGED <<visVars, regVars, link, to_client, sent>>

ClientChunk(v) ==
  /\ work[v] = "head" /\ Up(v) /\ sent[v] < MaxChunks
  /\ SendFrame(v, "chunk", sent[v] + 1)
  /\ sent' = [sent EXCEPT ![v] = @ + 1]
  /\ UNCHANGED <<visVars, regVars, link, to_client, work>>

ClientEnd(v) ==
  /\ work[v] = "head" /\ Up(v)
  /\ SendFrame(v, "end", 0)
  /\ work' = [work EXCEPT ![v] = "over"]
  /\ UNCHANGED <<visVars, regVars, link, to_client, sent>>

-----------------------------------------------------------------------------

\* to_bytes waits for the visitor, who may take as long as he likes.
UploadStep(v) == BodyTooLarge(v) \/ InsertPending(v)

\* What the handler and the body do without the visitor.
TaskStep(v) ==
  \/ Acquire(v) \/ Refuse(v)
  \/ SendOpen(v) \/ ClientOffline(v) \/ Timeout(v) \/ BadFirstEvent(v)
  \/ FirstHead(v) \/ BodyChunk(v) \/ BodyEnd(v)

HandlerStep(v) == UploadStep(v) \/ TaskStep(v)

ServerRecv(c) == RecvHeadOrChunk(c) \/ RecvEndOrAbort(c)

ClientStep(v) == ClientAbort(v) \/ ClientHead(v) \/ ClientChunk(v) \/ ClientEnd(v)

Next ==
  \/ \E v \in Visitors : Arrive(v) \/ HandlerStep(v) \/ VisitorLeaves(v) \/ ClientStep(v)
  \/ \E c \in ConnId :
       Connect(c) \/ LinkLost(c) \/ ServerCloses(c) \/ ServerRecv(c) \/ ClientTakes(c)

Spec == Init /\ [][Next]_vars

\* The server's tasks run, its timers fire and it notices lost links; a client
\* whose link is up takes its messages and ends a body it has begun.  Nobody owes
\* anybody a visit, an upload, a fault, or a local service's answer.
Fairness ==
  /\ \A v \in Visitors : WF_vars(TaskStep(v))
  /\ \A c \in ConnId : WF_vars(ServerRecv(c)) /\ WF_vars(ServerCloses(c)) /\ WF_vars(ClientTakes(c))
  /\ \A v \in Visitors : WF_vars(ClientEnd(v))

FairSpec == Spec /\ Fairness

-----------------------------------------------------------------------------
(* Properties.                                                             *)

\* The End or Abort of a stream is on its way, or the client is still to send it.
EndMayCome(v) ==
  LET c == target[v] IN
  \/ \E i \in DOMAIN to_server[c] :
       to_server[c][i].stream = v /\ to_server[c][i].kind \in {"end", "abort"}
  \/ /\ link[c] = "up"
     /\ work[v] \in {"busy", "head"} \/ \E i \in DOMAIN to_client[c] : to_client[c][i] = v

\* Streams with a slot that somebody can still give back: the handler until it
\* has its head, and the control channel for a stream that is pending.
SlotHolders ==
  {v \in Visitors : vis[v] = "upload"}
  \cup {v \in pending : vis[v] \in {"opening", "wait"} \/ EndMayCome(v)}

\* Streams whose slot is lost for good: the handler was dropped before its
\* OpenStream, or the link went while the body ran or the visitor had left -
\* remove_client leaves their pending entries, and nobody else looks at them.
Stranded ==
  {v \in Visitors : vis[v] = "dropped"}
  \cup {v \in pending : vis[v] \in {"body", "gone"} /\ link[target[v]] # "up"}

\* Every slot is accounted for.  A slot is kept only by a stream somebody can
\* still release and by the stranded ones, and it is given back twice only for a
\* stream that failed behind insert_pending (502, 504) and no more than once for
\* each: two tasks share the duty to release, and on every other path - regular
\* ends, refused uploads, visitors that leave while the link holds - exactly one
\* of them does.
SlotsAccounted ==
  LET taken == Cardinality(SlotHolders \cup Stranded) IN
  /\ active <= taken
  /\ taken <= active + Cardinality({v \in Visitors : vis[v] \in {"502", "504"}})

\* The visitor sees an answer as module VisitorAnswer promises it, in order and,
\* if it ends regularly, complete, although frames, lookups, timers and closes of
\* other streams and connections interleave.
PhaseOf(v) ==
  CASE vis[v] \in {"new", "admit", "upload"} -> "silent"
    [] vis[v] \in {"404", "413", "429"}      -> "refused"
    [] vis[v] \in {"opening", "wait"}        -> "waiting"
    [] vis[v] \in {"502", "504"}             -> "failed"
    [] vis[v] = "body"                       -> "body"
    [] vis[v] = "done"                       -> "finished"
    [] vis[v] \in {"gone", "dropped"}        -> "left"

Abstract == INSTANCE VisitorAnswer WITH
              phase <- [v \in Visitors |-> PhaseOf(v)], produced <- sent, delivered <- got
ImplementsAnswer == Abstract!Spec

Answers == {"404", "413", "429", "502", "504", "done", "gone", "dropped"}

\* Once the visitor has sent his request, it is answered or he leaves: at the
\* latest the 30 s timer ends the wait for a head, whatever became of the client.
\* Before that only the visitor himself can keep it waiting, with his upload.
EventuallyAnswered ==
  \A v \in Visitors :
    vis[v] \in {"admit", "opening"} ~> vis[v] \in Answers \cup {"upload", "body"}

\* While the link of its connection holds, a response that has begun ends.
BodyEndsOnLiveLink ==
  \A v \in Visitors :
    vis[v] = "body" ~> vis[v] # "body" \/ link[target[v]] # "up"
=============================================================================
