----------------------------- MODULE LocalPool -----------------------------
(***************************************************************************)
(* How tunnel-lite answers HTTP streams from a local service: the queue    *)
(* and the worker threads of class Pool, which run handleHttpStream, the   *)
(* pool of idle keep-alive connections they share (class LocalPool), and   *)
(* the service at the other end, which may close a connection whenever it  *)
(* likes (main.cpp, net.cpp).                                              *)
(*                                                                         *)
(* A response is a sequence of pieces, as coarse as the reading loop can   *)
(* tell apart; each piece carries the request it answers.                  *)
(***************************************************************************)
EXTENDS Naturals, Sequences, FiniteSets

CONSTANTS
  Reqs,
  Workers,   \* the threads of Pool
  MaxSock,   \* bound: connections made to the service
  MaxIdle,   \* kMaxIdle
  MaxData,   \* bound: pieces of data in a response
  Framings,  \* how the service may frame a response
  Faults     \* what may go wrong in this instance

ASSUME LocalPoolAssumption ==
  /\ IsFiniteSet(Reqs) /\ IsFiniteSet(Workers) /\ Workers # {}
  /\ Reqs \cap {"check", "wait", "exited"} = {}
  /\ MaxSock \in Nat /\ MaxIdle \in Nat /\ MaxData \in Nat \ {0}
  /\ Framings \subseteq {"length", "length_close", "chunked", "until_close", "bodiless", "bare"}
  /\ Faults \subseteq {"refuse", "expire", "idle_close", "drop", "break", "split"}

Sock == 1 .. MaxSock
NoSock == 0

VARIABLES
  q,         \* jobs of Pool
  worker,    \* a worker: check, wait (on the condition variable), exited, or its job
  stop_,     \* whether Pool is to stop
  idle,      \* LocalPool::idle_: a stack of connections
  pc,        \* where the worker of a request is
  attempt,   \* its attempt
  reused,    \* whether its connection came from the pool
  conn,      \* its connection
  keep,      \* keepAlive
  left,      \* data still owed under Content-Length
  frames,    \* what was sent on the control channel
  svc,       \* the service's end of a connection: none, open, closed
  inbox,     \* requests the service has not taken yet
  answering, \* rest of the response the service is writing
  wire,      \* pieces the worker may read
  cut,       \* history: connections on which a CRLF was read half
  broken     \* history: connections closed inside a response

jobVars    == <<q, worker, stop_>>
poolVars   == <<idle, jobVars>>
workerVars == <<pc, attempt, reused, conn, keep, left, frames>>
svcVars    == <<svc, inbox, answering>>
history    == <<cut, broken>>
vars       == <<poolVars, workerVars, svcVars, wire, history>>

Init ==
  /\ q = <<>> /\ stop_ = FALSE
  /\ worker = [w \in Workers |-> "check"]
  /\ idle = <<>>
  /\ pc = [r \in Reqs |-> "none"]
  /\ attempt = [r \in Reqs |-> 0]
  /\ reused = [r \in Reqs |-> FALSE]
  /\ conn = [r \in Reqs |-> NoSock]
  /\ keep = [r \in Reqs |-> FALSE]
  /\ left = [r \in Reqs |-> 0]
  /\ frames = [r \in Reqs |-> <<>>]
  /\ svc = [s \in Sock |-> "none"]
  /\ inbox = [s \in Sock |-> <<>>]
  /\ answering = [s \in Sock |-> <<>>]
  /\ wire = [s \in Sock |-> <<>>]
  /\ cut = {} /\ broken = {}

Goto(r, l) == pc' = [pc EXCEPT ![r] = l]

\* WebSocket::sendText or sendBinary under sendMtx; a dead session is ignored.
Send(r, kind, of) == frames' = [frames EXCEPT ![r] = Append(@, [kind |-> kind, of |-> of])]

-----------------------------------------------------------------------------
(* Pool.                                                                   *)

Waiting == {w \in Workers : worker[w] = "wait"}

\* submit, by a control thread: a job, and notify_one.
Submit(r) ==
  /\ pc[r] = "none" /\ ~stop_
  /\ q' = Append(q, r)
  /\ IF Waiting = {} THEN UNCHANGED worker
       ELSE \E w \in Waiting : worker' = [worker EXCEPT ![w] = "check"]
  /\ Goto(r, "queued")
  /\ UNCHANGED <<stop_, idle, attempt, reused, conn, keep, left, frames, svcVars, wire, history>>

Free(w) == worker[w] = "check" \/ (worker[w] \in Reqs /\ pc[worker[w]] = "done")

\* A worker that has done its job, or was woken, looks at the predicate of
\* cv_.wait: jobs that are left when the pool is to stop are still done.
Fetch(w) ==
  /\ Free(w)
  /\ IF q # <<>> THEN /\ q' = Tail(q)
                      /\ worker' = [worker EXCEPT ![w] = Head(q)]
                      /\ Goto(Head(q), "new")
                 ELSE /\ worker' = [worker EXCEPT ![w] = IF stop_ THEN "exited" ELSE "wait"]
                      /\ UNCHANGED <<q, pc>>
  /\ UNCHANGED <<stop_, idle, attempt, reused, conn, keep, left, frames, svcVars, wire, history>>

\* Mutant: one worker is woken.
StopNotifyOne ==
  /\ ~stop_
  /\ stop_' = TRUE
  /\ IF Waiting = {} THEN UNCHANGED worker
       ELSE \E w \in Waiting : worker' = [worker EXCEPT ![w] = "check"]
  /\ UNCHANGED <<q, idle, workerVars, svcVars, wire, history>>

\* stop, when the control threads have ended: all workers are woken, and joined.
Stop ==
  /\ ~stop_
  /\ stop_' = TRUE
  /\ worker' = [w \in Workers |-> IF worker[w] = "wait" THEN "check" ELSE worker[w]]
  /\ UNCHANGED <<q, idle, workerVars, svcVars, wire, history>>

-----------------------------------------------------------------------------
(* LocalPool and handleHttpStream.                                         *)

\* acquire: the connection released last.
Acquire(r) ==
  /\ pc[r] = "new" /\ idle # <<>>
  /\ conn' = [conn EXCEPT ![r] = idle[Len(idle)]]
  /\ idle' = SubSeq(idle, 1, Len(idle) - 1)
  /\ reused' = [reused EXCEPT ![r] = TRUE]
  /\ Goto(r, "write")
  /\ UNCHANGED <<jobVars, attempt, keep, left, frames, svcVars, wire, history>>

\* acquire finds none, or only connections idle for over kIdleSecs: when the
\* one released last is too old, all of them are, and all are dropped.
AcquireNone(r) ==
  /\ pc[r] = "new" /\ (idle = <<>> \/ "expire" \in Faults)
  /\ idle' = <<>>
  /\ reused' = [reused EXCEPT ![r] = FALSE]
  /\ Goto(r, "connect")
  /\ UNCHANGED <<jobVars, attempt, conn, keep, left, frames, svcVars, wire, history>>

\* Socket::connectTo.
Connect(r) ==
  /\ pc[r] = "connect"
  /\ \E s \in Sock :
       /\ svc[s] = "none" /\ \A u \in Sock : u < s => svc[u] # "none"
       /\ conn' = [conn EXCEPT ![r] = s]
       /\ svc' = [svc EXCEPT ![s] = "open"]
  /\ Goto(r, "write")
  /\ UNCHANGED <<poolVars, attempt, reused, keep, left, frames, inbox, answering, wire, history>>

ConnectFails(r) ==
  /\ pc[r] = "connect"
  /\ "refuse" \in Faults \/ \A s \in Sock : svc[s] # "none"
  /\ Send(r, "abort", r)
  /\ Goto(r, "done")
  /\ UNCHANGED <<poolVars, attempt, reused, conn, keep, left, svcVars, wire, history>>

\* The request is written.  The kernel also takes it when the service has
\* closed its end and the reset is not here yet.
Write(r) ==
  /\ pc[r] = "write"
  /\ inbox' = IF svc[conn[r]] = "open" THEN [inbox EXCEPT ![conn[r]] = Append(@, r)] ELSE inbox
  /\ Goto(r, "head")
  /\ UNCHANGED <<poolVars, attempt, reused, conn, keep, left, frames, svc, answering, wire, history>>

\* Only a connection from the pool may be stale, and only once.
MayRetry(r) == reused[r] /\ attempt[r] = 0

\* Mutant: the connection is lost after the head and the request is retried.
FailMidAnswer(r) ==
  /\ pc[r] \in {"write", "head", "length"} /\ svc[conn[r]] = "closed"
  /\ pc[r] # "write" => wire[conn[r]] = <<>>
  /\ attempt' = [attempt EXCEPT ![r] = 1]
  /\ IF MayRetry(r) THEN /\ Goto(r, "new") /\ UNCHANGED frames
                    ELSE /\ Goto(r, "done") /\ Send(r, "abort", r)
  /\ UNCHANGED <<poolVars, reused, conn, keep, left, svcVars, wire, history>>

\* runHttpOnce returns Retry: the write fails, or no head arrives.
Fail(r) ==
  /\ pc[r] \in {"write", "head"} /\ svc[conn[r]] = "closed"
  /\ pc[r] = "head" => wire[conn[r]] = <<>>
  /\ attempt' = [attempt EXCEPT ![r] = 1]
  /\ IF MayRetry(r) THEN /\ Goto(r, "new") /\ UNCHANGED frames
                    ELSE /\ Goto(r, "done") /\ Send(r, "abort", r)
  /\ UNCHANGED <<poolVars, reused, conn, keep, left, svcVars, wire, history>>

-----------------------------------------------------------------------------
(* runHttpOnce: reading the response.                                      *)

Piece(r)   == Head(wire[conn[r]])
Readable(r, what) == wire[conn[r]] # <<>> /\ Piece(r).what \in what
Take(r)    == wire' = [wire EXCEPT ![conn[r]] = Tail(@)]
\* readSome returns 0 or -1.
EndOfInput(r) == wire[conn[r]] = <<>> /\ svc[conn[r]] = "closed"

\* Whether the end of the response can be told and the peer keeps the connection.
KeepAlive(framing) == framing \in {"length", "chunked", "bodiless"}

\* The loop that reads the body of a response framed so.
Body(framing) == CASE framing = "chunked" -> "size"
                   [] framing \in {"until_close", "bare"} -> "stream"
                   [] OTHER -> "length"

\* readHttpHead and the loop over the header lines.  The answer to a HEAD
\* request ("bodiless") has a length and no body: the reader expects one.  A 204 or
\* 304 ("bare") has neither, and the reader takes it for one that ends with the
\* connection, though the service means to keep that open.
ReadHead(r) ==
  /\ pc[r] = "head" /\ Readable(r, Framings)
  /\ Take(r)
  /\ Send(r, "head", Piece(r).of)
  /\ keep' = [keep EXCEPT ![r] = KeepAlive(Piece(r).what)]
  /\ left' = [left EXCEPT ![r] = MaxData]
  /\ Goto(r, Body(Piece(r).what))
  /\ UNCHANGED <<poolVars, attempt, reused, conn, svcVars, history>>

\* What an earlier response left behind is read as the head, up to the next
\* empty line: no status, no length, so the rest is read until closed.
ReadJunkHead(r) ==
  /\ pc[r] = "head" /\ Readable(r, {"size", "data", "crlf", "cr", "lf", "last"})
  /\ Take(r)
  /\ IF Piece(r).what = "last" THEN /\ Send(r, "head", Piece(r).of) /\ Goto(r, "stream")
                               ELSE UNCHANGED <<pc, frames>>
  /\ keep' = [keep EXCEPT ![r] = FALSE]
  /\ UNCHANGED <<poolVars, attempt, reused, conn, left, svcVars, history>>

\* Mutant: the empty line after the last chunk is not read.
ReadSizeOnly(r) ==
  /\ pc[r] = "size"
  /\ \/ Readable(r, {"size"}) /\ Take(r) /\ Goto(r, "data")
     \/ Readable(r, {"lf", "last"}) /\ UNCHANGED wire /\ Goto(r, "end")
     \/ EndOfInput(r) /\ UNCHANGED wire /\ Goto(r, "end")
  /\ UNCHANGED <<poolVars, attempt, reused, conn, keep, left, frames, svcVars, history>>

\* The size line of a chunk.  An empty line, which is also what a closed
\* connection gives, ends the response like the last chunk does, and the
\* connection keeps its keepAlive.
ReadSize(r) ==
  /\ pc[r] = "size"
  /\ \/ Readable(r, {"size"}) /\ Take(r) /\ Goto(r, "data")
     \/ Readable(r, {"lf", "last"}) /\ Take(r) /\ Goto(r, "end")
     \/ EndOfInput(r) /\ UNCHANGED wire /\ Goto(r, "end")
  /\ UNCHANGED <<poolVars, attempt, reused, conn, keep, left, frames, svcVars, history>>

ReadChunk(r) ==
  /\ pc[r] = "data"
  /\ \/ Readable(r, {"data"}) /\ Take(r) /\ Send(r, "chunk", Piece(r).of)
     \/ EndOfInput(r) /\ UNCHANGED <<wire, frames>>
  /\ Goto(r, "crlf")
  /\ UNCHANGED <<poolVars, attempt, reused, conn, keep, left, svcVars, history>>

\* readSome(crlf, 2) is content with one byte when the other is not here yet.
ReadCrlf(r) ==
  /\ pc[r] = "crlf"
  /\ \/ Readable(r, {"crlf"}) /\ Take(r) /\ UNCHANGED cut
     \/ /\ Readable(r, {"cr"})
        /\ IF Len(wire[conn[r]]) > 1
             THEN wire' = [wire EXCEPT ![conn[r]] = Tail(Tail(@))] /\ UNCHANGED cut
             ELSE Take(r) /\ cut' = cut \cup {conn[r]}
     \/ EndOfInput(r) /\ UNCHANGED <<wire, cut>>
  /\ Goto(r, "size")
  /\ UNCHANGED <<poolVars, attempt, reused, conn, keep, left, frames, svcVars, broken>>

\* Mutant: a response that breaks off is not noticed and the loop reads on.
ReadLengthOnly(r) ==
  /\ pc[r] = "length"
  /\ Readable(r, {"data"}) /\ Take(r) /\ Send(r, "chunk", Piece(r).of)
  /\ left' = [left EXCEPT ![r] = @ - 1]
  /\ Goto(r, IF left[r] = 1 THEN "end" ELSE "length")
  /\ UNCHANGED <<poolVars, attempt, reused, conn, keep, svcVars, history>>

\* A body of Content-Length bytes; one that breaks off is not reused.
ReadLength(r) ==
  /\ pc[r] = "length"
  /\ \/ /\ Readable(r, {"data"}) /\ Take(r) /\ Send(r, "chunk", Piece(r).of)
        /\ left' = [left EXCEPT ![r] = @ - 1]
        /\ Goto(r, IF left[r] = 1 THEN "end" ELSE "length")
        /\ UNCHANGED keep
     \/ /\ EndOfInput(r)
        /\ keep' = [keep EXCEPT ![r] = FALSE]
        /\ Goto(r, "end")
        /\ UNCHANGED <<wire, left, frames>>
  /\ UNCHANGED <<poolVars, attempt, reused, conn, svcVars, history>>

\* Mutant: the body is what can be read at once.
ReadStreamOnce(r) ==
  /\ pc[r] = "stream"
  /\ IF wire[conn[r]] = <<>> THEN Goto(r, "end") /\ UNCHANGED <<wire, frames>>
       ELSE Take(r) /\ Send(r, "chunk", Piece(r).of) /\ UNCHANGED pc
  /\ UNCHANGED <<poolVars, attempt, reused, conn, keep, left, svcVars, history>>

\* A body that ends when the connection does: whatever can be read.
ReadStream(r) ==
  /\ pc[r] = "stream"
  /\ \/ /\ wire[conn[r]] # <<>> /\ Take(r) /\ Send(r, "chunk", Piece(r).of)
        /\ UNCHANGED <<pc, keep>>
     \/ /\ EndOfInput(r)
        /\ keep' = [keep EXCEPT ![r] = FALSE]
        /\ Goto(r, "end")
        /\ UNCHANGED <<wire, frames>>
  /\ UNCHANGED <<poolVars, attempt, reused, conn, left, svcVars, history>>

End(r) ==
  /\ pc[r] = "end"
  /\ Send(r, "end", r)
  /\ Goto(r, "release")
  /\ UNCHANGED <<poolVars, attempt, reused, conn, keep, left, svcVars, wire, history>>

\* release: over kMaxIdle the connection is closed instead.
Release(r) ==
  /\ pc[r] = "release"
  /\ idle' = IF keep[r] /\ Len(idle) < MaxIdle THEN Append(idle, conn[r]) ELSE idle
  /\ Goto(r, "done")
  /\ UNCHANGED <<jobVars, attempt, reused, conn, keep, left, frames, svcVars, wire, history>>

Worker(r) ==
  \/ Acquire(r) \/ AcquireNone(r) \/ Connect(r) \/ ConnectFails(r) \/ Write(r) \/ Fail(r)
  \/ ReadHead(r) \/ ReadJunkHead(r) \/ ReadSize(r) \/ ReadChunk(r) \/ ReadCrlf(r)
  \/ ReadLength(r) \/ ReadStream(r) \/ End(r) \/ Release(r)

-----------------------------------------------------------------------------
(* The local service.                                                      *)

Repeat(unit) == [i \in 1 .. MaxData * Len(unit) |-> unit[((i - 1) % Len(unit)) + 1]]

\* The pieces of a response that follow its head; "fin" closes the connection.
Pieces(framing) ==
  CASE framing = "chunked"  -> Append(Repeat(<<"size", "data", "crlf">>), "last")
    [] framing \in {"bodiless", "bare"} -> <<>>
    [] framing = "length"   -> Repeat(<<"data">>)
    [] OTHER                -> Append(Repeat(<<"data">>), "fin")

Response(r, framing) ==
  LET whats == <<framing>> \o Pieces(framing)
  IN  [i \in 1 .. Len(whats) |-> [what |-> whats[i], of |-> r]]

\* It takes the requests of a connection one after the other.
SvcTake(s) ==
  /\ svc[s] = "open" /\ inbox[s] # <<>> /\ answering[s] = <<>>
  /\ \E f \in Framings : answering' = [answering EXCEPT ![s] = Response(Head(inbox[s]), f)]
  /\ inbox' = [inbox EXCEPT ![s] = Tail(@)]
  /\ UNCHANGED <<poolVars, workerVars, svc, wire, history>>

Shut(s) ==
  /\ svc' = [svc EXCEPT ![s] = "closed"]
  /\ inbox' = [inbox EXCEPT ![s] = <<>>]
  /\ answering' = [answering EXCEPT ![s] = <<>>]

\* A piece arrives; the two bytes of a CRLF may arrive in two segments.
SvcWrite(s) ==
  /\ answering[s] # <<>>
  /\ LET p == Head(answering[s])
         Half(w) == [what |-> w, of |-> p.of]
     IN  \/ p.what = "fin" /\ Shut(s) /\ UNCHANGED wire
         \/ /\ p.what # "fin"
            /\ wire' = [wire EXCEPT ![s] = Append(@, p)]
            /\ answering' = [answering EXCEPT ![s] = Tail(@)]
            /\ UNCHANGED <<svc, inbox>>
         \/ /\ p.what = "crlf" /\ "split" \in Faults
            /\ wire' = [wire EXCEPT ![s] = Append(@, Half("cr"))]
            /\ answering' = [answering EXCEPT ![s] = <<Half("lf")>> \o Tail(@)]
            /\ UNCHANGED <<svc, inbox>>
  /\ UNCHANGED <<poolVars, workerVars, history>>

\* It closes a connection it finds idle, instead of taking a request, or in the
\* middle of a response.
SvcClose(s) ==
  /\ svc[s] = "open" /\ Shut(s)
  /\ \/ "idle_close" \in Faults /\ answering[s] = <<>> /\ inbox[s] = <<>> /\ UNCHANGED broken
     \/ "drop" \in Faults /\ answering[s] = <<>> /\ inbox[s] # <<>> /\ UNCHANGED broken
     \/ /\ "break" \in Faults /\ answering[s] # <<>> /\ Head(answering[s]).what # "fin"
        /\ broken' = broken \cup {s}
  /\ UNCHANGED <<poolVars, workerVars, wire, cut>>

Next ==
  \/ Stop
  \/ \E w \in Workers : Fetch(w)
  \/ \E r \in Reqs : Submit(r) \/ Worker(r)
  \/ \E s \in Sock : SvcTake(s) \/ SvcWrite(s) \/ SvcClose(s)

Spec == Init /\ [][Next]_vars

-----------------------------------------------------------------------------
(* Properties.                                                             *)

Reading == {"head", "length", "size", "data", "crlf", "stream"}
\* The frames of a request.
FrameAt(r) == {frames[r][i] : i \in 1 .. Len(frames[r])}
Count(r, kind) == Cardinality({i \in 1 .. Len(frames[r]) : frames[r][i].kind = kind})
Ended(r) == Count(r, "end") > 0

\* A visitor is never sent what the service answered to another visitor, though
\* connections pass from one request to the next; the exception is a connection
\* on which an earlier reader took half a CRLF for a line end.
OwnAnswer == \A r \in Reqs :
  (\A f \in FrameAt(r) : f.of = r) \/ (reused[r] /\ conn[r] \in cut)

\* A stream that is ended, not aborted, brought the whole body the service sent,
\* unless the connection broke inside the response or a CRLF was read half.  A
\* response without a body is ended when the service closes the connection.
WholeAnswer == \A r \in Reqs :
  Ended(r) /\ conn[r] \notin cut \cup broken =>
    Count(r, "chunk") = MaxData \/ (Count(r, "chunk") = 0 /\ ~keep[r] /\ svc[conn[r]] = "closed")

\* What the visitor handler of the server is told: see StreamFrames.
Last(r) == frames[r][Len(frames[r])].kind
Phase(r) ==
  CASE frames[r] = <<>>                                      -> "silent"
    [] frames[r] # <<>> /\ Last(r) = "abort"                 -> "aborted"
    [] frames[r] # <<>> /\ Last(r) = "end"                   -> "ended"
    [] frames[r] # <<>> /\ Last(r) \in {"head", "chunk"}      -> "head"

Frames == INSTANCE StreamFrames WITH
  phase  <- [r \in Reqs |-> IF Count(r, "head") > 1 THEN "two heads" ELSE Phase(r)],
  chunks <- [r \in Reqs |-> Count(r, "chunk")]

\* Every request gives one head, then chunks, then one End, or one Abort and
\* nothing else, retries included.
ImplementsFrames == Frames!Spec

\* A worker sleeps only if there are as many awake as there are jobs, and none
\* sleeps once the pool is to stop: no wakeup is lost, however submitting, waiting
\* and stopping interleave.
NobodySleepsOnWork ==
  Waiting # {} => ~stop_ /\ Len(q) <= Cardinality({w \in Workers : worker[w] = "check"})

\* A worker never waits on a connection the service has closed, wherever in the
\* response it did; and it waits for a service that owes nothing only for the body
\* of a response without one (HEAD, 204, 304), which lasts until the service closes
\* the connection, or for the end of what a response cut before left.
NeverStranded == \A r \in Reqs :
  pc[r] \in Reading /\ answering[conn[r]] = <<>> /\ inbox[conn[r]] = <<>> =>
    \/ ENABLED Worker(r)
    \/ svc[conn[r]] = "open" /\ pc[r] \in {"length", "stream"} /\ Count(r, "chunk") = 0
    \/ svc[conn[r]] = "open" /\ pc[r] = "stream" /\ reused[r] /\ conn[r] \in cut

=============================================================================
