--------------------------- MODULE LiteClientProofs --------------------------
(***************************************************************************)
(* The streams of tunnel-lite for every set of groups and every number of  *)
(* streams, chunks and connections: no chunk of a stream is lost while     *)
(* only its own group uses its number, a thread reports the end of its     *)
(* stream, and no thread stays on a socket that others closed.  Then, for  *)
(* every list of tunnels, that each finds its connection; and, for every   *)
(* payload below 2^32 bytes, that a WebSocket frame and a message in       *)
(* several frames are read as they were written.                           *)
(***************************************************************************)
EXTENDS LiteClient, SequenceTheorems, QueueLemmas, TLAPS

Threads == {"none", "job", "connect", "flush", "check", "read", "finish", "erase", "failed", "done"}

Streams ==
  [id : Nat, group : Groups \cup {None}, toSend : Nat, given : Nat, thread : Threads,
   alive : BOOLEAN, closed : {"none", "server", "own", "other"}, shut : BOOLEAN,
   pending : Seq(Nat), written : Seq(Nat), told : {"none", "end", "abort"}]

TypeOK ==
  /\ opened \in 0 .. MaxStreams /\ next_id \in 1 .. opened + 1
  /\ loop \in [Groups -> {"top", "read", "shut", "shut dead", "dead", "sweep", "after", "exited"}]
  /\ shutting \in [Groups -> 0 .. opened]
  /\ g_streams \in [Stream -> 0 .. opened]
  /\ strm \in [Stream -> Streams]

InTable(o) == g_streams[strm[o].id] = o

\* The table has a stream under its own number.
TableRight ==
  /\ \A o \in 1 .. opened : strm[o].id \in Stream
  /\ \A i \in Stream : g_streams[i] # None => strm[g_streams[i]].id = i

\* A control thread has a socket to shut down where its code says so; the one that
\* holds the table while it leaves its session has closed every stream in it.
LoopsRight ==
  /\ \A g \in Groups : shutting[g] = None <=> loop[g] \notin {"shut", "shut dead"}
  /\ \A g, h \in Groups : loop[g] = "sweep" /\ loop[h] = "sweep" => g = h
  /\ (\E g \in Groups : loop[g] = "sweep") =>
       \A i \in Stream : g_streams[i] # None => strm[g_streams[i]].closed # "none"

\* Chunks wait until the local connection is there, and no longer; a stream its own
\* group closed has no session; a thread that has ended has told the server, or need not.
Sane(s) ==
  /\ s.thread \in {"check", "read"} => s.pending = <<>>
  /\ s.thread \in {"connect", "flush"} => s.written = <<>>
  /\ s.closed = "own" => ~s.alive
  /\ s.thread \in {"erase", "failed"} /\ s.alive /\ s.closed \notin {"server", "other"} =>
       s.told # "none"

Active(s) == s.thread \in {"connect", "flush", "check", "read"} /\ s.closed = "none"

UpTo(n) == [i \in 1 .. n |-> i]

\* Every chunk that was sent is written, or waits.
Whole(s) == IF Connected(s) THEN s.written = UpTo(s.given) ELSE s.pending = UpTo(s.given)

Stuck(s) == s.thread = "read" /\ s.closed # "none"

\* Its socket is about to be shut down.
Ahead(o) == \E g \in Groups : shutting[g] = o \/ (loop[g] = "sweep" /\ InTable(o))

StreamRight(o) ==
  /\ Sane(strm[o])
  /\ Active(strm[o]) /\ ~Clashes(o) => InTable(o) /\ Whole(strm[o])
  /\ Stuck(strm[o]) => strm[o].shut \/ Ahead(o)

IInv == TypeOK /\ TableRight /\ LoopsRight /\ \A o \in 1 .. opened : StreamRight(o)

-----------------------------------------------------------------------------
(* Streams as records.                                                     *)

LEMMA SetToSend ==
  ASSUME NEW s \in Streams, NEW x \in Nat, NEW t, t = [s EXCEPT !.toSend = x]
  PROVE  /\ t \in Streams /\ t.toSend = x
         /\ t.id = s.id /\ t.group = s.group /\ t.given = s.given /\ t.thread = s.thread
         /\ t.alive = s.alive /\ t.closed = s.closed /\ t.shut = s.shut /\ t.pending = s.pending
         /\ t.written = s.written /\ t.told = s.told
<1>1. t \in Streams
  BY Zenon DEF Streams
<1>2. /\ t.toSend = x
      /\ t.id = s.id /\ t.group = s.group /\ t.given = s.given /\ t.thread = s.thread
      /\ t.alive = s.alive /\ t.closed = s.closed /\ t.shut = s.shut /\ t.pending = s.pending
      /\ t.written = s.written /\ t.told = s.told
  BY DEF Streams
<1> QED
  BY <1>1, <1>2

LEMMA SetGiven ==
  ASSUME NEW s \in Streams, NEW x \in Nat, NEW t, t = [s EXCEPT !.given = x]
  PROVE  /\ t \in Streams /\ t.given = x
         /\ t.id = s.id /\ t.group = s.group /\ t.toSend = s.toSend /\ t.thread = s.thread
         /\ t.alive = s.alive /\ t.closed = s.closed /\ t.shut = s.shut /\ t.pending = s.pending
         /\ t.written = s.written /\ t.told = s.told
<1>1. t \in Streams
  BY Zenon DEF Streams
<1>2. /\ t.given = x
      /\ t.id = s.id /\ t.group = s.group /\ t.toSend = s.toSend /\ t.thread = s.thread
      /\ t.alive = s.alive /\ t.closed = s.closed /\ t.shut = s.shut /\ t.pending = s.pending
      /\ t.written = s.written /\ t.told = s.told
  BY DEF Streams
<1> QED
  BY <1>1, <1>2

LEMMA SetThread ==
  ASSUME NEW s \in Streams, NEW x \in Threads, NEW t, t = [s EXCEPT !.thread = x]
  PROVE  /\ t \in Streams /\ t.thread = x
         /\ t.id = s.id /\ t.group = s.group /\ t.toSend = s.toSend /\ t.given = s.given
         /\ t.alive = s.alive /\ t.closed = s.closed /\ t.shut = s.shut /\ t.pending = s.pending
         /\ t.written = s.written /\ t.told = s.told
<1>1. t \in Streams
  BY Zenon DEF Streams
<1>2. /\ t.thread = x
      /\ t.id = s.id /\ t.group = s.group /\ t.toSend = s.toSend /\ t.given = s.given
      /\ t.alive = s.alive /\ t.closed = s.closed /\ t.shut = s.shut /\ t.pending = s.pending
      /\ t.written = s.written /\ t.told = s.told
  BY DEF Streams
<1> QED
  BY <1>1, <1>2

LEMMA SetAlive ==
  ASSUME NEW s \in Streams, NEW x \in BOOLEAN, NEW t, t = [s EXCEPT !.alive = x]
  PROVE  /\ t \in Streams /\ t.alive = x
         /\ t.id = s.id /\ t.group = s.group /\ t.toSend = s.toSend /\ t.given = s.given
         /\ t.thread = s.thread /\ t.closed = s.closed /\ t.shut = s.shut /\ t.pending = s.pending
         /\ t.written = s.written /\ t.told = s.told
<1>1. t \in Streams
  BY Zenon DEF Streams
<1>2. /\ t.alive = x
      /\ t.id = s.id /\ t.group = s.group /\ t.toSend = s.toSend /\ t.given = s.given
      /\ t.thread = s.thread /\ t.closed = s.closed /\ t.shut = s.shut /\ t.pending = s.pending
      /\ t.written = s.written /\ t.told = s.told
  BY DEF Streams
<1> QED
  BY <1>1, <1>2

LEMMA SetClosed ==
  ASSUME NEW s \in Streams, NEW x \in {"none", "server", "own", "other"}, NEW t, t = [s EXCEPT !.closed = x]
  PROVE  /\ t \in Streams /\ t.closed = x
         /\ t.id = s.id /\ t.group = s.group /\ t.toSend = s.toSend /\ t.given = s.given
         /\ t.thread = s.thread /\ t.alive = s.alive /\ t.shut = s.shut /\ t.pending = s.pending
         /\ t.written = s.written /\ t.told = s.told
<1>1. t \in Streams
  BY Zenon DEF Streams
<1>2. /\ t.closed = x
      /\ t.id = s.id /\ t.group = s.group /\ t.toSend = s.toSend /\ t.given = s.given
      /\ t.thread = s.thread /\ t.alive = s.alive /\ t.shut = s.shut /\ t.pending = s.pending
      /\ t.written = s.written /\ t.told = s.told
  BY DEF Streams
<1> QED
  BY <1>1, <1>2

LEMMA SetShut ==
  ASSUME NEW s \in Streams, NEW x \in BOOLEAN, NEW t, t = [s EXCEPT !.shut = x]
  PROVE  /\ t \in Streams /\ t.shut = x
         /\ t.id = s.id /\ t.group = s.group /\ t.toSend = s.toSend /\ t.given = s.given
         /\ t.thread = s.thread /\ t.alive = s.alive /\ t.closed = s.closed /\ t.pending = s.pending
         /\ t.written = s.written /\ t.told = s.told
<1>1. t \in Streams
  BY Zenon DEF Streams
<1>2. /\ t.shut = x
      /\ t.id = s.id /\ t.group = s.group /\ t.toSend = s.toSend /\ t.given = s.given
      /\ t.thread = s.thread /\ t.alive = s.alive /\ t.closed = s.closed /\ t.pending = s.pending
      /\ t.written = s.written /\ t.told = s.told
  BY DEF Streams
<1> QED
  BY <1>1, <1>2

LEMMA SetPending ==
  ASSUME NEW s \in Streams, NEW x \in Seq(Nat), NEW t, t = [s EXCEPT !.pending = x]
  PROVE  /\ t \in Streams /\ t.pending = x
         /\ t.id = s.id /\ t.group = s.group /\ t.toSend = s.toSend /\ t.given = s.given
         /\ t.thread = s.thread /\ t.alive = s.alive /\ t.closed = s.closed /\ t.shut = s.shut
         /\ t.written = s.written /\ t.told = s.told
<1>1. t \in Streams
  BY Zenon DEF Streams
<1>2. /\ t.pending = x
      /\ t.id = s.id /\ t.group = s.group /\ t.toSend = s.toSend /\ t.given = s.given
      /\ t.thread = s.thread /\ t.alive = s.alive /\ t.closed = s.closed /\ t.shut = s.shut
      /\ t.written = s.written /\ t.told = s.told
  BY DEF Streams
<1> QED
  BY <1>1, <1>2

LEMMA SetWritten ==
  ASSUME NEW s \in Streams, NEW x \in Seq(Nat), NEW t, t = [s EXCEPT !.written = x]
  PROVE  /\ t \in Streams /\ t.written = x
         /\ t.id = s.id /\ t.group = s.group /\ t.toSend = s.toSend /\ t.given = s.given
         /\ t.thread = s.thread /\ t.alive = s.alive /\ t.closed = s.closed /\ t.shut = s.shut
         /\ t.pending = s.pending /\ t.told = s.told
<1>1. t \in Streams
  BY Zenon DEF Streams
<1>2. /\ t.written = x
      /\ t.id = s.id /\ t.group = s.group /\ t.toSend = s.toSend /\ t.given = s.given
      /\ t.thread = s.thread /\ t.alive = s.alive /\ t.closed = s.closed /\ t.shut = s.shut
      /\ t.pending = s.pending /\ t.told = s.told
  BY DEF Streams
<1> QED
  BY <1>1, <1>2

LEMMA SetTold ==
  ASSUME NEW s \in Streams, NEW x \in {"none", "end", "abort"}, NEW t, t = [s EXCEPT !.told = x]
  PROVE  /\ t \in Streams /\ t.told = x
         /\ t.id = s.id /\ t.group = s.group /\ t.toSend = s.toSend /\ t.given = s.given
         /\ t.thread = s.thread /\ t.alive = s.alive /\ t.closed = s.closed /\ t.shut = s.shut
         /\ t.pending = s.pending /\ t.written = s.written
<1>1. t \in Streams
  BY Zenon DEF Streams
<1>2. /\ t.told = x
      /\ t.id = s.id /\ t.group = s.group /\ t.toSend = s.toSend /\ t.given = s.given
      /\ t.thread = s.thread /\ t.alive = s.alive /\ t.closed = s.closed /\ t.shut = s.shut
      /\ t.pending = s.pending /\ t.written = s.written
  BY DEF Streams
<1> QED
  BY <1>1, <1>2

LEMMA TakenRight ==
  ASSUME NEW s \in Streams, NEW n \in Nat, NEW t, t = Taken(s, n)
  PROVE  /\ t \in Streams /\ t.id = s.id /\ t.given = s.given /\ t.thread = s.thread
         /\ t.alive = s.alive /\ t.closed = s.closed /\ t.shut = s.shut /\ t.told = s.told
         /\ Connected(s) => t.pending = s.pending /\ t.written = Append(s.written, n)
         /\ ~Connected(s) => t.written = s.written /\ t.pending = Append(s.pending, n)
<1>1. s.pending \in Seq(Nat) /\ s.written \in Seq(Nat)
  BY DEF Streams
<1>2. CASE Connected(s)
  <2>1. PICK x \in Seq(Nat) : x = Append(s.written, n)
    BY <1>1, AppendProperties
  <2>2. t = [s EXCEPT !.written = x]
    BY <1>2, <2>1 DEF Taken
  <2>3. /\ t \in Streams /\ t.id = s.id /\ t.given = s.given /\ t.thread = s.thread
        /\ t.alive = s.alive /\ t.closed = s.closed /\ t.shut = s.shut /\ t.told = s.told
        /\ t.pending = s.pending /\ t.written = x
    BY <2>2, SetWritten
  <2> QED
    BY <1>2, <2>1, <2>3
<1>3. CASE ~Connected(s)
  <2>1. PICK x \in Seq(Nat) : x = Append(s.pending, n)
    BY <1>1, AppendProperties
  <2>2. t = [s EXCEPT !.pending = x]
    BY <1>3, <2>1 DEF Taken
  <2>3. /\ t \in Streams /\ t.id = s.id /\ t.given = s.given /\ t.thread = s.thread
        /\ t.alive = s.alive /\ t.closed = s.closed /\ t.shut = s.shut /\ t.told = s.told
        /\ t.written = s.written /\ t.pending = x
    BY <2>2, SetPending
  <2> QED
    BY <1>3, <2>1, <2>3
<1> QED
  BY <1>2, <1>3

LEMMA ClosedRight ==
  ASSUME NEW s \in Streams, NEW by \in {"server", "own", "other"}, NEW t, t = Closed(s, by)
  PROVE  /\ t \in Streams /\ t.id = s.id /\ t.given = s.given /\ t.thread = s.thread
         /\ t.alive = s.alive /\ t.shut = s.shut /\ t.told = s.told
         /\ t.pending = s.pending /\ t.written = s.written
         /\ t.closed = IF s.closed = "none" THEN by ELSE s.closed
<1>1. CASE s.closed = "none"
  <2>1. t = [s EXCEPT !.closed = by]
    BY <1>1 DEF Closed
  <2> QED
    BY <1>1, <2>1, SetClosed
<1>2. CASE s.closed # "none"
  BY <1>2 DEF Closed
<1> QED
  BY <1>1, <1>2

LEMMA ReportedRight ==
  ASSUME NEW s \in Streams, NEW what \in {"end", "abort"}, NEW t, t = Reported(s, what)
  PROVE  /\ t \in Streams /\ t.id = s.id /\ t.given = s.given /\ t.thread = s.thread
         /\ t.alive = s.alive /\ t.closed = s.closed /\ t.shut = s.shut
         /\ t.pending = s.pending /\ t.written = s.written
         /\ t.told = IF s.alive THEN what ELSE s.told
<1>1. CASE s.alive
  <2>1. t = [s EXCEPT !.told = what]
    BY <1>1 DEF Reported
  <2>2. /\ t \in Streams /\ t.id = s.id /\ t.given = s.given /\ t.thread = s.thread
        /\ t.alive = s.alive /\ t.closed = s.closed /\ t.shut = s.shut
        /\ t.pending = s.pending /\ t.written = s.written /\ t.told = what
    BY <2>1, SetTold
  <2> QED
    BY <1>1, <2>2
<1>2. CASE ~s.alive
  BY <1>2 DEF Reported
<1> QED
  BY <1>1, <1>2

LEMMA ShutDownRight ==
  ASSUME NEW s \in Streams, NEW t, t = ShutDown(s)
  PROVE  /\ t \in Streams /\ t.id = s.id /\ t.given = s.given /\ t.thread = s.thread
         /\ t.alive = s.alive /\ t.closed = s.closed /\ t.told = s.told
         /\ t.pending = s.pending /\ t.written = s.written
         /\ t.thread = "read" => t.shut
<1> DEFINE x == s.thread \in {"flush", "check", "read", "finish", "erase"}
<1>1. x \in BOOLEAN /\ (s.thread = "read" => x)
  OBVIOUS
<1>2. t = [s EXCEPT !.shut = x]
  BY DEF ShutDown
<1> HIDE DEF x
<1>3. /\ t \in Streams /\ t.id = s.id /\ t.given = s.given /\ t.thread = s.thread
      /\ t.alive = s.alive /\ t.closed = s.closed /\ t.told = s.told
      /\ t.pending = s.pending /\ t.written = s.written /\ t.shut = x
  BY <1>1, <1>2, SetShut
<1> QED
  BY <1>1, <1>3

LEMMA OneMore == \A n \in Nat : UpTo(n) \in Seq(Nat) /\ Append(UpTo(n), n + 1) = UpTo(n + 1)
<1> TAKE n \in Nat
<1>1. UpTo(n) \in Seq(Nat) /\ Len(UpTo(n)) = n
  BY DEF UpTo
<1>2. UpTo(n + 1) \in Seq(Nat) /\ Len(UpTo(n + 1)) = n + 1
  BY DEF UpTo
<1>3. PICK u \in Seq(Nat) : u = UpTo(n) /\ Len(u) = n
  BY <1>1
<1>4. PICK e \in Nat : e = n + 1
  OBVIOUS
<1>5. PICK a \in Seq(Nat) : /\ a = Append(u, e) /\ Len(a) = n + 1 /\ a[n + 1] = e
                            /\ \A i \in 1 .. n : a[i] = u[i]
  <2>1. /\ Append(u, e) \in Seq(Nat) /\ Len(Append(u, e)) = Len(u) + 1
        /\ \A i \in 1 .. Len(u) : Append(u, e)[i] = u[i]
        /\ Append(u, e)[Len(u) + 1] = e
    BY AppendProperties
  <2> QED
    BY <1>3, <2>1
<1>6. \A i \in 1 .. n + 1 : a[i] = UpTo(n + 1)[i]
  BY <1>3, <1>4, <1>5 DEF UpTo
<1>7. a = UpTo(n + 1)
  BY <1>2, <1>5, <1>6, SeqEqual
<1> QED
  BY <1>1, <1>3, <1>4, <1>5, <1>7

-----------------------------------------------------------------------------
(* Steps of a thread.                                                      *)

LEMMA Basics ==
  ASSUME IInv
  PROVE  /\ opened \in Nat /\ opened <= MaxStreams /\ next_id \in Nat
         /\ \A o \in 1 .. opened : o \in Stream /\ o # None /\ strm[o] \in Streams /\ strm[o].id \in Stream
<1>1. MaxStreams \in Nat /\ opened \in 0 .. MaxStreams /\ next_id \in 1 .. opened + 1
  BY LiteClientAssumption DEF IInv, TypeOK
<1>2. \A o \in 1 .. opened : o \in Stream /\ o # None
  BY <1>1 DEF Stream, None
<1>3. strm \in [Stream -> Streams] /\ \A o \in 1 .. opened : strm[o].id \in Stream
  BY DEF IInv, TypeOK, TableRight
<1> QED
  BY <1>1, <1>2, <1>3

\* A number that was given out twice stays so.
LEMMA ClashesStay ==
  ASSUME opened \in Nat, opened' \in Nat, opened <= opened', NEW o \in 1 .. opened,
         \A u \in 1 .. opened : strm'[u].id = strm[u].id, Clashes(o)
  PROVE  Clashes(o)'
BY DEF Clashes

LEMMA ThreadStep ==
  ASSUME IInv, NEW o \in 1 .. opened, NEW s \in Streams, Becomes(o, s),
         s.id = strm[o].id, s.closed = strm[o].closed, Sane(s),
         Active(s) => Active(strm[o]) /\ (Whole(strm[o]) => Whole(s)),
         Stuck(s) => Stuck(strm[o]) /\ (strm[o].shut => s.shut)
  PROVE  IInv'
<1>1. /\ opened' = opened /\ next_id' = next_id /\ loop' = loop /\ shutting' = shutting
      /\ g_streams' = g_streams /\ o \in Stream
      /\ strm' = [strm EXCEPT ![o] = s] /\ strm \in [Stream -> Streams]
  BY Basics DEF Becomes, IInv, TypeOK
<1>2. /\ strm' \in [Stream -> Streams] /\ strm'[o] = s
      /\ \A u \in Stream : u # o => strm'[u] = strm[u]
  BY <1>1
<1>3. \A u \in Stream : strm'[u].id = strm[u].id /\ strm'[u].closed = strm[u].closed
  BY <1>2
<1>4. TypeOK'
  BY <1>1, <1>2 DEF IInv, TypeOK
<1>5. \A i \in Stream : g_streams[i] # None => g_streams[i] \in Stream
  <2>1. \A i \in Stream : g_streams[i] \in 0 .. opened
    BY DEF IInv, TypeOK
  <2> QED
    BY <2>1, Basics DEF None
<1>6. TableRight' /\ LoopsRight'
  <2>1. TableRight'
    BY <1>1, <1>3, <1>5, Basics DEF IInv, TableRight
  <2>2. LoopsRight'
    BY ZenonT(60), <1>1, <1>3, <1>5 DEF IInv, LoopsRight
  <2> QED
    BY <2>1, <2>2
<1>7. ASSUME NEW u \in 1 .. opened PROVE StreamRight(u)'
  <2>1. u \in Stream /\ StreamRight(u) /\ (Clashes(u) => Clashes(u)')
    BY <1>1, <1>3, Basics, ClashesStay DEF IInv
  <2>2. (InTable(u) => InTable(u)') /\ (Ahead(u) => Ahead(u)')
    BY <1>1, <1>3, <2>1 DEF InTable, Ahead
  <2>3. CASE u = o
    BY <1>2, <2>1, <2>2, <2>3 DEF StreamRight
  <2>4. CASE u # o
    BY <1>2, <2>1, <2>2, <2>4 DEF StreamRight
  <2> QED
    BY <2>3, <2>4
<1> QED
  BY <1>1, <1>4, <1>6, <1>7 DEF IInv

LEMMA ThreadInv ==
  ASSUME IInv, NEW o \in 1 .. opened,
         \/ LocalConnect(o) \/ LocalConnectFails(o) \/ Flush(o) \/ Check(o) \/ LocalSends(o)
         \/ ReadEnds(o) \/ LocalCloses(o) \/ Finish(o) \/ Answer(o)
  PROVE  IInv'
<1>1. strm[o] \in Streams /\ Sane(strm[o])
  BY Basics DEF IInv, StreamRight
<1>2. PICK s \in Streams : s = strm[o] /\ Sane(s)
  BY <1>1
<1> USE DEF Sane, Connected, Active, Stuck, Whole
\* To another label.
<1>3. ASSUME NEW l \in Threads, Becomes(o, To(o, l)),
             \/ l = "finish"
             \/ l = "flush" /\ s.thread = "connect"
             \/ l = "check" /\ s.thread = "read"
      PROVE  IInv'
  <2> DEFINE t == To(o, l)
  <2>1. t = [s EXCEPT !.thread = l]
    BY <1>2 DEF To
  <2> HIDE DEF t
  <2>2. /\ t \in Streams /\ t.thread = l /\ t.id = s.id /\ t.given = s.given /\ t.alive = s.alive
        /\ t.closed = s.closed /\ t.shut = s.shut /\ t.told = s.told
        /\ t.pending = s.pending /\ t.written = s.written
    BY <2>1, SetThread
  <2>3. Becomes(o, t)
    BY <1>3 DEF t
  <2>4. Sane(t)
    BY <1>2, <1>3, <2>2 DEF Threads
  <2> QED
    BY <1>2, <1>3, <2>2, <2>3, <2>4, ThreadStep
<1>4. CASE LocalConnect(o)
  BY <1>2, <1>3, <1>4 DEF LocalConnect, At, Threads
<1>5. CASE LocalSends(o) \/ ReadEnds(o) \/ LocalCloses(o)
  BY <1>2, <1>3, <1>5 DEF LocalSends, ReadEnds, LocalCloses, At, Threads
<1>6. CASE Check(o)
  <2>1. CASE s.closed # "none"
    BY <1>2, <1>3, <1>6, <2>1 DEF Check, At, Threads
  <2>2. CASE s.closed = "none"
    <3> DEFINE t == To(o, "read")
    <3>1. t = [s EXCEPT !.thread = "read"] /\ "read" \in Threads
      BY <1>2 DEF To, Threads
    <3>2. Becomes(o, t) /\ s.thread = "check"
      BY <1>2, <1>6, <2>2 DEF Check, At
    <3> HIDE DEF t
    <3>3. /\ t \in Streams /\ t.thread = "read" /\ t.id = s.id /\ t.given = s.given /\ t.alive = s.alive
          /\ t.closed = s.closed /\ t.shut = s.shut /\ t.told = s.told
          /\ t.pending = s.pending /\ t.written = s.written
      BY <3>1, SetThread
    <3>4. Sane(t)
      BY <1>2, <3>2, <3>3
    <3> QED
      BY <1>2, <2>2, <3>2, <3>3, <3>4, ThreadStep
  <2> QED
    BY <2>1, <2>2
\* A thread that reports.
<1>7. ASSUME NEW l \in {"erase", "failed"}, NEW what \in {"end", "abort"},
             Becomes(o, Reported(To(o, l), what))
      PROVE  IInv'
  <2> DEFINE x == To(o, l)
             t == Reported(x, what)
  <2>1. x = [s EXCEPT !.thread = l] /\ l \in Threads
    BY <1>2 DEF To, Threads
  <2>2. Becomes(o, t)
    BY <1>7
  <2> HIDE DEF x
  <2>3. /\ x \in Streams /\ x.thread = l /\ x.id = s.id /\ x.given = s.given /\ x.alive = s.alive
        /\ x.closed = s.closed /\ x.shut = s.shut /\ x.told = s.told
        /\ x.pending = s.pending /\ x.written = s.written
    BY <2>1, SetThread
  <2>4. /\ t \in Streams /\ t.id = x.id /\ t.given = x.given /\ t.thread = x.thread
        /\ t.alive = x.alive /\ t.closed = x.closed /\ t.shut = x.shut
        /\ t.pending = x.pending /\ t.written = x.written
        /\ t.told = IF x.alive THEN what ELSE x.told
    BY <2>3, ReportedRight
  <2> HIDE DEF t
  <2>5. Sane(t)
    BY <1>2, <2>3, <2>4
  <2> QED
    BY <1>2, <2>2, <2>3, <2>4, <2>5, ThreadStep
<1>8. CASE LocalConnectFails(o) \/ Answer(o)
  BY <1>7, <1>8 DEF LocalConnectFails, Answer
<1>9. CASE Finish(o)
  <2>1. CASE s.closed = "none"
    <3>1. To(o, "erase").closed = "none"
      BY <1>2, <2>1, SetThread DEF To, Threads
    <3> QED
      BY <1>7, <1>9, <3>1 DEF Finish
  <2>2. CASE s.closed # "none"
    <3> DEFINE t == To(o, "erase")
    <3>1. t = [s EXCEPT !.thread = "erase"] /\ "erase" \in Threads
      BY <1>2 DEF To, Threads
    <3>2. Becomes(o, IF t.closed = "none" THEN Reported(t, "end") ELSE t)
      BY <1>9 DEF Finish
    <3> HIDE DEF t
    <3>3. /\ t \in Streams /\ t.thread = "erase" /\ t.id = s.id /\ t.given = s.given
          /\ t.alive = s.alive /\ t.closed = s.closed /\ t.shut = s.shut /\ t.told = s.told
          /\ t.pending = s.pending /\ t.written = s.written
      BY <3>1, SetThread
    <3>4. Becomes(o, t)
      BY <2>2, <3>2, <3>3
    <3>5. s.closed \in {"server", "own", "other"}
      BY <2>2 DEF Streams
    <3>6. Sane(t)
      BY <1>2, <3>3, <3>5
    <3> QED
      BY <1>2, <3>3, <3>4, <3>6, ThreadStep
  <2> QED
    BY <2>1, <2>2
<1>10. CASE Flush(o)
  <2> DEFINE p == s.written \o s.pending
             none == <<>>
             x == [s EXCEPT !.thread = "check"]
             y == [x EXCEPT !.written = p]
             t == [y EXCEPT !.pending = none]
  <2>1. s.thread = "flush" /\ Becomes(o, t)
    BY <1>2, <1>10 DEF Flush, At, To, Streams
  <2>7. none \in Seq(Nat)
    OBVIOUS
  <2>2. p \in Seq(Nat) /\ p = s.pending /\ none = <<>>
    BY <1>2, <2>1, ConcatEmptySeq DEF Streams
  <2> HIDE DEF p, none
  <2>3. /\ x \in Streams /\ x.thread = "check" /\ x.id = s.id /\ x.given = s.given /\ x.alive = s.alive
        /\ x.closed = s.closed /\ x.shut = s.shut /\ x.told = s.told
    BY SetThread DEF Threads
  <2> HIDE DEF x
  <2>4. /\ y \in Streams /\ y.thread = "check" /\ y.id = s.id /\ y.given = s.given /\ y.alive = s.alive
        /\ y.closed = s.closed /\ y.shut = s.shut /\ y.told = s.told /\ y.written = p
    BY <2>2, <2>3, SetWritten
  <2> HIDE DEF y
  <2>5. /\ t \in Streams /\ t.thread = "check" /\ t.id = s.id /\ t.given = s.given /\ t.alive = s.alive
        /\ t.closed = s.closed /\ t.shut = s.shut /\ t.told = s.told /\ t.written = p /\ t.pending = none
    BY <2>4, <2>7, SetPending
  <2> HIDE DEF t
  <2>6. Sane(t)
    BY <1>2, <2>2, <2>5
  <2> QED
    BY <1>2, <2>1, <2>2, <2>5, <2>6, ThreadStep
<1> QED
  BY <1>4, <1>5, <1>6, <1>8, <1>9, <1>10

\* A stream that is opened.
Fresh(n, g) == [Unborn EXCEPT !.id = n, !.group = g, !.alive = TRUE]

LEMMA FreshRight ==
  ASSUME NEW n \in Nat, NEW g \in Groups, NEW s, s = Fresh(n, g)
  PROVE  /\ s \in Streams /\ s.id = n /\ s.given = 0 /\ s.thread = "none" /\ s.alive
         /\ s.closed = "none" /\ ~s.shut /\ s.pending = <<>> /\ s.written = <<>>
<1>1. <<>> \in Seq(Nat)
  OBVIOUS
<1>2. Unborn \in Streams
  BY <1>1, SMT DEF Unborn, Streams, None, Threads
<1>3. /\ Unborn.given = 0 /\ Unborn.thread = "none"
      /\ Unborn.closed = "none" /\ ~Unborn.shut /\ Unborn.pending = <<>> /\ Unborn.written = <<>>
  BY DEF Unborn
<1>4. s \in Streams
  BY <1>2, Zenon DEF Streams, Fresh
<1>5. /\ s.id = n /\ s.given = 0 /\ s.thread = "none" /\ s.alive
      /\ s.closed = "none" /\ ~s.shut /\ s.pending = <<>> /\ s.written = <<>>
  BY <1>2, <1>3 DEF Streams, Fresh
<1> QED
  BY <1>4, <1>5

\* What is left of a stream when its thread has ended.
LEMMA ErasedRight ==
  ASSUME NEW u \in Streams, NEW s,
         s = [Unborn EXCEPT !.id = u.id, !.group = u.group, !.alive = u.alive, !.toSend = u.toSend,
                            !.thread = "done"]
  PROVE  s \in Streams /\ s.id = u.id /\ s.thread = "done" /\ s.closed = "none"
<1>1. <<>> \in Seq(Nat)
  OBVIOUS
<1>2. Unborn \in Streams
  BY <1>1, SMT DEF Unborn, Streams, None, Threads
<1>3. Unborn.closed = "none"
  BY DEF Unborn
<1>4. u.id \in Nat /\ u.group \in Groups \cup {None} /\ u.alive \in BOOLEAN /\ u.toSend \in Nat /\ "done" \in Threads
  BY DEF Streams, Threads
<1>5. s \in Streams
  BY <1>2, <1>4, Zenon DEF Streams
<1>6. s.id = u.id /\ s.thread = "done" /\ s.closed = "none"
  BY <1>2, <1>3 DEF Streams
<1> QED
  BY <1>5, <1>6

LEMMA TableType ==
  ASSUME IInv, NEW i \in Stream
  PROVE  g_streams[i] # None => g_streams[i] \in 1 .. opened /\ strm[g_streams[i]].id = i
<1>1. g_streams[i] \in 0 .. opened
  BY DEF IInv, TypeOK
<1> QED
  BY <1>1, Basics DEF IInv, TableRight, None

LEMMA EraseInv == ASSUME IInv, NEW o \in 1 .. opened, Erase(o) PROVE IInv'
<1>1. PICK s \in Streams : s = [Unborn EXCEPT !.id = strm[o].id, !.group = strm[o].group,
               !.alive = strm[o].alive, !.toSend = strm[o].toSend, !.thread = "done"]
  BY Basics, ErasedRight
<1>2. s.id = strm[o].id /\ s.thread = "done" /\ s.closed = "none"
  BY <1>1, Basics, ErasedRight
<1>3. PICK i \in Stream : i = strm[o].id
  BY Basics
<1>4. /\ opened' = opened /\ next_id' = next_id /\ loop' = loop /\ shutting' = shutting
      /\ Unlocked /\ strm[o].thread = "erase"
      /\ g_streams' = [g_streams EXCEPT ![i] = None] /\ g_streams \in [Stream -> 0 .. opened]
      /\ strm' = [strm EXCEPT ![o] = s] /\ strm \in [Stream -> Streams] /\ o \in Stream
  BY <1>1, <1>3, Basics DEF Erase, Remove, At, IInv, TypeOK
<1>5. /\ strm' \in [Stream -> Streams] /\ strm'[o] = s /\ \A u \in Stream : u # o => strm'[u] = strm[u]
  BY <1>4
<1>6. /\ g_streams' \in [Stream -> 0 .. opened] /\ g_streams'[i] = None
      /\ \A j \in Stream : j # i => g_streams'[j] = g_streams[j]
  BY <1>4, Basics DEF None
<1>7. \A u \in Stream : strm'[u].id = strm[u].id
  BY <1>2, <1>5
<1>8. TypeOK'
  BY <1>4, <1>5, <1>6 DEF IInv, TypeOK
<1>9. TableRight'
  <2>1. \A u \in 1 .. opened : strm'[u].id \in Stream
    BY <1>7, Basics
  <2>2. ASSUME NEW j \in Stream, g_streams'[j] # None PROVE strm'[g_streams'[j]].id = j
    BY <1>6, <1>7, <2>2, TableType, Basics
  <2> QED
    BY <1>4, <2>1, <2>2 DEF TableRight
<1>10. LoopsRight'
  BY <1>4 DEF IInv, LoopsRight, Unlocked
<1>11. ASSUME NEW u \in 1 .. opened PROVE StreamRight(u)'
  <2>1. u \in Stream /\ StreamRight(u) /\ (Clashes(u) => Clashes(u)')
    BY <1>4, <1>7, Basics, ClashesStay DEF IInv
  <2>2. Ahead(u) => Ahead(u)'
    BY <1>4 DEF Ahead, Unlocked
  <2>3. CASE u = o
    BY <1>2, <1>5, <2>3 DEF StreamRight, Sane, Connected, Active, Stuck
  <2>4. CASE u # o
    <3>1. InTable(u) /\ ~Clashes(u) => InTable(u)'
      BY <1>3, <1>5, <1>6, <2>1, <2>4, Basics DEF InTable, Clashes
    <3> QED
      BY <1>5, <2>1, <2>2, <2>4, <3>1 DEF StreamRight
  <2> QED
    BY <2>3, <2>4
<1> QED
  BY <1>4, <1>8, <1>9, <1>10, <1>11 DEF IInv

-----------------------------------------------------------------------------
(* Steps of a control thread.                                              *)

LEMMA NewStream ==
  ASSUME IInv, NEW g \in Groups, NEW proto \in {"tcp", "http", "unknown"}, OnOpenStream(g, proto),
         NEW o \in Stream, o = opened + 1, NEW n \in Stream, n = next_id
  PROVE  \E s \in Streams :
           /\ strm' = [strm EXCEPT ![o] = s]
           /\ s.id = n /\ s.given = 0 /\ s.closed = "none" /\ s.pending = <<>> /\ s.written = <<>>
           /\ \/ s.thread \in {"none", "job"}
              \/ s.thread = "connect" /\ g_streams' = [g_streams EXCEPT ![n] = o]
           /\ g_streams' \in {g_streams, [g_streams EXCEPT ![n] = o]}
<1>1. MaxChunks + 1 \in Nat /\ n \in Nat
  BY LiteClientAssumption DEF Stream
<1>3. PICK x : x = Fresh(n, g)
  OBVIOUS
<1>4. /\ x \in Streams /\ x.id = n /\ x.given = 0 /\ x.thread = "none" /\ x.alive
      /\ x.closed = "none" /\ ~x.shut /\ x.pending = <<>> /\ x.written = <<>>
  BY <1>1, <1>3, FreshRight
<1>5. /\ proto = "unknown" => strm' = [strm EXCEPT ![o] = Reported(x, "abort")] /\ g_streams' = g_streams
      /\ proto = "http" => /\ strm' = [strm EXCEPT ![o] = [x EXCEPT !.thread = "job"]]
                           /\ g_streams' = [g_streams EXCEPT ![n] = o]
      /\ proto = "tcp" => /\ strm' = [strm EXCEPT ![o] =
                                         [x EXCEPT !.thread = "connect", !.toSend = MaxChunks + 1]]
                          /\ g_streams' = [g_streams EXCEPT ![n] = o]
  BY <1>3 DEF OnOpenStream, Fresh
<1>6. CASE proto = "unknown"
  <2> DEFINE s == Reported(x, "abort")
  <2>1. /\ s \in Streams /\ s.id = x.id /\ s.given = x.given /\ s.thread = x.thread
        /\ s.closed = x.closed /\ s.pending = x.pending /\ s.written = x.written
    BY <1>4, ReportedRight
  <2>2. strm' = [strm EXCEPT ![o] = s] /\ g_streams' = g_streams
    BY <1>5, <1>6
  <2> HIDE DEF s
  <2> QED
    BY <1>4, <2>1, <2>2
<1>7. CASE proto = "http"
  <2> DEFINE s == [x EXCEPT !.thread = "job"]
  <2>1. /\ s \in Streams /\ s.id = x.id /\ s.given = x.given /\ s.thread = "job"
        /\ s.closed = x.closed /\ s.pending = x.pending /\ s.written = x.written
    BY <1>4, SetThread DEF Threads
  <2>2. strm' = [strm EXCEPT ![o] = s] /\ g_streams' = [g_streams EXCEPT ![n] = o]
    BY <1>5, <1>7
  <2> HIDE DEF s
  <2> QED
    BY <1>4, <2>1, <2>2
<1>8. CASE proto = "tcp"
  <2> DEFINE m == MaxChunks + 1
             y == [x EXCEPT !.thread = "connect"]
             s == [y EXCEPT !.toSend = m]
  <2>1. strm' = [strm EXCEPT ![o] = s] /\ g_streams' = [g_streams EXCEPT ![n] = o]
    BY <1>5, <1>8
  <2>2. /\ y \in Streams /\ y.id = x.id /\ y.given = x.given /\ y.thread = "connect"
        /\ y.closed = x.closed /\ y.pending = x.pending /\ y.written = x.written
    BY <1>4, SetThread DEF Threads
  <2>3. m \in Nat
    BY <1>1
  <2> HIDE DEF y, m
  <2>4. /\ s \in Streams /\ s.id = y.id /\ s.given = y.given /\ s.thread = "connect"
        /\ s.closed = y.closed /\ s.pending = y.pending /\ s.written = y.written
    BY <2>2, <2>3, SetToSend
  <2> HIDE DEF s
  <2> QED
    BY <1>4, <2>1, <2>2, <2>4
<1> QED
  BY <1>6, <1>7, <1>8

LEMMA OpenStreamInv ==
  ASSUME IInv, NEW g \in Groups, NEW proto \in {"tcp", "http", "unknown"}, OnOpenStream(g, proto)
  PROVE  IInv'
<1>a. /\ opened < MaxStreams /\ Unlocked /\ opened' = opened + 1 /\ next_id' = next_id + 1
      /\ loop' = loop /\ shutting' = shutting
  BY DEF OnOpenStream
<1>b. /\ strm \in [Stream -> Streams] /\ g_streams \in [Stream -> 0 .. opened]
      /\ shutting \in [Groups -> 0 .. opened]
  BY DEF IInv, TypeOK
<1>c. opened \in 0 .. MaxStreams /\ MaxStreams \in Nat /\ next_id \in 1 .. opened + 1
  BY LiteClientAssumption DEF IInv, TypeOK
<1>d. PICK o \in Stream, n \in Stream : o = opened + 1 /\ n = next_id
  BY <1>a, <1>c DEF Stream
<1>1. PICK s \in Streams :
           /\ strm' = [strm EXCEPT ![o] = s]
           /\ s.id = n /\ s.given = 0 /\ s.closed = "none" /\ s.pending = <<>> /\ s.written = <<>>
           /\ \/ s.thread \in {"none", "job"}
              \/ s.thread = "connect" /\ g_streams' = [g_streams EXCEPT ![n] = o]
           /\ g_streams' \in {g_streams, [g_streams EXCEPT ![n] = o]}
  BY <1>d, NewStream
<1>2. opened \in Nat /\ opened' = o /\ next_id' = n + 1 /\ o \in 0 .. MaxStreams /\ o \notin 1 .. opened
  BY <1>a, <1>c, <1>d DEF Stream
<1>3. /\ strm' \in [Stream -> Streams] /\ strm'[o] = s /\ \A u \in Stream : u # o => strm'[u] = strm[u]
  BY <1>b, <1>1
<1>4. /\ g_streams' \in [Stream -> 0 .. o]
      /\ \A j \in Stream : j # n => g_streams'[j] = g_streams[j]
      /\ g_streams'[n] \in {g_streams[n], o}
  BY <1>b, <1>c, <1>d, <1>1, <1>2
<1>5. \A u \in 1 .. opened : strm'[u] = strm[u] /\ u \in Stream
  BY <1>2, <1>3, <1>d, Basics
<1>6. TypeOK'
  <2>1. shutting' \in [Groups -> 0 .. o] /\ next_id' \in 1 .. o + 1
    BY <1>a, <1>b, <1>c, <1>d, <1>2
  <2> QED
    BY <1>a, <1>2, <1>3, <1>4, <2>1 DEF IInv, TypeOK
<1>7. TableRight'
  <2>1. \A u \in 1 .. o : strm'[u].id \in Stream
    BY <1>c, <1>d, <1>1, <1>2, <1>3, <1>5, Basics
  <2>2. ASSUME NEW j \in Stream, g_streams'[j] # None PROVE strm'[g_streams'[j]].id = j
    <3>1. CASE g_streams'[j] = g_streams[j]
      BY <1>5, <2>2, <3>1, TableType
    <3>2. CASE g_streams'[j] # g_streams[j]
      BY <1>1, <1>3, <1>4, <3>2
    <3> QED
      BY <3>1, <3>2
  <2> QED
    BY <1>2, <2>1, <2>2 DEF TableRight
<1>8. LoopsRight'
  BY <1>a DEF IInv, LoopsRight, Unlocked
<1>9. ASSUME NEW u \in 1 .. opened PROVE StreamRight(u)'
  <2>1. StreamRight(u) /\ (Clashes(u) => Clashes(u)')
    BY <1>c, <1>d, <1>2, <1>5, Basics, ClashesStay DEF IInv
  <2>2. Ahead(u) => Ahead(u)'
    BY <1>a DEF Ahead, Unlocked
  <2>3. ~Clashes(u)' => strm[u].id # n
    BY <1>c, <1>d, <1>1, <1>2, <1>3, <1>5 DEF Clashes
  <2>4. InTable(u) /\ ~Clashes(u)' => InTable(u)'
    BY <1>4, <1>5, <2>3, Basics DEF InTable
  <2> QED
    BY <1>5, <2>1, <2>2, <2>4 DEF StreamRight
<1>10. StreamRight(o)'
  <2>1. s.pending = UpTo(s.given)
    BY <1>1 DEF UpTo
  <2>2. Active(s) => InTable(o)'
    BY <1>b, <1>1, <1>3 DEF Active, InTable
  <2> QED
    BY <1>1, <1>3, <2>1, <2>2 DEF StreamRight, Sane, Active, Stuck, Whole, Connected
<1> QED
  BY <1>c, <1>d, <1>2, <1>6, <1>7, <1>8, <1>9, <1>10 DEF IInv

LEMMA CloseStreamInv ==
  ASSUME IInv, NEW g \in Groups, NEW o \in 1 .. opened, OnCloseStream(g, o) PROVE IInv'
<1>1. PICK i \in Stream : i = strm[o].id
  BY Basics
<1>2. /\ strm \in [Stream -> Streams] /\ g_streams \in [Stream -> 0 .. opened] /\ o \in Stream
      /\ loop \in [Groups -> {"top", "read", "shut", "shut dead", "dead", "sweep", "after", "exited"}]
      /\ shutting \in [Groups -> 0 .. opened] /\ opened \in Nat /\ 0 \in Nat
  BY Basics DEF IInv, TypeOK
<1>3. /\ opened' = opened /\ next_id' = next_id /\ Unlocked /\ loop[g] = "read"
      /\ g_streams' = [g_streams EXCEPT ![i] = None]
  BY <1>1 DEF OnCloseStream, Remove
<1>4. /\ g_streams' \in [Stream -> 0 .. opened] /\ g_streams'[i] = None
      /\ \A j \in Stream : j # i => g_streams'[j] = g_streams[j]
  <2>1. g_streams \in [Stream -> 0 .. opened]
    BY <1>2
  <2>2. None \in 0 .. opened
    BY Basics DEF None
  <2>3. g_streams' = [g_streams EXCEPT ![i] = None]
    BY <1>3
  <2> QED
    BY <1>1, <2>1, <2>2, <2>3
<1>a. PICK r \in Streams : r = strm[o]
  BY <1>2
<1>b. PICK z \in Nat : z = 0
  OBVIOUS
<1>c. PICK x : x = [r EXCEPT !.toSend = z]
  OBVIOUS
<1>5. /\ x \in Streams /\ x.id = strm[o].id /\ x.given = strm[o].given /\ x.thread = strm[o].thread
      /\ x.alive = strm[o].alive /\ x.closed = strm[o].closed /\ x.shut = strm[o].shut
      /\ x.pending = strm[o].pending /\ x.written = strm[o].written /\ x.told = strm[o].told
  <2>1. /\ x \in Streams /\ x.id = r.id /\ x.given = r.given /\ x.thread = r.thread
        /\ x.alive = r.alive /\ x.closed = r.closed /\ x.shut = r.shut
        /\ x.pending = r.pending /\ x.written = r.written /\ x.told = r.told
    BY <1>c, SetToSend
  <2> QED
    BY <1>a, <2>1
<1> DEFINE said == [strm EXCEPT ![o].toSend = 0]
<1>6. said \in [Stream -> Streams] /\ said[o] = x /\ \A u \in Stream : u # o => said[u] = strm[u]
  <2>1. said = [strm EXCEPT ![o] = x]
    BY <1>a, <1>b, <1>c
  <2> HIDE DEF said
  <2> QED
    BY <1>2, <1>5, <2>1
<1>7. \A u \in Stream : /\ said[u].id = strm[u].id /\ said[u].closed = strm[u].closed
                        /\ said[u].thread = strm[u].thread /\ said[u].shut = strm[u].shut
                        /\ said[u].alive = strm[u].alive /\ said[u].told = strm[u].told
                        /\ said[u].given = strm[u].given
                        /\ said[u].pending = strm[u].pending /\ said[u].written = strm[u].written
  BY <1>5, <1>6
<1>8. CASE Entry(o) = None
  <2>1. strm' = said /\ loop' = loop /\ shutting' = shutting
    BY <1>8 DEF OnCloseStream
  <2> HIDE DEF said
  <2>2. g_streams[i] = None /\ g_streams' = g_streams
    BY <1>1, <1>2, <1>3, <1>8 DEF Entry
  <2>3. TypeOK'
    BY <1>3, <1>6, <2>1, <2>2 DEF IInv, TypeOK
  <2>4. TableRight'
    BY <1>3, <1>7, <2>1, <2>2, TableType, Basics DEF IInv, TableRight
  <2>5. LoopsRight'
    BY <1>3, <2>1 DEF IInv, LoopsRight, Unlocked
  <2>6. ASSUME NEW u \in 1 .. opened PROVE StreamRight(u)'
    <3>1. u \in Stream /\ StreamRight(u) /\ (Clashes(u) => Clashes(u)')
      BY <1>3, <1>7, <2>1, Basics, ClashesStay DEF IInv
    <3>2. (Ahead(u) => Ahead(u)') /\ (InTable(u) => InTable(u)')
      BY <1>7, <2>1, <2>2, <3>1 DEF Ahead, InTable
    <3> QED
      BY <1>7, <2>1, <3>1, <3>2 DEF StreamRight, Sane, Active, Stuck, Whole, Connected
  <2> QED
    BY <1>3, <2>3, <2>4, <2>5, <2>6 DEF IInv
<1>9. CASE Entry(o) # None
  <2>1. PICK e \in 1 .. opened : e = Entry(o) /\ strm[e].id = i
    BY <1>1, <1>9, TableType DEF Entry
  <2>2. /\ e \in Stream /\ strm' = [said EXCEPT ![e] = Closed(@, "server")]
        /\ shutting' = [shutting EXCEPT ![g] = e] /\ loop' = [loop EXCEPT ![g] = "shut"]
        /\ g_streams[i] = e /\ e # None /\ said[e] \in Streams
    BY <1>1, <1>6, <1>9, <2>1, Basics DEF OnCloseStream, Goto, Entry
  <2>a. PICK q \in Streams : q = said[e]
    BY <2>2
  <2>b. PICK t : t = Closed(q, "server")
    OBVIOUS
  <2>3. /\ t \in Streams /\ t.id = strm[e].id /\ t.given = strm[e].given /\ t.thread = strm[e].thread
        /\ t.alive = strm[e].alive /\ t.shut = strm[e].shut /\ t.told = strm[e].told
        /\ t.pending = strm[e].pending /\ t.written = strm[e].written
        /\ t.closed = IF strm[e].closed = "none" THEN "server" ELSE strm[e].closed
    <3>2. /\ t \in Streams /\ t.id = q.id /\ t.given = q.given /\ t.thread = q.thread
          /\ t.alive = q.alive /\ t.shut = q.shut /\ t.told = q.told
          /\ t.pending = q.pending /\ t.written = q.written
          /\ t.closed = IF q.closed = "none" THEN "server" ELSE q.closed
      BY <2>b, ClosedRight
    <3> HIDE DEF said
    <3> QED
      BY <1>7, <2>2, <2>a, <3>2
  <2>4. strm' \in [Stream -> Streams] /\ strm'[e] = t /\ \A u \in Stream : u # e => strm'[u] = said[u]
    <3> HIDE DEF said
    <3>1. strm' = [said EXCEPT ![e] = t]
      BY <2>2, <2>a, <2>b
    <3> QED
      BY <1>6, <2>2, <2>3, <3>1
  <2> HIDE DEF said
  <2>5. \A u \in Stream : /\ strm'[u].id = strm[u].id
                          /\ strm[u].closed # "none" => strm'[u].closed = strm[u].closed
    BY <1>7, <2>3, <2>4
  <2>6. /\ shutting' \in [Groups -> 0 .. opened] /\ shutting'[g] = e
        /\ loop' \in [Groups -> {"top", "read", "shut", "shut dead", "dead", "sweep", "after", "exited"}]
        /\ loop'[g] = "shut"
        /\ \A h \in Groups : h # g => shutting'[h] = shutting[h] /\ loop'[h] = loop[h]
    BY <1>2, <2>1, <2>2
  <2>7. TypeOK'
    BY <1>3, <1>4, <2>4, <2>6 DEF IInv, TypeOK
  <2>8. TableRight'
    <3>1. \A u \in 1 .. opened : strm'[u].id \in Stream
      BY <2>5, Basics
    <3>2. ASSUME NEW j \in Stream, g_streams'[j] # None PROVE strm'[g_streams'[j]].id = j
      BY <1>4, <2>5, <3>2, TableType, Basics
    <3> QED
      BY <1>3, <3>1, <3>2 DEF TableRight
  <2>9. LoopsRight'
    BY <1>3, <2>2, <2>6 DEF IInv, LoopsRight, Unlocked
  <2>10. ASSUME NEW u \in 1 .. opened PROVE StreamRight(u)'
    <3>1. u \in Stream /\ StreamRight(u) /\ (Clashes(u) => Clashes(u)')
      BY <1>3, <2>5, Basics, ClashesStay DEF IInv
    <3>2. CASE u = e
      <4>1. Ahead(u)'
        BY <2>6, <3>2 DEF Ahead
      <4>2. strm'[u].closed # "none"
        BY <2>3, <2>4, <3>2
      <4>3. Sane(strm'[u])
        BY <2>3, <2>4, <3>1, <3>2 DEF StreamRight, Sane
      <4> QED
        BY <4>1, <4>2, <4>3 DEF StreamRight, Active
    <3>3. CASE u # e
      <4>1. shutting[g] = None
        BY <1>3 DEF IInv, LoopsRight
      <4>2. Ahead(u) => Ahead(u)'
        BY <1>3, <2>6, <4>1, Basics DEF Ahead, Unlocked
      <4>3. InTable(u) => InTable(u)'
        BY <1>4, <2>2, <2>5, <3>1, <3>3, Basics DEF InTable
      <4>4. strm'[u] = said[u]
        BY <2>4, <3>1, <3>3
      <4> QED
        BY <1>7, <3>1, <4>2, <4>3, <4>4 DEF StreamRight, Sane, Active, Stuck, Whole, Connected
    <3> QED
      BY <3>2, <3>3
  <2> QED
    BY <1>3, <2>7, <2>8, <2>9, <2>10 DEF IInv
<1> QED
  BY <1>8, <1>9

\* A stream that takes a chunk: only its two queues change.
LEMMA TakenSane ==
  ASSUME NEW s \in Streams, Sane(s), NEW n \in Nat, NEW t, t = Taken(s, n)
  PROVE  /\ t \in Streams /\ Sane(t) /\ t.id = s.id /\ t.closed = s.closed
         /\ (Active(t) => Active(s)) /\ (Stuck(t) => Stuck(s)) /\ t.shut = s.shut
         /\ Active(s) /\ s.given = n /\ (IF Connected(s) THEN s.written = UpTo(n - 1) ELSE s.pending = UpTo(n - 1))
            /\ n > 0 => Whole(t)
<1>1. /\ t \in Streams /\ t.id = s.id /\ t.given = s.given /\ t.thread = s.thread
      /\ t.alive = s.alive /\ t.closed = s.closed /\ t.shut = s.shut /\ t.told = s.told
      /\ Connected(s) => t.pending = s.pending /\ t.written = Append(s.written, n)
      /\ ~Connected(s) => t.written = s.written /\ t.pending = Append(s.pending, n)
  <2>1. /\ t \in Streams /\ t.id = s.id /\ t.given = s.given /\ t.thread = s.thread
        /\ t.alive = s.alive /\ t.closed = s.closed /\ t.shut = s.shut /\ t.told = s.told
    BY TakenRight
  <2>2. Connected(s) => t.pending = s.pending /\ t.written = Append(s.written, n)
    BY TakenRight
  <2>3. ~Connected(s) => t.written = s.written /\ t.pending = Append(s.pending, n)
    BY TakenRight
  <2> QED
    BY <2>1, <2>2, <2>3
<1>2. Sane(t)
  BY <1>1 DEF Sane, Connected
<1>3. /\ t.closed = s.closed /\ (Active(t) => Active(s)) /\ (Stuck(t) => Stuck(s))
  BY <1>1 DEF Active, Stuck
<1>4. ASSUME Active(s), s.given = n, IF Connected(s) THEN s.written = UpTo(n - 1) ELSE s.pending = UpTo(n - 1),
             n > 0
      PROVE  Whole(t)
  <2>1. Append(UpTo(n - 1), n) = UpTo(n)
    <3>1. n - 1 \in Nat /\ (n - 1) + 1 = n
      BY <1>4
    <3> QED
      BY <3>1, OneMore
  <2>2. Connected(t) <=> Connected(s)
    BY <1>1 DEF Connected
  <2> QED
    BY <1>1, <1>4, <2>1, <2>2 DEF Whole
<1> QED
  BY <1>1, <1>2, <1>3, <1>4

LEMMA ChunkInv ==
  ASSUME IInv, NEW g \in Groups, NEW o \in 1 .. opened, OnChunk(g, o) PROVE IInv'
<1>1. PICK i \in Stream : i = strm[o].id
  BY Basics
<1>2. strm \in [Stream -> Streams] /\ o \in Stream
  BY Basics DEF IInv, TypeOK
<1>3. PICK r \in Streams : r = strm[o] /\ r.toSend \in Nat /\ r.given \in Nat /\ r.toSend > 1
  BY <1>2 DEF OnChunk, Streams
<1>4. PICK a \in Nat, n \in Nat : a = r.toSend - 1 /\ n = r.given + 1
  BY <1>3
<1>5. PICK y : y = [r EXCEPT !.toSend = a]
  OBVIOUS
<1>6. /\ y \in Streams /\ y.id = r.id /\ y.given = r.given /\ y.thread = r.thread
      /\ y.alive = r.alive /\ y.closed = r.closed /\ y.shut = r.shut
      /\ y.pending = r.pending /\ y.written = r.written /\ y.told = r.told
  BY <1>5, SetToSend
<1>7. PICK x : x = [y EXCEPT !.given = n]
  OBVIOUS
<1>8. /\ x \in Streams /\ x.given = n /\ x.id = y.id /\ x.thread = y.thread
      /\ x.alive = y.alive /\ x.closed = y.closed /\ x.shut = y.shut
      /\ x.pending = y.pending /\ x.written = y.written /\ x.told = y.told
  BY <1>6, <1>7, SetGiven
<1>9. Sane(x)
  <2>1. Sane(r)
    BY <1>3 DEF IInv, StreamRight
  <2> QED
    BY <1>6, <1>8, <2>1 DEF Sane, Connected
<1> DEFINE said == [strm EXCEPT ![o].toSend = @ - 1, ![o].given = n]
<1>10. said \in [Stream -> Streams] /\ said[o] = x /\ \A u \in Stream : u # o => said[u] = strm[u]
  <2>1. said = [strm EXCEPT ![o] = x]
    BY <1>2, <1>3, <1>4, <1>5, <1>7
  <2> HIDE DEF said
  <2> QED
    BY <1>2, <1>8, <2>1
<1>11. /\ opened' = opened /\ next_id' = next_id /\ loop' = loop /\ shutting' = shutting
       /\ g_streams' = g_streams
       /\ strm' = IF Entry(o) = None THEN said ELSE [said EXCEPT ![Entry(o)] = Taken(@, n)]
  BY <1>3, <1>4 DEF OnChunk
<1> HIDE DEF said
<1>12. ASSUME /\ strm' \in [Stream -> Streams]
              /\ \A u \in Stream : strm'[u].id = strm[u].id /\ strm'[u].closed = strm[u].closed
              /\ \A u \in 1 .. opened : StreamRight(u)'
       PROVE  IInv'
  <2>1. TypeOK'
    BY <1>11, <1>12 DEF IInv, TypeOK
  <2>2. TableRight'
    BY <1>11, <1>12, TableType, Basics DEF IInv, TableRight
  <2>3. LoopsRight'
    BY ZenonT(60), <1>11, <1>12, TableType, Basics DEF IInv, LoopsRight
  <2> QED
    BY <1>11, <1>12, <2>1, <2>2, <2>3 DEF IInv
<1>13. ASSUME \A u \in Stream : strm'[u].id = strm[u].id, NEW u \in 1 .. opened
       PROVE  /\ u \in Stream /\ StreamRight(u) /\ (Clashes(u) => Clashes(u)')
              /\ (Ahead(u) => Ahead(u)') /\ (InTable(u) => InTable(u)')
  <2>1. u \in Stream /\ StreamRight(u) /\ (Clashes(u) => Clashes(u)')
    BY <1>11, <1>13, Basics, ClashesStay DEF IInv
  <2>2. (Ahead(u) => Ahead(u)') /\ (InTable(u) => InTable(u)')
    BY <1>11, <1>13, <2>1 DEF Ahead, InTable
  <2> QED
    BY <2>1, <2>2
<1>14. CASE Entry(o) = None
  <2>1. strm' = said
    BY <1>11, <1>14
  <2>2. \A u \in Stream : strm'[u].id = strm[u].id /\ strm'[u].closed = strm[u].closed
    BY <1>3, <1>6, <1>8, <1>10, <2>1
  <2>3. ASSUME NEW u \in 1 .. opened PROVE StreamRight(u)'
    <3>1. CASE u = o
      <4>1. ~InTable(o)
        BY <1>14, Basics DEF Entry, InTable
      <4> QED
        BY <1>3, <1>6, <1>8, <1>9, <1>10, <1>13, <2>1, <2>2, <3>1, <4>1 DEF StreamRight, Active, Stuck
    <3>2. CASE u # o
      BY <1>10, <1>13, <2>1, <2>2, <3>2 DEF StreamRight
    <3> QED
      BY <3>1, <3>2
  <2> QED
    BY <1>10, <1>12, <2>1, <2>2, <2>3
<1>15. CASE Entry(o) # None
  <2>1. PICK e \in 1 .. opened : e = Entry(o) /\ strm[e].id = i
    BY <1>1, <1>15, TableType DEF Entry
  <2>2. PICK q \in Streams : q = said[e] /\ e \in Stream
    BY <1>10, <2>1, Basics
  <2>3. PICK t : t = Taken(q, n)
    OBVIOUS
  <2>4. Sane(q) /\ q.id = strm[e].id /\ q.closed = strm[e].closed
    BY <1>3, <1>6, <1>8, <1>9, <1>10, <2>1, <2>2 DEF IInv, StreamRight
  <2>5. /\ t \in Streams /\ Sane(t) /\ t.id = q.id /\ t.closed = q.closed
        /\ (Active(t) => Active(q)) /\ (Stuck(t) => Stuck(q)) /\ t.shut = q.shut
        /\ Active(q) /\ q.given = n /\ (IF Connected(q) THEN q.written = UpTo(n - 1) ELSE q.pending = UpTo(n - 1))
           /\ n > 0 => Whole(t)
    BY <2>3, <2>4, TakenSane
  <2>6. strm' \in [Stream -> Streams] /\ strm'[e] = t /\ \A u \in Stream : u # e => strm'[u] = said[u]
    <3>1. strm' = [said EXCEPT ![e] = t]
      BY <1>11, <1>15, <2>1, <2>2, <2>3
    <3> QED
      BY <1>10, <2>2, <2>5, <3>1
  <2>7. \A u \in Stream : strm'[u].id = strm[u].id /\ strm'[u].closed = strm[u].closed
    BY <1>3, <1>6, <1>8, <1>10, <2>2, <2>4, <2>5, <2>6
  <2>8. ASSUME e # o PROVE Clashes(e)' /\ Clashes(o)'
    <3>1. Clashes(e) /\ Clashes(o)
      BY <1>1, <2>1, <2>8 DEF Clashes
    <3> QED
      BY <1>13, <2>7, <3>1
  <2>9. ASSUME NEW u \in 1 .. opened PROVE StreamRight(u)'
    <3>1. CASE u # e /\ u # o
      BY <1>10, <1>13, <2>6, <2>7, <3>1 DEF StreamRight
    <3>2. CASE e # o /\ u = o
      BY <1>3, <1>6, <1>8, <1>9, <1>10, <1>13, <2>6, <2>7, <2>8, <3>2 DEF StreamRight, Stuck
    <3>3. CASE e # o /\ u = e
      BY <1>10, <1>13, <2>2, <2>5, <2>6, <2>7, <2>8, <3>3 DEF StreamRight, Stuck
    <3>4. CASE e = o /\ u = e
      <4>1. q = x /\ r.given = n - 1 /\ n > 0
        BY <1>3, <1>4, <1>10, <2>2, <3>4
      <4>2. Whole(r) => Whole(t) \/ ~Active(t)
        BY <1>6, <1>8, <2>5, <4>1 DEF Whole, Connected
      <4>3. (Active(t) => Active(r)) /\ (Stuck(t) => Stuck(r) /\ t.shut = r.shut)
        BY <1>6, <1>8, <2>5, <4>1 DEF Active, Stuck
      <4> QED
        BY <1>3, <1>13, <2>5, <2>6, <2>7, <3>4, <4>2, <4>3 DEF StreamRight
    <3> QED
      BY <3>1, <3>2, <3>3, <3>4
  <2> QED
    BY <1>12, <2>6, <2>7, <2>9
<1> QED
  BY <1>14, <1>15

Labels == {"top", "read", "shut", "shut dead", "dead", "sweep", "after", "exited"}

\* A control thread, or all of them, go where nothing is held or shut down.
LEMMA LoopStep ==
  ASSUME IInv, UNCHANGED <<opened, strm, g_streams, shutting>>, next_id' \in 1 .. opened + 1,
         loop' \in [Groups -> Labels],
         \A h \in Groups : /\ loop'[h] = "sweep" <=> loop[h] = "sweep"
                           /\ loop'[h] \in {"shut", "shut dead"} <=> loop[h] \in {"shut", "shut dead"}
  PROVE  IInv'
<1>1. opened' = opened /\ strm' = strm /\ g_streams' = g_streams /\ shutting' = shutting
  OBVIOUS
<1>2. TypeOK'
  BY <1>1 DEF IInv, TypeOK, Labels
<1>3. TableRight'
  BY <1>1 DEF IInv, TableRight
<1>4. LoopsRight'
  BY <1>1 DEF IInv, LoopsRight
<1>5. ASSUME NEW u \in 1 .. opened PROVE StreamRight(u)'
  <2>1. StreamRight(u) /\ (Clashes(u) => Clashes(u)')
    BY <1>1 DEF IInv, Clashes
  <2>2. (Ahead(u) => Ahead(u)') /\ (InTable(u) => InTable(u)')
    BY <1>1 DEF Ahead, InTable
  <2> QED
    BY <1>1, <2>1, <2>2 DEF StreamRight
<1> QED
  BY <1>1, <1>2, <1>3, <1>4, <1>5 DEF IInv

LEMMA LoopInv ==
  ASSUME IInv, ServerRestarts \/ \E g \in Groups : Connect(g) \/ ConnectFails(g) \/ After(g)
  PROVE  IInv'
<1>1. loop \in [Groups -> Labels] /\ next_id \in 1 .. opened + 1 /\ opened \in Nat
  BY Basics DEF IInv, TypeOK, Labels
<1>2. CASE ServerRestarts
  <2>1. UNCHANGED <<opened, strm, g_streams, shutting>> /\ next_id' \in 1 .. opened + 1
    <3>1. UNCHANGED <<opened, strm, g_streams, shutting>> /\ next_id' = 1
      BY <1>2 DEF ServerRestarts
    <3>2. 1 \in 1 .. opened + 1
      BY <1>1
    <3> QED
      BY <3>1, <3>2
  <2>2. /\ loop' \in [Groups -> Labels]
        /\ \A h \in Groups : /\ loop'[h] = "sweep" <=> loop[h] = "sweep"
                             /\ loop'[h] \in {"shut", "shut dead"} <=> loop[h] \in {"shut", "shut dead"}
    BY <1>1, <1>2 DEF ServerRestarts, Labels
  <2> QED
    BY <2>1, <2>2, LoopStep
<1>3. ASSUME NEW g \in Groups, Connect(g) \/ ConnectFails(g) \/ After(g) PROVE IInv'
  <2>1. UNCHANGED <<opened, strm, g_streams, shutting>> /\ next_id' \in 1 .. opened + 1
    BY <1>1, <1>3 DEF Connect, ConnectFails, After
  <2>2. PICK l \in {"read", "after", "top", "exited"} :
          loop' = [loop EXCEPT ![g] = l] /\ loop[g] \in {"top", "after"}
    BY <1>3 DEF Connect, ConnectFails, After, Goto
  <2>3. /\ loop' \in [Groups -> Labels]
        /\ \A h \in Groups : /\ loop'[h] = "sweep" <=> loop[h] = "sweep"
                             /\ loop'[h] \in {"shut", "shut dead"} <=> loop[h] \in {"shut", "shut dead"}
    BY <1>1, <2>2 DEF Labels
  <2> QED
    BY <2>1, <2>3, LoopStep
<1> QED
  BY <1>2, <1>3

LEMMA ShutdownInv == ASSUME IInv, NEW g \in Groups, Shutdown(g) PROVE IInv'
<1>1. /\ strm \in [Stream -> Streams] /\ loop \in [Groups -> Labels]
      /\ shutting \in [Groups -> 0 .. opened] /\ opened \in Nat
  BY Basics DEF IInv, TypeOK, Labels
<1>2. PICK e \in 1 .. opened : e = shutting[g] /\ e \in Stream /\ strm[e] \in Streams
  <2>1. shutting[g] \in 0 .. opened /\ shutting[g] # None
    BY <1>1 DEF IInv, LoopsRight, Shutdown
  <2> QED
    BY <2>1, Basics DEF None
<1>3. PICK t : t = ShutDown(strm[e])
  OBVIOUS
<1>4. /\ t \in Streams /\ t.id = strm[e].id /\ t.given = strm[e].given /\ t.thread = strm[e].thread
      /\ t.alive = strm[e].alive /\ t.closed = strm[e].closed /\ t.told = strm[e].told
      /\ t.pending = strm[e].pending /\ t.written = strm[e].written
      /\ t.thread = "read" => t.shut
  <2>1. PICK s \in Streams : s = strm[e]
    BY <1>2
  <2>2. t = ShutDown(s)
    BY <1>3, <2>1
  <2>3. /\ t \in Streams /\ t.id = s.id /\ t.given = s.given /\ t.thread = s.thread
        /\ t.alive = s.alive /\ t.closed = s.closed /\ t.told = s.told
        /\ t.pending = s.pending /\ t.written = s.written
        /\ t.thread = "read" => t.shut
    BY <2>2, ShutDownRight
  <2> QED
    BY <2>1, <2>3
<1>5. PICK l \in {"read", "dead"} : loop' = [loop EXCEPT ![g] = l]
  BY DEF Shutdown, Goto
<1>6. /\ opened' = opened /\ next_id' = next_id /\ g_streams' = g_streams
      /\ strm' = [strm EXCEPT ![e] = t] /\ shutting' = [shutting EXCEPT ![g] = None]
      /\ loop[g] \in {"shut", "shut dead"}
  BY <1>2, <1>3 DEF Shutdown
<1>7. strm' \in [Stream -> Streams] /\ strm'[e] = t /\ \A u \in Stream : u # e => strm'[u] = strm[u]
  BY <1>1, <1>2, <1>4, <1>6
<1>8. \A u \in Stream : strm'[u].id = strm[u].id /\ strm'[u].closed = strm[u].closed
  BY <1>4, <1>7
<1>9. /\ loop' \in [Groups -> Labels] /\ loop'[g] = l
      /\ \A h \in Groups : h # g => loop'[h] = loop[h] /\ shutting'[h] = shutting[h]
  BY <1>1, <1>5, <1>6 DEF Labels
<1>10. shutting' \in [Groups -> 0 .. opened] /\ shutting'[g] = None
  <2>1. None \in 0 .. opened
    BY <1>1 DEF None
  <2> QED
    BY <1>1, <1>6, <2>1
<1>11. TypeOK'
  BY <1>6, <1>7, <1>9, <1>10 DEF IInv, TypeOK, Labels
<1>12. TableRight'
  BY <1>6, <1>8, TableType, Basics DEF IInv, TableRight
<1>13. LoopsRight'
  <2>1. \A h \in Groups : shutting'[h] = None <=> loop'[h] \notin {"shut", "shut dead"}
    BY <1>9, <1>10 DEF IInv, LoopsRight
  <2>2. \A h \in Groups : loop'[h] = "sweep" => loop[h] = "sweep"
    BY <1>9
  <2>3. \A h, k \in Groups : loop'[h] = "sweep" /\ loop'[k] = "sweep" => h = k
    BY <2>2 DEF IInv, LoopsRight
  <2>4. ASSUME NEW h \in Groups, loop'[h] = "sweep", NEW j \in Stream, g_streams'[j] # None
        PROVE  strm'[g_streams'[j]].closed # "none"
    BY ZenonT(60), <1>6, <1>8, <2>2, <2>4, TableType, Basics DEF IInv, LoopsRight
  <2> QED
    BY <2>1, <2>3, <2>4 DEF LoopsRight
<1>14. ASSUME NEW u \in 1 .. opened PROVE StreamRight(u)'
  <2>1. u \in Stream /\ StreamRight(u) /\ (Clashes(u) => Clashes(u)')
    <3>1. u \in Stream /\ StreamRight(u)
      BY Basics DEF IInv
    <3>2. \A v \in 1 .. opened : strm'[v].id = strm[v].id
      BY <1>8, Basics
    <3>3. opened' = opened /\ opened \in Nat
      BY <1>1, <1>6
    <3> QED
      BY <3>1, <3>2, <3>3, ClashesStay
  <2>2. InTable(u) => InTable(u)'
    BY <1>6, <1>8, <2>1 DEF InTable
  <2>3. CASE u = e
    BY <1>4, <1>7, <2>1, <2>2, <2>3 DEF StreamRight, Sane, Active, Stuck, Whole, Connected
  <2>4. CASE u # e
    <3>1. Ahead(u) => Ahead(u)'
      BY <1>2, <1>6, <1>9, <2>2, <2>4 DEF Ahead
    <3> QED
      BY <1>7, <2>1, <2>2, <2>4, <3>1 DEF StreamRight
  <2> QED
    BY <2>3, <2>4
<1> QED
  BY <1>6, <1>11, <1>12, <1>13, <1>14 DEF IInv

\* The streams a leaving session closes are the ones the table has under their number.
LEMMA HeldInTable == ASSUME IInv, NEW u \in 1 .. opened PROVE u \in Held <=> InTable(u)
<1>1. u \in Stream /\ u # None /\ strm[u].id \in Stream
  BY Basics
<1>2. ASSUME u \in Held PROVE InTable(u)
  <2>1. PICK i \in Stream : g_streams[i] = u
    BY <1>2 DEF Held
  <2> QED
    BY <1>1, <2>1, TableType DEF InTable
<1>3. ASSUME InTable(u) PROVE u \in Held
  BY <1>1, <1>3 DEF InTable, Held
<1> QED
  BY <1>2, <1>3

LEMMA LeaveInv == ASSUME IInv, NEW g \in Groups, LeaveSession(g) PROVE IInv'
<1>1. /\ strm \in [Stream -> Streams] /\ loop \in [Groups -> Labels] /\ opened \in Nat
      /\ shutting[g] = None
  <2>1. loop[g] \notin {"shut", "shut dead"}
    BY DEF LeaveSession
  <2> QED
    BY <2>1, Basics DEF IInv, TypeOK, Labels, LoopsRight
<1>2. /\ opened' = opened /\ next_id' = next_id /\ g_streams' = g_streams /\ shutting' = shutting
      /\ loop' = [loop EXCEPT ![g] = "sweep"] /\ Unlocked
  BY DEF LeaveSession, Goto
<1>3. strm' = [u \in Stream |->
        LET s == IF strm[u].group = g THEN [strm[u] EXCEPT !.alive = FALSE, !.toSend = 0] ELSE strm[u]
        IN  IF u \in Held THEN Closed(s, IF s.group = g THEN "own" ELSE "other") ELSE s]
  BY DEF LeaveSession
<1>4. ASSUME NEW u \in Stream
      PROVE  /\ strm'[u] \in Streams /\ strm'[u].id = strm[u].id /\ strm'[u].given = strm[u].given
             /\ strm'[u].thread = strm[u].thread /\ strm'[u].shut = strm[u].shut
             /\ strm'[u].told = strm[u].told
             /\ strm'[u].pending = strm[u].pending /\ strm'[u].written = strm[u].written
             /\ strm'[u].alive => strm[u].alive
             /\ strm[u].closed # "none" => strm'[u].closed = strm[u].closed
             /\ strm[u].closed = "none" /\ u \notin Held => strm'[u].closed = "none"
             /\ strm[u].closed = "none" /\ u \in Held =>
                  strm'[u].closed = "other" \/ (strm'[u].closed = "own" /\ ~strm'[u].alive)
  <2>1. PICK r \in Streams : r = strm[u]
    BY <1>1
  <2>2. PICK s : s = IF r.group = g THEN [r EXCEPT !.alive = FALSE, !.toSend = 0] ELSE r
    OBVIOUS
  <2>3. /\ s \in Streams /\ s.id = r.id /\ s.given = r.given /\ s.thread = r.thread
        /\ s.closed = r.closed /\ s.shut = r.shut /\ s.pending = r.pending
        /\ s.written = r.written /\ s.told = r.told /\ s.group = r.group
        /\ (s.alive => r.alive) /\ (r.group = g => ~s.alive)
    <3>1. CASE r.group = g
      <4>1. PICK f \in BOOLEAN, z \in Nat : f = FALSE /\ z = 0
        OBVIOUS
      <4>2. PICK x : x = [r EXCEPT !.alive = f]
        OBVIOUS
      <4>3. /\ x \in Streams /\ x.id = r.id /\ x.group = r.group /\ x.given = r.given
            /\ x.thread = r.thread /\ x.alive = f /\ x.closed = r.closed /\ x.shut = r.shut
            /\ x.pending = r.pending /\ x.written = r.written /\ x.told = r.told
        BY <4>2, SetAlive
      <4>4. s = [x EXCEPT !.toSend = z]
        BY <2>2, <3>1, <4>1, <4>2
      <4>5. /\ s \in Streams /\ s.id = x.id /\ s.group = x.group /\ s.given = x.given
            /\ s.thread = x.thread /\ s.alive = x.alive /\ s.closed = x.closed /\ s.shut = x.shut
            /\ s.pending = x.pending /\ s.written = x.written /\ s.told = x.told
        BY <4>3, <4>4, SetToSend
      <4> QED
        BY <4>1, <4>3, <4>5
    <3>2. CASE r.group # g
      BY <2>2, <3>2
    <3> QED
      BY <3>1, <3>2
  <2>4. strm'[u] = IF u \in Held THEN Closed(s, IF s.group = g THEN "own" ELSE "other") ELSE s
    BY <1>3, <2>1, <2>2
  <2>5. CASE u \in Held
    <3>1. PICK by \in {"server", "own", "other"} : by = IF s.group = g THEN "own" ELSE "other"
      OBVIOUS
    <3>2. PICK t : t = Closed(s, by)
      OBVIOUS
    <3>3. /\ t \in Streams /\ t.id = s.id /\ t.given = s.given /\ t.thread = s.thread
          /\ t.alive = s.alive /\ t.shut = s.shut /\ t.told = s.told
          /\ t.pending = s.pending /\ t.written = s.written
          /\ t.closed = IF s.closed = "none" THEN by ELSE s.closed
      BY <2>3, <3>2, ClosedRight
    <3>4. strm'[u] = t
      BY <2>4, <2>5, <3>1, <3>2
    <3> QED
      BY <2>1, <2>3, <2>5, <3>1, <3>3, <3>4
  <2>6. CASE u \notin Held
    BY <2>1, <2>3, <2>4, <2>6
  <2> QED
    BY <2>5, <2>6
<1>5. strm' \in [Stream -> Streams]
  BY <1>3, <1>4
<1>6. /\ loop' \in [Groups -> Labels] /\ loop'[g] = "sweep"
      /\ \A h \in Groups : h # g => loop'[h] = loop[h] /\ loop[h] # "sweep"
  BY <1>1, <1>2 DEF Labels, Unlocked
<1>7. TypeOK'
  BY <1>2, <1>5, <1>6 DEF IInv, TypeOK, Labels
<1>8. TableRight'
  BY <1>2, <1>4, TableType, Basics DEF IInv, TableRight
<1>9. LoopsRight'
  <2>1. \A h \in Groups : shutting'[h] = None <=> loop'[h] \notin {"shut", "shut dead"}
    BY <1>1, <1>2, <1>6 DEF IInv, LoopsRight
  <2>2. \A h, k \in Groups : loop'[h] = "sweep" /\ loop'[k] = "sweep" => h = k
    BY <1>6
  <2>3. ASSUME NEW j \in Stream, g_streams'[j] # None PROVE strm'[g_streams'[j]].closed # "none"
    <3>1. PICK u \in 1 .. opened : u = g_streams[j] /\ u \in Stream /\ u \in Held
      BY <1>2, <2>3, TableType, Basics DEF Held
    <3> QED
      BY <1>2, <1>4, <3>1
  <2> QED
    BY <2>1, <2>2, <2>3 DEF LoopsRight
<1>10. ASSUME NEW u \in 1 .. opened PROVE StreamRight(u)'
  <2>1. u \in Stream /\ StreamRight(u)
    BY Basics DEF IInv
  <2>2. \A v \in 1 .. opened : strm'[v].id = strm[v].id
    BY <1>4, Basics
  <2>3. Clashes(u) => Clashes(u)'
    BY <1>1, <1>2, <2>2, ClashesStay
  <2>4. (InTable(u) => InTable(u)') /\ (u \in Held <=> InTable(u))
    BY <1>2, <2>2, HeldInTable DEF InTable
  <2>5. Sane(strm'[u])
    BY <1>4, <2>1 DEF StreamRight, Sane
  <2>6. Active(strm'[u]) => Active(strm[u]) /\ u \notin Held
    BY <1>4, <2>1 DEF Active
  <2>7. Ahead(u) => Ahead(u)'
    BY <1>2, <1>6 DEF Ahead, Unlocked
  <2>8. u \in Held => Ahead(u)'
    BY <1>6, <2>4 DEF Ahead
  <2>9. Stuck(strm'[u]) => strm'[u].shut \/ Ahead(u)'
    BY <1>4, <2>1, <2>7, <2>8 DEF StreamRight, Stuck
  <2> QED
    BY <2>1, <2>3, <2>4, <2>5, <2>6, <2>9 DEF StreamRight
<1> QED
  BY <1>2, <1>7, <1>8, <1>9, <1>10 DEF IInv

LEMMA SweepInv == ASSUME IInv, NEW g \in Groups, Sweep(g) PROVE IInv'
<1>1. /\ strm \in [Stream -> Streams] /\ loop \in [Groups -> Labels] /\ opened \in Nat
      /\ loop[g] = "sweep" /\ shutting[g] = None
  BY Basics DEF IInv, TypeOK, Labels, LoopsRight, Sweep
<1>2. /\ opened' = opened /\ next_id' = next_id /\ shutting' = shutting
      /\ loop' = [loop EXCEPT ![g] = "after"] /\ g_streams' = [i \in Stream |-> None]
      /\ strm' = [u \in Stream |-> IF u \in Held THEN ShutDown(strm[u]) ELSE strm[u]]
  BY DEF Sweep, Goto
<1>3. ASSUME NEW u \in Stream
      PROVE  /\ strm'[u] \in Streams /\ strm'[u].id = strm[u].id /\ strm'[u].given = strm[u].given
             /\ strm'[u].thread = strm[u].thread /\ strm'[u].alive = strm[u].alive
             /\ strm'[u].closed = strm[u].closed /\ strm'[u].told = strm[u].told
             /\ strm'[u].pending = strm[u].pending /\ strm'[u].written = strm[u].written
             /\ u \in Held /\ strm[u].thread = "read" => strm'[u].shut
             /\ u \notin Held => strm'[u].shut = strm[u].shut
  <2>1. PICK s \in Streams : s = strm[u]
    BY <1>1
  <2>2. CASE u \in Held
    <3>1. PICK t : t = ShutDown(s)
      OBVIOUS
    <3>2. /\ t \in Streams /\ t.id = s.id /\ t.given = s.given /\ t.thread = s.thread
          /\ t.alive = s.alive /\ t.closed = s.closed /\ t.told = s.told
          /\ t.pending = s.pending /\ t.written = s.written
          /\ t.thread = "read" => t.shut
      BY <3>1, ShutDownRight
    <3>3. strm'[u] = t
      BY <1>2, <2>1, <2>2, <3>1
    <3> QED
      BY <2>1, <2>2, <3>2, <3>3
  <2>3. CASE u \notin Held
    BY <1>2, <2>1, <2>3
  <2> QED
    BY <2>2, <2>3
<1>4. strm' \in [Stream -> Streams]
  BY <1>2, <1>3
<1>5. /\ loop' \in [Groups -> Labels] /\ loop'[g] = "after"
      /\ \A h \in Groups : h # g => loop'[h] = loop[h] /\ loop[h] # "sweep"
  BY <1>1, <1>2 DEF Labels, IInv, LoopsRight
<1>6. g_streams' \in [Stream -> 0 .. opened] /\ \A i \in Stream : g_streams'[i] = None
  BY <1>1, <1>2 DEF None
<1>7. TypeOK'
  BY <1>2, <1>4, <1>5, <1>6 DEF IInv, TypeOK, Labels
<1>8. TableRight'
  BY <1>2, <1>3, <1>6, Basics DEF TableRight
<1>9. LoopsRight'
  BY <1>1, <1>2, <1>5, <1>6 DEF IInv, LoopsRight
<1>10. ASSUME NEW u \in 1 .. opened PROVE StreamRight(u)'
  <2>1. u \in Stream /\ StreamRight(u)
    BY Basics DEF IInv
  <2>2. \A v \in 1 .. opened : strm'[v].id = strm[v].id
    BY <1>3, Basics
  <2>3. Clashes(u) => Clashes(u)'
    BY <1>1, <1>2, <2>2, ClashesStay
  <2>4. u \in Held <=> InTable(u)
    BY HeldInTable
  <2>5. Sane(strm'[u])
    BY <1>3, <2>1 DEF StreamRight, Sane
  <2>6. ~Clashes(u)' => ~Active(strm'[u])
    <3>1. InTable(u) => strm[u].closed # "none"
      BY <1>1, <2>1, Basics DEF IInv, LoopsRight, InTable
    <3> QED
      BY <1>3, <2>1, <2>3, <3>1 DEF StreamRight, Active
  <2>7. Ahead(u) /\ ~InTable(u) => Ahead(u)'
    <3>1. \A h \in Groups : shutting[h] = u => shutting'[h] = u
      BY <1>2
    <3> QED
      BY <3>1 DEF Ahead
  <2>8. Stuck(strm'[u]) => strm'[u].shut \/ Ahead(u)'
    BY <1>3, <2>1, <2>4, <2>7 DEF StreamRight, Stuck
  <2> QED
    BY <2>5, <2>6, <2>8 DEF StreamRight
<1> QED
  BY <1>2, <1>7, <1>8, <1>9, <1>10 DEF IInv

-----------------------------------------------------------------------------
(* Every step, and what follows from the invariant.                        *)

LEMMA InitInv == Init => IInv
<1> SUFFICES ASSUME Init PROVE IInv
  OBVIOUS
<1>1. opened = 0 /\ next_id = 1 /\ MaxStreams \in Nat
  BY LiteClientAssumption DEF Init
<1>2. Unborn \in Streams
  <2>1. <<>> \in Seq(Nat)
    OBVIOUS
  <2> QED
    BY <2>1, SMT DEF Unborn, Streams, None, Threads
<1>3. strm \in [Stream -> Streams]
  BY <1>2 DEF Init
<1>4. TypeOK
  BY <1>1, <1>3 DEF Init, TypeOK, None
<1>5. TableRight /\ LoopsRight
  BY <1>1 DEF Init, TableRight, LoopsRight
<1> QED
  BY <1>1, <1>4, <1>5 DEF IInv

LEMMA StepInv == IInv /\ [Next]_vars => IInv'
<1> SUFFICES ASSUME IInv, [Next]_vars PROVE IInv'
  OBVIOUS
<1>1. ASSUME NEW g \in Groups, Control(g) PROVE IInv'
  BY <1>1, LoopInv, ShutdownInv, LeaveInv, SweepInv, OpenStreamInv, ChunkInv, CloseStreamInv DEF Control
<1>2. ASSUME NEW o \in 1 .. opened, StreamThread(o) \/ LocalSends(o) \/ LocalCloses(o) PROVE IInv'
  BY <1>2, ThreadInv, EraseInv DEF StreamThread
<1>3. CASE UNCHANGED vars
  <2>1. UNCHANGED <<opened, strm, g_streams, shutting, next_id, loop>>
    BY <1>3 DEF vars
  <2> QED
    BY <2>1, LoopStep DEF IInv, TypeOK, Labels
<1> QED
  BY <1>1, <1>2, <1>3, LoopInv DEF Next

LEMMA Inductive == Spec => []IInv
BY InitInv, StepInv, PTL DEF Spec

\* onChunk and the flush of handleTcpStream, under Stream::mtx: while its service is
\* connected every chunk of a stream is written or waits, in order and once, for any
\* number of streams, chunks, groups and sessions.
THEOREM ChunksArrive == Spec => []NoChunkLost
<1>1. IInv => NoChunkLost
  <2> SUFFICES ASSUME IInv, NEW o \in 1 .. opened,
                      strm[o].thread \in {"connect", "flush", "check", "read"}, strm[o].closed = "none",
                      ~Clashes(o)
               PROVE  strm[o].written \o strm[o].pending = [i \in 1 .. strm[o].given |-> i]
    BY DEF NoChunkLost
  <2>1. Sane(strm[o]) /\ Whole(strm[o]) /\ strm[o] \in Streams
    BY Basics DEF IInv, StreamRight, Active
  <2>2. strm[o].written \in Seq(Nat) /\ strm[o].pending \in Seq(Nat)
    BY <2>1 DEF Streams
  <2>3. CASE strm[o].thread \in {"connect", "flush"}
    BY <2>1, <2>2, <2>3, ConcatEmptySeq DEF Sane, Whole, Connected, UpTo
  <2>4. CASE strm[o].thread \in {"check", "read"}
    BY <2>1, <2>2, <2>4, ConcatEmptySeq DEF Sane, Whole, Connected, UpTo
  <2> QED
    BY <2>3, <2>4
<1> QED
  BY <1>1, Inductive, PTL

\* The end of handleTcpStream and of a worker: in a live session the server is told,
\* unless it or another group has closed the stream.
THEOREM EndsAreReported == Spec => []EndReported
<1>1. IInv => EndReported
  BY DEF IInv, StreamRight, Sane, EndReported
<1> QED
  BY <1>1, Inductive, PTL

\* onCloseStream and the end of runOnce against handleTcpStream: wherever the closing
\* falls, no thread is left on a socket that nobody shuts down.
THEOREM ThreadsWake == Spec => []ClosedStreamsWake
<1>1. IInv => ClosedStreamsWake
  <2> SUFFICES ASSUME IInv, NEW o \in 1 .. opened, strm[o].thread = "read", strm[o].closed # "none", ~strm[o].shut
               PROVE  ShutAhead(o)
    BY DEF ClosedStreamsWake, At
  <2>1. Ahead(o) /\ (InTable(o) => o \in Held)
    BY HeldInTable DEF IInv, StreamRight, Stuck
  <2> QED
    BY <2>1 DEF Ahead, ShutAhead
<1> QED
  BY <1>1, Inductive, PTL

-----------------------------------------------------------------------------
(* The groups of tunnels, for any list of tunnels.                         *)

Links == INSTANCE LinkGroups

\* A group of tunnels of T.
Group(T, isolate) == [key : {Links!GroupKey(t, isolate) : t \in T}, tunnels : Seq(T)]

\* The tunnels of a group are a list of tunnels.
LEMMA TunnelsOf ==
  ASSUME NEW T, NEW isolate, NEW gs \in Seq(Group(T, isolate)), NEW g \in 1 .. Len(gs)
  PROVE  gs[g].tunnels \in Seq(T)
<1>1. gs[g] \in Group(T, isolate)
  BY ElementOf
<1> QED
  BY <1>1 DEF Group

\* What joining a group comes to.
Joins(gs, new, t, key) ==
  \/ /\ \A g \in 1 .. Len(gs) : gs[g].key # key
     /\ new = Append(gs, [key |-> key, tunnels |-> <<t>>])
  \/ \E g \in 1 .. Len(gs) :
       /\ gs[g].key = key
       /\ new = [gs EXCEPT ![g] = [key |-> key, tunnels |-> Append(gs[g].tunnels, t)]]

\* Join does one of the two: it begins a group, or lengthens one.
LEMMA Joined ==
  ASSUME NEW T, NEW isolate, NEW gs \in Seq(Group(T, isolate)), NEW t \in T
  PROVE  LET key == Links!GroupKey(t, isolate)
             new == Links!Join(gs, t, key)
         IN Joins(gs, new, t, key) /\ new \in Seq(Group(T, isolate))
<1> DEFINE key == Links!GroupKey(t, isolate)
           new == Links!Join(gs, t, key)
           found == {g \in DOMAIN gs : gs[g].key = key}
           g == CHOOSE g \in found : TRUE
<1>1. DOMAIN gs = 1 .. Len(gs) /\ key \in {Links!GroupKey(u, isolate) : u \in T}
  OBVIOUS
<1> HIDE DEF key
<1>2. CASE found = {}
  <2>1. new = Append(gs, [key |-> key, tunnels |-> <<t>>])
    BY <1>2 DEF Links!Join
  <2>2. [key |-> key, tunnels |-> <<t>>] \in Group(T, isolate)
    BY <1>1 DEF Group
  <2>3. \A i \in 1 .. Len(gs) : gs[i].key # key
    BY <1>1, <1>2
  <2>4. new \in Seq(Group(T, isolate))
    BY <2>1, <2>2
  <2> QED
    BY <2>1, <2>3, <2>4 DEF Joins, key
<1>3. CASE found # {}
  <2>1. g \in found
    BY <1>3
  <2>2. g \in 1 .. Len(gs) /\ gs[g].key = key
    BY <1>1, <2>1
  <2>3. new = [gs EXCEPT ![g] = [key |-> key, tunnels |-> Append(gs[g].tunnels, t)]]
    BY <1>3 DEF Links!Join
  <2> HIDE DEF g, new
  <2>4. gs[g].tunnels \in Seq(T)
    BY <2>2, TunnelsOf
  <2>5. [key |-> key, tunnels |-> Append(gs[g].tunnels, t)] \in Group(T, isolate)
    BY <1>1, <2>4 DEF Group
  <2>6. new \in Seq(Group(T, isolate))
    BY <2>2, <2>3, <2>5
  <2>7. Joins(gs, new, t, key)
    BY <2>2, <2>3 DEF Joins
  <2> QED
    BY <2>6, <2>7 DEF new, key
<1> QED
  BY <1>2, <1>3

\* The stages of grouping.
LEMMA GroupsFold ==
  ASSUME NEW T, NEW s0 \in Seq(T), NEW isolate
  PROVE  \E f \in [0 .. Len(s0) -> Seq(Group(T, isolate))] :
           /\ f[0] = <<>> /\ f[Len(s0)] = Links!Groups(s0, isolate)
           /\ \A k \in 1 .. Len(s0) :
                f[k] = Links!Join(f[k - 1], s0[k], Links!GroupKey(s0[k], isolate))
<1> DEFINE v == s0
           n == Len(v)
           Op(w, e) == Links!Join(w, e, Links!GroupKey(e, isolate))
           D == Seq(Group(T, isolate))
           F == [x \in (1 .. n) \X D |-> Op(x[2], v[x[1]])]
           Is(h) == h = [s \in SUBSET (DOMAIN v) |->
                           IF s = {} THEN <<>> ELSE Op(h[s \ {Greatest(s)}], v[Greatest(s)])]
           H == CHOOSE h : Is(h)
           f == [k \in 0 .. n |-> H[1 .. k]]
<1>1. n \in Nat /\ DOMAIN v = 1 .. n /\ <<>> \in D
  OBVIOUS
<1>2. \A k \in 1 .. n, w \in D : Op(w, v[k]) \in D
  <2> SUFFICES ASSUME NEW k \in 1 .. n, NEW w \in D PROVE Op(w, v[k]) \in D
    OBVIOUS
  <2>1. v[k] \in T
    OBVIOUS
  <2> QED
    BY <2>1, Joined
<1>3. Links!Groups(s0, isolate) = H[DOMAIN v]
  BY DEF Links!Groups, Links!FoldLeft, Links!MapThenFoldSet, Links!Max, Greatest
<1> HIDE DEF v
<1>4. \E h : Is(h)
  <2>1. F \in [(1 .. n) \X D -> D]
    <3> HIDE DEF Op
    <3> QED
      BY <1>2
  <2>2. PICK h \in [SUBSET (1 .. n) -> D] : Chosen(h, n, <<>>, F)
    <3> HIDE DEF F, n
    <3> QED
      BY <1>1, <2>1, FoldChosen
  <2>3. ASSUME NEW s \in SUBSET (1 .. n), s # {}
        PROVE  h[s] = Op(h[s \ {Greatest(s)}], v[Greatest(s)])
    <3>1. Greatest(s) \in 1 .. n /\ s \ {Greatest(s)} \in SUBSET (1 .. n)
      BY <1>1, <2>3, HasLast
    <3>2. h[s] = F[<<Greatest(s), h[s \ {Greatest(s)}]>>]
      BY <2>2, <2>3 DEF Chosen
    <3> HIDE DEF Op
    <3> QED
      BY <3>1, <3>2, <2>2
  <2>4. h[{}] = <<>>
    BY <2>2 DEF Chosen
  <2>5. Is(h)
    <3> HIDE DEF Op
    <3> QED
      BY <1>1, <2>2, <2>3, <2>4
  <2> HIDE DEF Is
  <2> QED
    BY <2>5
<1>5. Is(H)
  <2> HIDE DEF Is
  <2> QED
    BY <1>4
<1>6. f[0] = <<>> /\ f[n] = Links!Groups(s0, isolate)
  <2>1. {} \in SUBSET (DOMAIN v) /\ 1 .. 0 = {}
    OBVIOUS
  <2>2. H[{}] = <<>>
    <3> HIDE DEF Op, H
    <3> QED
      BY <1>5, <2>1
  <2>3. 0 \in 0 .. n /\ n \in 0 .. n
    <3> HIDE DEF n
    <3> QED
      BY <1>1
  <2>4. f[0] = H[1 .. 0] /\ f[n] = H[1 .. n]
    <3> HIDE DEF H, n
    <3> QED
      BY <2>3
  <2> HIDE DEF H, f
  <2> QED
    BY <1>1, <1>3, <2>1, <2>2, <2>4
<1>7. ASSUME NEW k \in 1 .. n PROVE f[k] = Op(f[k - 1], v[k])
  <2>1. Greatest(1 .. k) = k /\ (1 .. k) \ {k} = 1 .. (k - 1) /\ 1 .. k # {}
    BY <1>1, FirstPlaces
  <2>2. 1 .. k \in SUBSET (DOMAIN v)
    BY <1>1
  <2>3. H[1 .. k] = Op(H[(1 .. k) \ {k}], v[k])
    <3> HIDE DEF Op, H
    <3> QED
      BY <1>5, <2>1, <2>2
  <2>4. f[k] = H[1 .. k] /\ f[k - 1] = H[1 .. (k - 1)]
    <3>1. k \in 0 .. n /\ k - 1 \in 0 .. n
      BY <1>1
    <3> HIDE DEF H
    <3> QED
      BY <3>1
  <2> HIDE DEF f, H, Op
  <2> QED
    BY <2>1, <2>3, <2>4
<1>8. \A k \in 0 .. n : f[k] \in D
  <2>1. ASSUME NEW k \in 1 .. n, f[k - 1] \in D PROVE f[k] \in D
    <3> HIDE DEF f, Op
    <3> QED
      BY <1>2, <1>7, <2>1
  <2> HIDE DEF f
  <2> QED
    BY <1>1, <1>6, <2>1, FoldKeeps
<1>9. f \in [0 .. n -> D]
  BY <1>8
<1>10. \A k \in 1 .. n : f[k] = Op(f[k - 1], v[k])
  <2> HIDE DEF f
  <2> QED
    BY <1>7
<1>11. n = Len(s0) /\ v = s0
  BY DEF v
<1> HIDE DEF f
<1> QED
  BY <1>6, <1>9, <1>10, <1>11 DEF v

\* The first k tunnels are in the groups, each in that of its key.
Grouped(gs, ts, isolate, k) ==
  /\ \A i, j \in 1 .. Len(gs) : gs[i].key = gs[j].key => i = j
  /\ \A i \in 1 .. Len(gs) : \A m \in 1 .. Len(gs[i].tunnels) :
       Links!GroupKey(gs[i].tunnels[m], isolate) = gs[i].key
  /\ \A j \in 1 .. k : \E i \in 1 .. Len(gs) : \E m \in 1 .. Len(gs[i].tunnels) :
       gs[i].tunnels[m] = ts[j]

\* The next tunnel joins, and is in the group of its key as well.
LEMMA GroupedStep ==
  ASSUME NEW T, NEW isolate, NEW ts \in Seq(T), NEW k \in 1 .. Len(ts),
         NEW gs \in Seq(Group(T, isolate)), Grouped(gs, ts, isolate, k - 1),
         NEW new \in Seq(Group(T, isolate)), Joins(gs, new, ts[k], Links!GroupKey(ts[k], isolate))
  PROVE  Grouped(new, ts, isolate, k)
<1> DEFINE key == Links!GroupKey(ts[k], isolate)
           Key(u) == Links!GroupKey(u, isolate)
<1>1. \A i \in 1 .. Len(gs) : gs[i].tunnels \in Seq(T)
  BY TunnelsOf
<1>2. \A j \in 1 .. k : j = k \/ j \in 1 .. k - 1
  OBVIOUS
<1>3. ts[k] \in T
  OBVIOUS
<1>4. Len(gs) \in Nat
  OBVIOUS
<1> HIDE DEF key, Key
<1>5. CASE /\ \A g \in 1 .. Len(gs) : gs[g].key # key
           /\ new = Append(gs, [key |-> key, tunnels |-> <<ts[k]>>])
  <2>1. /\ Len(new) = Len(gs) + 1
        /\ \A i \in 1 .. Len(gs) : new[i] = gs[i]
        /\ new[Len(gs) + 1].key = key /\ new[Len(gs) + 1].tunnels = <<ts[k]>>
    BY <1>5
  <2>2. \A i \in 1 .. Len(new) : i \in 1 .. Len(gs) \/ i = Len(gs) + 1
    BY <2>1, <1>4
  <2>3. \A i \in 1 .. Len(gs) : i \in 1 .. Len(new) /\ i # Len(gs) + 1
    BY <2>1, <1>4
  <2>4. \A i, j \in 1 .. Len(new) : new[i].key = new[j].key => i = j
    <3>1. \A i, j \in 1 .. Len(gs) : gs[i].key = gs[j].key => i = j
      BY DEF Grouped
    <3> QED
      BY <2>1, <2>2, <1>5, <3>1
  <2>5. ASSUME NEW i \in 1 .. Len(new), NEW m \in 1 .. Len(new[i].tunnels)
        PROVE  Key(new[i].tunnels[m]) = new[i].key
    <3>1. CASE i \in 1 .. Len(gs)
      BY <2>1, <2>5, <3>1 DEF Grouped, Key
    <3>2. CASE i = Len(gs) + 1
      <4>1. new[i].tunnels = <<ts[k]>> /\ m \in 1 .. Len(<<ts[k]>>)
        BY <2>1, <2>5, <3>2, Zenon
      <4>2. m = 1 /\ new[i].tunnels[m] = ts[k]
        BY <4>1
      <4> QED
        BY <4>2, <3>2, <2>1 DEF key, Key
    <3> QED
      BY <2>2, <3>1, <3>2
  <2>6. ASSUME NEW j \in 1 .. k
        PROVE  \E i \in 1 .. Len(new) : \E m \in 1 .. Len(new[i].tunnels) : new[i].tunnels[m] = ts[j]
    <3>1. CASE j = k
      <4>1. Len(gs) + 1 \in 1 .. Len(new)
        BY <2>1, <1>4
      <4>2. 1 \in 1 .. Len(new[Len(gs) + 1].tunnels) /\ new[Len(gs) + 1].tunnels[1] = ts[k]
        BY <2>1
      <4> QED
        BY <3>1, <4>1, <4>2
    <3>2. CASE j \in 1 .. k - 1
      <4>1. PICK i \in 1 .. Len(gs) : \E m \in 1 .. Len(gs[i].tunnels) : gs[i].tunnels[m] = ts[j]
        BY <3>2 DEF Grouped
      <4>2. i \in 1 .. Len(new) /\ new[i] = gs[i]
        BY <2>1, <2>3
      <4> QED
        BY <4>1, <4>2
    <3> QED
      BY <1>2, <3>1, <3>2
  <2> QED
    BY <2>4, <2>5, <2>6 DEF Grouped, Key
<1>6. ASSUME NEW g \in 1 .. Len(gs), gs[g].key = key,
             new = [gs EXCEPT ![g] = [key |-> key, tunnels |-> Append(gs[g].tunnels, ts[k])]]
      PROVE  Grouped(new, ts, isolate, k)
  <2> DEFINE s == gs[g].tunnels
  <2>1. /\ Len(new) = Len(gs)
        /\ \A i \in 1 .. Len(gs) : i # g => new[i] = gs[i]
        /\ new[g].key = key /\ new[g].tunnels = Append(s, ts[k])
    BY <1>6
  <2>2. s \in Seq(T)
    BY <1>1
  <2> HIDE DEF s
  <2>3. /\ Len(Append(s, ts[k])) = Len(s) + 1 /\ Append(s, ts[k])[Len(s) + 1] = ts[k]
        /\ \A m \in 1 .. Len(s) : Append(s, ts[k])[m] = s[m]
        /\ Len(s) \in Nat
    BY <2>2, <1>3
  <2>4. \A i \in 1 .. Len(gs) : new[i].key = gs[i].key
    BY <2>1, <1>6
  <2>5. \A i, j \in 1 .. Len(new) : new[i].key = new[j].key => i = j
    BY <2>1, <2>4 DEF Grouped
  <2>6. ASSUME NEW i \in 1 .. Len(new), NEW m \in 1 .. Len(new[i].tunnels)
        PROVE  Key(new[i].tunnels[m]) = new[i].key
    <3>1. CASE i # g
      BY <2>1, <2>6, <3>1 DEF Grouped, Key
    <3>2. CASE i = g /\ m \in 1 .. Len(s)
      <4>1. new[i].tunnels[m] = gs[g].tunnels[m] /\ m \in 1 .. Len(gs[g].tunnels)
        BY <2>1, <2>3, <3>2 DEF s
      <4>2. Key(gs[g].tunnels[m]) = gs[g].key
        BY <4>1 DEF Grouped, Key
      <4> QED
        BY <4>1, <4>2, <2>4, <3>2
    <3>3. CASE i = g /\ m = Len(s) + 1
      <4>1. new[i].tunnels[m] = ts[k]
        BY <2>1, <2>3, <3>3
      <4> QED
        BY <4>1, <3>3, <2>1 DEF Key, key
    <3>4. i = g => m \in 1 .. Len(s) \/ m = Len(s) + 1
      BY <2>1, <2>3, <2>6
    <3> QED
      BY <3>1, <3>2, <3>3, <3>4
  <2>7. ASSUME NEW j \in 1 .. k
        PROVE  \E i \in 1 .. Len(new) : \E m \in 1 .. Len(new[i].tunnels) : new[i].tunnels[m] = ts[j]
    <3>1. CASE j = k
      <4>1. Len(s) + 1 \in 1 .. Len(new[g].tunnels) /\ new[g].tunnels[Len(s) + 1] = ts[k]
        BY <2>1, <2>3
      <4> QED
        BY <3>1, <4>1, <2>1
    <3>2. CASE j \in 1 .. k - 1
      <4>1. PICK i \in 1 .. Len(gs) : \E m \in 1 .. Len(gs[i].tunnels) : gs[i].tunnels[m] = ts[j]
        BY <3>2 DEF Grouped
      <4>2. PICK m \in 1 .. Len(gs[i].tunnels) : gs[i].tunnels[m] = ts[j]
        BY <4>1
      <4>3. m \in 1 .. Len(new[i].tunnels) /\ new[i].tunnels[m] = ts[j]
        <5>1. CASE i # g
          BY <4>2, <5>1, <2>1
        <5>2. CASE i = g
          <6>1. m \in 1 .. Len(s) /\ s[m] = ts[j]
            BY <4>2, <5>2 DEF s
          <6> QED
            BY <6>1, <5>2, <2>1, <2>3
        <5> QED
          BY <5>1, <5>2
      <4> QED
        BY <4>3, <2>1
    <3> QED
      BY <1>2, <3>1, <3>2
  <2> QED
    BY <2>5, <2>6, <2>7 DEF Grouped, Key
<1> QED
  BY <1>5, <1>6 DEF Joins, key

\* Two tunnels have the same key exactly when they are to share a connection.
LEMMA KeysMean ==
  ASSUME NEW t, NEW u, NEW isolate \in BOOLEAN
  PROVE  Links!GroupKey(t, isolate) = Links!GroupKey(u, isolate)
           <=> \/ t.conn = u.conn /\ (t.conn # <<>> \/ ~isolate)
               \/ t.tunnel_id = u.tunnel_id /\ t.conn = u.conn
<1>1. "c" # "t" /\ "c" # "default" /\ "t" # "default"
  OBVIOUS
<1>2. \A a, b, c, d : <<a, b>> = <<c, d>> <=> a = c /\ b = d
  OBVIOUS
<1> QED
  BY <1>1, <1>2 DEF Links!GroupKey

\* In the end each tunnel is in one group, and two are in the same by their keys.
LEMMA GroupsMeet ==
  ASSUME NEW T, NEW tunnels \in Seq(T), NEW isolate
  PROVE  LET on(t) == Links!OnLinks(Links!Groups(tunnels, isolate), t)
             ts    == {tunnels[i] : i \in DOMAIN tunnels}
         IN /\ \A t \in ts : \E g \in on(t) : on(t) = {g}
            /\ \A t, u \in ts :
                 on(t) = on(u) <=> Links!GroupKey(t, isolate) = Links!GroupKey(u, isolate)
<1>1. PICK f \in [0 .. Len(tunnels) -> Seq(Group(T, isolate))] :
        /\ f[0] = <<>> /\ f[Len(tunnels)] = Links!Groups(tunnels, isolate)
        /\ \A k \in 1 .. Len(tunnels) :
             f[k] = Links!Join(f[k - 1], tunnels[k], Links!GroupKey(tunnels[k], isolate))
  BY GroupsFold
<1> DEFINE n == Len(tunnels)
           gs == Links!Groups(tunnels, isolate)
           Key(t) == Links!GroupKey(t, isolate)
<1>2. n \in Nat
  OBVIOUS
<1> HIDE DEF gs, Key
<1>3. \A k \in 0 .. n : k \in {j \in 0 .. n : Grouped(f[j], tunnels, isolate, j)}
  <2> DEFINE R == {j \in 0 .. n : Grouped(f[j], tunnels, isolate, j)}
  <2>1. 0 \in R
    <3>1. Grouped(<<>>, tunnels, isolate, 0)
      BY DEF Grouped
    <3> QED
      BY <1>1, <1>2, <3>1
  <2>2. ASSUME NEW k \in 1 .. n, k - 1 \in R PROVE k \in R
    <3>1. k - 1 \in 0 .. n /\ k \in 0 .. n /\ tunnels[k] \in T
      BY <1>2
    <3>2. f[k - 1] \in Seq(Group(T, isolate)) /\ f[k] \in Seq(Group(T, isolate))
      BY <1>1, <3>1
    <3>3. Joins(f[k - 1], f[k], tunnels[k], Key(tunnels[k]))
      BY <1>1, <3>1, <3>2, Joined DEF Key
    <3>4. Grouped(f[k - 1], tunnels, isolate, k - 1)
      BY <2>2
    <3>5. Grouped(f[k], tunnels, isolate, k)
      BY <3>2, <3>3, <3>4, GroupedStep DEF Key
    <3> QED
      BY <3>1, <3>5
  <2> HIDE DEF R
  <2>3. \A k \in 0 .. n : k \in R
    BY <1>2, <2>1, <2>2, Induct
  <2> QED
    BY <2>3 DEF R
<1>4. Grouped(gs, tunnels, isolate, n) /\ gs \in Seq(Group(T, isolate))
  <2>1. n \in 0 .. n
    BY <1>2
  <2> QED
    BY <1>1, <1>3, <2>1 DEF gs
<1>5. \A i \in 1 .. Len(gs) : gs[i].tunnels \in Seq(T)
  BY <1>4, TunnelsOf
<1>6. ASSUME NEW t \in {tunnels[i] : i \in DOMAIN tunnels}
      PROVE  \E g \in 1 .. Len(gs) : gs[g].key = Key(t) /\ Links!OnLinks(gs, t) = {g}
  <2>1. PICK j \in 1 .. n : tunnels[j] = t
    OBVIOUS
  <2>2. PICK g \in 1 .. Len(gs) : \E m \in 1 .. Len(gs[g].tunnels) : gs[g].tunnels[m] = t
    BY <1>4, <2>1 DEF Grouped
  <2>3. gs[g].key = Key(t)
    BY <1>4, <2>2 DEF Grouped, Key
  <2>4. DOMAIN gs = 1 .. Len(gs) /\ \A i \in 1 .. Len(gs) : DOMAIN gs[i].tunnels = 1 .. Len(gs[i].tunnels)
    BY <1>4, <1>5
  <2>5. g \in Links!OnLinks(gs, t)
    BY <2>2, <2>4 DEF Links!OnLinks, Links!ToSet
  <2>6. ASSUME NEW i \in Links!OnLinks(gs, t) PROVE i = g
    <3>1. i \in 1 .. Len(gs) /\ \E l \in 1 .. Len(gs[i].tunnels) : gs[i].tunnels[l] = t
      BY <2>4, <2>6 DEF Links!OnLinks, Links!ToSet
    <3>2. gs[i].key = Key(t)
      BY <1>4, <3>1 DEF Grouped, Key
    <3> QED
      BY <1>4, <2>3, <3>1, <3>2 DEF Grouped
  <2>7. Links!OnLinks(gs, t) = {g}
    BY <2>5, <2>6
  <2> QED
    BY <2>3, <2>7
<1>7. ASSUME NEW t \in {tunnels[i] : i \in DOMAIN tunnels}, NEW u \in {tunnels[i] : i \in DOMAIN tunnels}
      PROVE  Links!OnLinks(gs, t) = Links!OnLinks(gs, u) <=> Key(t) = Key(u)
  <2>1. PICK g \in 1 .. Len(gs) : gs[g].key = Key(t) /\ Links!OnLinks(gs, t) = {g}
    BY <1>6
  <2>2. PICK h \in 1 .. Len(gs) : gs[h].key = Key(u) /\ Links!OnLinks(gs, u) = {h}
    BY <1>6
  <2>3. gs[g].key = gs[h].key <=> g = h
    BY <1>4 DEF Grouped
  <2>4. {g} = {h} <=> g = h
    OBVIOUS
  <2> QED
    BY <2>1, <2>2, <2>3, <2>4
<1>8. \A t \in {tunnels[i] : i \in DOMAIN tunnels} :
        \E g \in Links!OnLinks(gs, t) : Links!OnLinks(gs, t) = {g}
  BY <1>6
<1> QED
  BY <1>7, <1>8 DEF gs, Key

\* Whatever tunnels the user asks for, in whatever order, the loop in main that
\* spreads them over connections leaves none out, registers none on two, and
\* lets two share a connection exactly when the user asked for that.
THEOREM TunnelsFindTheirLinks ==
  ASSUME NEW T, NEW tunnels \in Seq(T), NEW isolate \in BOOLEAN
  PROVE  Links!GroupsAsAsked(tunnels, isolate)
<1> DEFINE on(t) == Links!OnLinks(Links!Groups(tunnels, isolate), t)
           ts == {tunnels[i] : i \in DOMAIN tunnels}
           Shared(t, u) == \/ t.conn = u.conn /\ (t.conn # <<>> \/ ~isolate)
                           \/ t.tunnel_id = u.tunnel_id /\ t.conn = u.conn
<1>1. /\ \A t \in ts : \E g \in on(t) : on(t) = {g}
      /\ \A t, u \in ts :
           on(t) = on(u) <=> Links!GroupKey(t, isolate) = Links!GroupKey(u, isolate)
  BY GroupsMeet, Zenon
<1>2. ASSUME NEW t, NEW u
      PROVE  Links!GroupKey(t, isolate) = Links!GroupKey(u, isolate) <=> Shared(t, u)
  BY KeysMean, Zenon
<1> HIDE DEF Shared
<1>3. \A t, u \in ts : on(t) = on(u) <=> Shared(t, u)
  BY <1>1, <1>2, Zenon
<1> QED
  BY <1>1, <1>3, Zenon DEF Links!GroupsAsAsked, Links!ToSet, Shared

-----------------------------------------------------------------------------
(* The WebSocket frames, for every payload below 2^32 bytes.               *)

Wire == INSTANCE WsFrames

\* The bytes, and the lengths LengthForm has room for: it writes the high four of eight bytes as 0.
Byte == 0 .. 255
Lengths == {n \in Nat : n <= 4294967295}

\* The stages of BigEndian.
LEMMA BigEndianFold ==
  ASSUME NEW s0 \in Seq(Nat)
  PROVE  \E f \in [0 .. Len(s0) -> Nat] :
           /\ f[0] = 0 /\ f[Len(s0)] = Wire!BigEndian(s0)
           /\ \A k \in 1 .. Len(s0) : f[k] = f[k - 1] * 256 + s0[k]
<1> DEFINE v == s0
           n == Len(v)
           Op(w, e) == w * 256 + e
           D == Nat
           F == [x \in (1 .. n) \X D |-> Op(x[2], v[x[1]])]
           Is(h) == h = [s \in SUBSET (DOMAIN v) |->
                           IF s = {} THEN 0 ELSE Op(h[s \ {Greatest(s)}], v[Greatest(s)])]
           H == CHOOSE h : Is(h)
           f == [k \in 0 .. n |-> H[1 .. k]]
<1>1. n \in Nat /\ DOMAIN v = 1 .. n /\ 0 \in D
  OBVIOUS
<1>2. \A k \in 1 .. n, w \in D : Op(w, v[k]) \in D
  OBVIOUS
<1>3. Wire!BigEndian(s0) = H[DOMAIN v]
  BY DEF Wire!BigEndian, Wire!FoldLeft, Wire!MapThenFoldSet, Wire!Max, Greatest
<1> HIDE DEF v
<1>4. \E h : Is(h)
  <2>1. F \in [(1 .. n) \X D -> D]
    <3> HIDE DEF Op
    <3> QED
      BY <1>2
  <2>2. PICK h \in [SUBSET (1 .. n) -> D] : Chosen(h, n, 0, F)
    <3> HIDE DEF F, n
    <3> QED
      BY <1>1, <2>1, FoldChosen
  <2>3. ASSUME NEW s \in SUBSET (1 .. n), s # {}
        PROVE  h[s] = Op(h[s \ {Greatest(s)}], v[Greatest(s)])
    <3>1. Greatest(s) \in 1 .. n /\ s \ {Greatest(s)} \in SUBSET (1 .. n)
      BY <1>1, <2>3, HasLast
    <3>2. h[s] = F[<<Greatest(s), h[s \ {Greatest(s)}]>>]
      BY <2>2, <2>3 DEF Chosen
    <3> HIDE DEF Op
    <3> QED
      BY <3>1, <3>2, <2>2
  <2>4. h[{}] = 0
    BY <2>2 DEF Chosen
  <2>5. Is(h)
    <3> HIDE DEF Op
    <3> QED
      BY <1>1, <2>2, <2>3, <2>4
  <2> HIDE DEF Is
  <2> QED
    BY <2>5
<1>5. Is(H)
  <2> HIDE DEF Is
  <2> QED
    BY <1>4
<1>6. f[0] = 0 /\ f[n] = Wire!BigEndian(s0)
  <2>1. {} \in SUBSET (DOMAIN v) /\ 1 .. 0 = {}
    OBVIOUS
  <2>2. H[{}] = 0
    <3> HIDE DEF Op, H
    <3> QED
      BY <1>5, <2>1
  <2>3. 0 \in 0 .. n /\ n \in 0 .. n
    <3> HIDE DEF n
    <3> QED
      BY <1>1
  <2>4. f[0] = H[1 .. 0] /\ f[n] = H[1 .. n]
    <3> HIDE DEF H, n
    <3> QED
      BY <2>3
  <2> HIDE DEF H, f
  <2> QED
    BY <1>1, <1>3, <2>1, <2>2, <2>4
<1>7. ASSUME NEW k \in 1 .. n PROVE f[k] = Op(f[k - 1], v[k])
  <2>1. Greatest(1 .. k) = k /\ (1 .. k) \ {k} = 1 .. (k - 1) /\ 1 .. k # {}
    BY <1>1, FirstPlaces
  <2>2. 1 .. k \in SUBSET (DOMAIN v)
    BY <1>1
  <2>3. H[1 .. k] = Op(H[(1 .. k) \ {k}], v[k])
    <3> HIDE DEF Op, H
    <3> QED
      BY <1>5, <2>1, <2>2
  <2>4. f[k] = H[1 .. k] /\ f[k - 1] = H[1 .. (k - 1)]
    <3>1. k \in 0 .. n /\ k - 1 \in 0 .. n
      BY <1>1
    <3> HIDE DEF H
    <3> QED
      BY <3>1
  <2> HIDE DEF f, H, Op
  <2> QED
    BY <2>1, <2>3, <2>4
<1>8. \A k \in 0 .. n : f[k] \in D
  <2>1. ASSUME NEW k \in 1 .. n, f[k - 1] \in D PROVE f[k] \in D
    <3> HIDE DEF f, Op
    <3> QED
      BY <1>2, <1>7, <2>1
  <2> HIDE DEF f
  <2> QED
    BY <1>1, <1>6, <2>1, FoldKeeps
<1>9. f \in [0 .. n -> D]
  BY <1>8
<1>10. \A k \in 1 .. n : f[k] = Op(f[k - 1], v[k])
  <2> HIDE DEF f
  <2> QED
    BY <1>7
<1>11. n = Len(s0) /\ v = s0
  BY DEF v
<1> HIDE DEF f
<1> QED
  BY <1>6, <1>9, <1>10, <1>11 DEF v

\* The length in two bytes.
LEMMA BigEndianTwo ==
  ASSUME NEW s \in Seq(Nat), Len(s) = 2
  PROVE  Wire!BigEndian(s) = s[1] * 256 + s[2]
<1>1. PICK f \in [0 .. Len(s) -> Nat] :
        /\ f[0] = 0 /\ f[Len(s)] = Wire!BigEndian(s)
        /\ \A k \in 1 .. Len(s) : f[k] = f[k - 1] * 256 + s[k]
  BY BigEndianFold, Zenon
<1>2. f[1] = s[1] /\ f[2] = f[1] * 256 + s[2]
  <2>1. s[1] \in Nat
    OBVIOUS
  <2>2. f[1] = f[0] * 256 + s[1] /\ f[2] = f[1] * 256 + s[2]
    BY <1>1
  <2> QED
    BY <1>1, <2>1, <2>2
<1> QED
  BY <1>1, <1>2

\* The length in eight bytes, the high four of them 0.
LEMMA BigEndianEight ==
  ASSUME NEW s \in Seq(Nat), Len(s) = 8, s[1] = 0, s[2] = 0, s[3] = 0, s[4] = 0
  PROVE  Wire!BigEndian(s) = ((s[5] * 256 + s[6]) * 256 + s[7]) * 256 + s[8]
<1>1. PICK f \in [0 .. Len(s) -> Nat] :
        /\ f[0] = 0 /\ f[Len(s)] = Wire!BigEndian(s)
        /\ \A k \in 1 .. Len(s) : f[k] = f[k - 1] * 256 + s[k]
  BY BigEndianFold, Zenon
<1>2. /\ f[1] = f[0] * 256 + s[1] /\ f[2] = f[1] * 256 + s[2]
      /\ f[3] = f[2] * 256 + s[3] /\ f[4] = f[3] * 256 + s[4]
      /\ f[5] = f[4] * 256 + s[5] /\ f[6] = f[5] * 256 + s[6]
      /\ f[7] = f[6] * 256 + s[7] /\ f[8] = f[7] * 256 + s[8]
  BY <1>1
<1>3. f[1] = 0 /\ f[2] = 0 /\ f[3] = 0 /\ f[4] = 0
  BY <1>1, <1>2
<1>4. s[5] \in Nat /\ s[6] \in Nat /\ s[7] \in Nat /\ s[8] \in Nat
  <2>1. 5 \in 1 .. Len(s) /\ 6 \in 1 .. Len(s) /\ 7 \in 1 .. Len(s) /\ 8 \in 1 .. Len(s)
    OBVIOUS
  <2> QED
    BY <2>1, ElementOf
<1> QED
  BY <1>1, <1>2, <1>3, <1>4

\* What the 7 bits say, how many bytes the length takes behind them, and the
\* four lowest bytes of a length.
Short(n)  == IF n < 126 THEN n ELSE IF n <= 65535 THEN 126 ELSE 127
Extra(n)  == IF n < 126 THEN 0 ELSE IF n <= 65535 THEN 2 ELSE 8
Byte0(n)  == n % 256
Byte1(n)  == (n \div 256) % 256
Byte2(n)  == (n \div 65536) % 256
Byte3(n)  == n \div 16777216

\* How the 7 bits tell the three forms of a length apart.
LEMMA ExtraMeans ==
  ASSUME NEW n \in Lengths
  PROVE  /\ n \in Nat /\ Extra(n) \in {0, 2, 8} /\ Short(n) \in 0 .. 127
         /\ Extra(n) = 0 <=> Short(n) = n /\ n < 126
         /\ Extra(n) = 0 <=> n < 126
         /\ Extra(n) = 2 <=> Short(n) = 126
         /\ Extra(n) = 8 <=> Short(n) = 127
<1>1. n \in Int /\ 0 <= n
  BY SMT DEF Lengths
<1>2. CASE n < 126
  BY <1>1, <1>2, SMT DEF Extra, Short
<1>3. CASE ~ (n < 126) /\ n <= 65535
  BY <1>1, <1>3, SMT DEF Extra, Short
<1>4. CASE ~ (n < 126) /\ ~ (n <= 65535)
  BY <1>1, <1>4, SMT DEF Extra, Short
<1> QED
  BY <1>2, <1>3, <1>4, SMT

\* The four bytes of a length add up to it.
LEMMA Division ==
  ASSUME NEW n \in Lengths
  PROVE  /\ Byte0(n) \in Byte /\ Byte1(n) \in Byte /\ Byte2(n) \in Byte /\ Byte3(n) \in Byte
         /\ ((Byte3(n) * 256 + Byte2(n)) * 256 + Byte1(n)) * 256 + Byte0(n) = n
         /\ Extra(n) = 2 => n \div 256 = Byte1(n) /\ Byte1(n) * 256 + Byte0(n) = n
<1>1. n \in Int /\ 0 <= n /\ n <= 4294967295
  BY SMT DEF Lengths
<1>2. /\ Byte0(n) \in Byte /\ Byte1(n) \in Byte /\ Byte2(n) \in Byte /\ Byte3(n) \in Byte
  BY <1>1, SMT DEF Byte, Byte0, Byte1, Byte2, Byte3
<1>3. Extra(n) = 2 => n \div 256 = Byte1(n)
  BY <1>1, SMT DEF Extra, Byte1
<1>4. (n \div 256) * 256 + Byte0(n) = n
  BY <1>1, SMT DEF Byte0
<1>5. (n \div 65536) * 256 + Byte1(n) = n \div 256
  BY <1>1, SMT DEF Byte1
<1>6. Byte3(n) * 256 + Byte2(n) = n \div 65536
  BY <1>1, SMT DEF Byte2, Byte3
<1>7. ((Byte3(n) * 256 + Byte2(n)) * 256 + Byte1(n)) * 256 + Byte0(n) = n
  BY <1>4, <1>5, <1>6, SMT
<1>8. Extra(n) = 2 => Byte1(n) * 256 + Byte0(n) = n
  BY <1>3, <1>4, SMT
<1> QED
  BY <1>2, <1>3, <1>7, <1>8, SMT

\* The bytes LengthForm writes.
LEMMA LengthForms ==
  ASSUME NEW n \in Lengths, NEW bit \in {0, 128}
  PROVE  LET L == Wire!LengthForm(n, bit) IN
         /\ L \in Seq(Byte) /\ Len(L) = 1 + Extra(n)
         /\ L[1] >= 128 <=> bit = 128
         /\ L[1] % 128 = Short(n)
         /\ Extra(n) = 2 => L[2] = Byte1(n) /\ L[3] = Byte0(n)
         /\ Extra(n) = 8 => /\ L[2] = 0 /\ L[3] = 0 /\ L[4] = 0 /\ L[5] = 0
                            /\ L[6] = Byte3(n) /\ L[7] = Byte2(n)
                            /\ L[8] = Byte1(n) /\ L[9] = Byte0(n)
<1> DEFINE L == Wire!LengthForm(n, bit)
<1>1. n \in Nat /\ Extra(n) \in {0, 2, 8} /\ Short(n) \in 0 .. 127
  BY ExtraMeans
<1>2. L = CASE Extra(n) = 0 -> <<bit + n>>
            [] Extra(n) = 2 -> <<bit + 126, n \div 256, Byte0(n)>>
            [] Extra(n) = 8 -> <<bit + 127, 0, 0, 0, 0, Byte3(n), Byte2(n), Byte1(n), Byte0(n)>>
  BY <1>1, SMT DEF Wire!LengthForm, Extra, Byte0, Byte1, Byte2, Byte3
<1>3. /\ bit + Short(n) \in Byte /\ (bit + Short(n) >= 128 <=> bit = 128)
      /\ (bit + Short(n)) % 128 = Short(n) /\ 0 \in Byte
  BY <1>1, SMT DEF Byte
<1>4. /\ Byte0(n) \in Byte /\ Byte1(n) \in Byte /\ Byte2(n) \in Byte /\ Byte3(n) \in Byte
  BY Division
<1> HIDE DEF L
<1>5. CASE Extra(n) = 0
  <2>1. L = <<bit + Short(n)>>
    BY <1>2, <1>5, ExtraMeans
  <2> QED
    BY <1>3, <1>5, <2>1 DEF L
<1>6. CASE Extra(n) = 2
  <2>1. L = <<bit + Short(n), Byte1(n), Byte0(n)>>
    BY <1>2, <1>6, ExtraMeans, Division
  <2>2. L \in Seq(Byte) /\ Len(L) = 3 /\ L[1] = bit + Short(n) /\ L[2] = Byte1(n) /\ L[3] = Byte0(n)
    BY <1>3, <1>4, <2>1
  <2> QED
    BY <1>3, <1>6, <2>2 DEF L
<1>7. CASE Extra(n) = 8
  <2>1. L = <<bit + Short(n), 0, 0, 0, 0, Byte3(n), Byte2(n), Byte1(n), Byte0(n)>>
    BY <1>2, <1>7, ExtraMeans
  <2>2. L \in Seq(Byte) /\ Len(L) = 9
    BY <1>3, <1>4, <2>1
  <2>3. /\ L[1] = bit + Short(n) /\ L[2] = 0 /\ L[3] = 0 /\ L[4] = 0 /\ L[5] = 0
        /\ L[6] = Byte3(n) /\ L[7] = Byte2(n) /\ L[8] = Byte1(n) /\ L[9] = Byte0(n)
    BY <2>1
  <2> QED
    BY <1>3, <1>7, <2>2, <2>3 DEF L
<1> QED
  BY <1>1, <1>5, <1>6, <1>7

\* d begins with a first byte and the length n.
Announces(d, n, bit) ==
  /\ d \in Seq(Byte) /\ Len(d) >= 2 + Extra(n)
  /\ \A i \in 1 .. 1 + Extra(n) : d[i + 1] = Wire!LengthForm(n, bit)[i]

\* FrameAt reads the length LengthForm wrote.
LEMMA LengthRead ==
  ASSUME NEW n \in Lengths, NEW bit \in {0, 128}, NEW d, Announces(d, n, bit)
  PROVE  /\ d[2] >= 128 <=> bit = 128
         /\ d[2] % 128 = Short(n)
         /\ Extra(n) # 0 => Wire!BigEndian(SubSeq(d, 3, 2 + Extra(n))) = n
<1> DEFINE L == Wire!LengthForm(n, bit)
           s == SubSeq(d, 3, 2 + Extra(n))
<1>1. Extra(n) \in {0, 2, 8}
  BY ExtraMeans
<1>2. d[2] = L[1]
  <2>1. 1 \in 1 .. 1 + Extra(n)
    BY <1>1
  <2> QED
    BY <2>1 DEF Announces
<1>3. /\ d[2] >= 128 <=> bit = 128
      /\ d[2] % 128 = Short(n)
  BY <1>2, LengthForms
<1>4. ASSUME Extra(n) # 0
      PROVE  s \in Seq(Nat) /\ Len(s) = Extra(n) /\ \A i \in 1 .. Extra(n) : s[i] = L[i + 1]
  <2>1. \A i \in 3 .. 2 + Extra(n) : d[i] \in Nat
    <3>1. d \in Seq(Byte) /\ Len(d) >= 2 + Extra(n)
      BY DEF Announces
    <3>2. \A i \in 1 .. Len(d) : d[i] \in Byte
      BY <3>1, ElementOf
    <3>3. \A i \in 3 .. 2 + Extra(n) : i \in 1 .. Len(d)
      BY <1>1, <3>1
    <3>4. \A x \in Byte : x \in Nat
      BY DEF Byte
    <3> QED
      BY <3>2, <3>3, <3>4
  <2>2. /\ s \in Seq(Nat) /\ Len(s) = Extra(n)
        /\ \A i \in 1 .. Extra(n) : s[i] = d[i + 2]
    BY <1>1, <2>1
  <2>3. \A i \in 1 .. Extra(n) : i + 1 \in 1 .. 1 + Extra(n)
    BY <1>1
  <2>4. \A i \in 1 .. Extra(n) : d[i + 2] = L[i + 1]
    <3> SUFFICES ASSUME NEW i \in 1 .. Extra(n) PROVE d[i + 2] = L[i + 1]
      OBVIOUS
    <3>1. d[(i + 1) + 1] = L[i + 1]
      BY <2>3 DEF Announces
    <3>2. (i + 1) + 1 = i + 2
      BY <1>1
    <3> QED
      BY <3>1, <3>2
  <2> QED
    BY <2>2, <2>4
<1> HIDE DEF L, s
<1>5. CASE Extra(n) = 2
  <2>1. s \in Seq(Nat) /\ Len(s) = 2 /\ s[1] = L[2] /\ s[2] = L[3]
    BY <1>4, <1>5
  <2>2. L[2] = Byte1(n) /\ L[3] = Byte0(n)
    BY <1>5, LengthForms DEF L
  <2>3. Byte1(n) * 256 + Byte0(n) = n
    BY <1>5, Division
  <2>4. Wire!BigEndian(s) = s[1] * 256 + s[2]
    BY <2>1, BigEndianTwo
  <2> QED
    BY <1>3, <2>1, <2>2, <2>3, <2>4 DEF s
<1>6. CASE Extra(n) = 8
  <2>1. /\ s \in Seq(Nat) /\ Len(s) = 8 /\ s[1] = L[2] /\ s[2] = L[3] /\ s[3] = L[4] /\ s[4] = L[5]
        /\ s[5] = L[6] /\ s[6] = L[7] /\ s[7] = L[8] /\ s[8] = L[9]
    BY <1>4, <1>6
  <2>2. /\ L[2] = 0 /\ L[3] = 0 /\ L[4] = 0 /\ L[5] = 0
        /\ L[6] = Byte3(n) /\ L[7] = Byte2(n) /\ L[8] = Byte1(n) /\ L[9] = Byte0(n)
    BY <1>6, LengthForms DEF L
  <2>3. ((Byte3(n) * 256 + Byte2(n)) * 256 + Byte1(n)) * 256 + Byte0(n) = n
    BY Division
  <2>4. Wire!BigEndian(s) = ((s[5] * 256 + s[6]) * 256 + s[7]) * 256 + s[8]
    <3>1. s[1] = 0 /\ s[2] = 0 /\ s[3] = 0 /\ s[4] = 0
      BY <2>1, <2>2
    <3> QED
      BY <2>1, <3>1, BigEndianEight, Zenon
  <2> QED
    BY <1>3, <2>1, <2>2, <2>3, <2>4 DEF s
<1> QED
  BY <1>1, <1>3, <1>5, <1>6

\* The bytes of the mask, and all of those before the payload.
MaskLen(bit) == IF bit = 128 THEN 4 ELSE 0
Before(n, bit) == 2 + Extra(n) + MaskLen(bit)

\* The mask takes four bytes, or there is none.
LEMMA MaskLens ==
  MaskLen(0) = 0 /\ MaskLen(128) = 4 /\ \A bit \in {0, 128} : MaskLen(bit) \in {0, 4}
BY DEF MaskLen

\* FrameAt finds a payload of n bytes behind the first start of d.
Reads(d, start, n, bit) ==
  LET raw == SubSeq(d, start + 1, start + n)
  IN Wire!FrameAt(d) =
       IF Len(d) >= start + n
       THEN [whole |-> TRUE, fin |-> d[1] >= 128, opcode |-> d[1] % 16,
             payload |-> IF bit = 128 THEN Wire!Masked(raw) ELSE raw, next |-> start + n + 1]
       ELSE [whole |-> FALSE]

\* What is read behind the length: nothing until it is all there, then all of it.
LEMMA FrameRead ==
  ASSUME NEW n \in Lengths, NEW bit \in {0, 128}, NEW d, Announces(d, n, bit)
  PROVE  Reads(d, Before(n, bit), n, bit)
<1> DEFINE short == d[2] % 128
           ext == CASE short = 126 -> 2 [] short = 127 -> 8 [] OTHER -> 0
           len == IF ext = 0 THEN short ELSE Wire!BigEndian(SubSeq(d, 3, 2 + ext))
           start == 2 + ext + (IF d[2] >= 128 THEN 4 ELSE 0)
           raw == SubSeq(d, start + 1, start + len)
<1>1. Extra(n) \in {0, 2, 8} /\ n \in Nat
  BY ExtraMeans
<1>2. d[2] >= 128 <=> bit = 128
  BY LengthRead
<1>3. short = Short(n)
  BY LengthRead
<1>4. Extra(n) # 0 => Wire!BigEndian(SubSeq(d, 3, 2 + Extra(n))) = n
  BY LengthRead
<1> HIDE DEF short
<1>5. ext = Extra(n)
  BY <1>1, <1>3, ExtraMeans
<1> HIDE DEF ext
<1>6. len = n
  <2>1. CASE Extra(n) = 0
    <3>1. short = n
      BY <1>3, <2>1, ExtraMeans
    <3> QED
      BY <1>5, <2>1, <3>1
  <2>2. CASE Extra(n) # 0
    BY <1>4, <1>5, <2>2
  <2> QED
    BY <2>1, <2>2
<1> HIDE DEF len
<1>7. start = Before(n, bit)
  BY <1>2, <1>5 DEF Before, MaskLen
<1>8. Len(d) >= 2 /\ Len(d) >= 2 + ext
  BY <1>1, <1>5 DEF Announces
<1>9. Wire!FrameAt(d) =
        IF Len(d) >= start + len
        THEN [whole |-> TRUE, fin |-> d[1] >= 128, opcode |-> d[1] % 16,
              payload |-> IF d[2] >= 128 THEN Wire!Masked(raw) ELSE raw, next |-> start + len + 1]
        ELSE [whole |-> FALSE]
  BY <1>8, Zenon DEF Wire!FrameAt, short, ext, len
<1> QED
  BY <1>2, <1>6, <1>7, <1>9 DEF Reads

\* Before the length is there nothing is read.
LEMMA HeadCut ==
  ASSUME NEW n \in Lengths, NEW bit \in {0, 128}, NEW d \in Seq(Byte), Len(d) < 2 + Extra(n),
         Len(d) >= 2 => d[2] = Wire!LengthForm(n, bit)[1]
  PROVE  ~ Wire!FrameAt(d).whole
<1>1. Extra(n) \in {0, 2, 8} /\ n \in Nat /\ Len(d) \in Nat
  BY ExtraMeans
<1>2. CASE Len(d) < 2
  <2>1. ~ (Len(d) >= 2)
    BY <1>1, <1>2
  <2>2. Wire!FrameAt(d) = [whole |-> FALSE]
    BY <2>1, Zenon DEF Wire!FrameAt
  <2> QED
    BY <2>2
<1>3. CASE Len(d) >= 2
  <2> DEFINE short == d[2] % 128
             ext == CASE short = 126 -> 2 [] short = 127 -> 8 [] OTHER -> 0
  <2>1. short = Short(n)
    BY <1>3, LengthForms
  <2> HIDE DEF short
  <2>2. ext = Extra(n)
    BY <1>1, <2>1, ExtraMeans
  <2> HIDE DEF ext
  <2>3. ~ (Len(d) >= 2 + ext)
    BY <1>1, <2>2
  <2>4. Wire!FrameAt(d) = [whole |-> FALSE]
    BY <1>3, <2>3, Zenon DEF Wire!FrameAt, short, ext
  <2> QED
    BY <2>4
<1> QED
  BY <1>1, <1>2, <1>3

\* The bytes of a sequence put together of two, and those of a beginning of it.
LEMMA Joint ==
  ASSUME NEW s \in Seq(Byte), NEW t \in Seq(Byte), NEW d, d = s \o t
  PROVE  /\ d \in Seq(Byte) /\ Len(d) = Len(s) + Len(t)
         /\ \A i \in 1 .. Len(s) : d[i] = s[i]
         /\ \A i \in 1 .. Len(t) : d[Len(s) + i] = t[i]
<1>1. /\ d \in Seq(Byte) /\ Len(d) = Len(s) + Len(t)
      /\ \A i \in 1 .. Len(s) + Len(t) : d[i] = IF i <= Len(s) THEN s[i] ELSE t[i - Len(s)]
  BY ConcatProperties
<1>2. Len(s) \in Nat /\ Len(t) \in Nat
  OBVIOUS
<1>3. \A i \in 1 .. Len(s) : i \in 1 .. Len(s) + Len(t) /\ i <= Len(s)
  BY <1>2
<1>4. \A i \in 1 .. Len(t) :
        Len(s) + i \in 1 .. Len(s) + Len(t) /\ ~ (Len(s) + i <= Len(s)) /\ (Len(s) + i) - Len(s) = i
  BY <1>2
<1> QED
  BY <1>1, <1>3, <1>4

\* The beginning of a sequence of bytes.
LEMMA Beginning ==
  ASSUME NEW s \in Seq(Byte), NEW k \in 0 .. Len(s)
  PROVE  /\ SubSeq(s, 1, k) \in Seq(Byte) /\ Len(SubSeq(s, 1, k)) = k
         /\ \A i \in 1 .. k : SubSeq(s, 1, k)[i] = s[i]
OBVIOUS

\* The bytes behind the first m, when they are t.
LEMMA Behind ==
  ASSUME NEW s \in Seq(Byte), NEW t \in Seq(Byte), NEW m \in Nat, Len(s) >= m + Len(t),
         \A i \in 1 .. Len(t) : s[m + i] = t[i]
  PROVE  SubSeq(s, m + 1, m + Len(t)) = t
<1> DEFINE r == SubSeq(s, m + 1, m + Len(t))
<1>1. Len(t) \in Nat /\ \A i \in m + 1 .. m + Len(t) : s[i] \in Byte
  OBVIOUS
<1>2. r \in Seq(Byte) /\ Len(r) = Len(t) /\ \A i \in 1 .. Len(t) : r[i] = s[m + i]
  BY <1>1
<1> HIDE DEF r
<1>3. r = t
  BY <1>2
<1> QED
  BY <1>3 DEF r

\* What may stand between the length and the payload: the mask, or nothing.
Between(bit) == {s \in Seq(Byte) : Len(s) = MaskLen(bit)}

\* A frame: its first byte, the length, what stands between it and the payload, the payload.
Laid(first, bit, between, p) == <<first>> \o Wire!LengthForm(Len(p), bit) \o between \o p

\* The payloads the theorems are about.
Payloads == {s \in Seq(Byte) : Len(s) \in Lengths}

\* Where the parts of the frame F are in d, which goes on with rest.
Parted(F, d, first, bit, p, rest) ==
  /\ F \in Seq(Byte) /\ Len(F) = Before(Len(p), bit) + Len(p)
  /\ d \in Seq(Byte) /\ Len(d) = Len(F) + Len(rest)
  /\ d[1] = first
  /\ \A i \in 1 .. 1 + Extra(Len(p)) : d[i + 1] = Wire!LengthForm(Len(p), bit)[i]
  /\ \A i \in 1 .. Len(p) : d[Before(Len(p), bit) + i] = p[i]
  /\ \A i \in 1 .. Len(rest) : d[Len(F) + i] = rest[i]
  /\ \A i \in 1 .. Len(F) : d[i] = F[i]

\* Where the parts of a frame are, with anything behind it.
LEMMA FrameParts ==
  ASSUME NEW first \in Byte, NEW bit \in {0, 128}, NEW between \in Between(bit),
         NEW p \in Payloads, NEW rest \in Seq(Byte), NEW F, F = Laid(first, bit, between, p), NEW d, d = F \o rest
  PROVE  Parted(F, d, first, bit, p, rest)
<1> DEFINE n == Len(p)
           L == Wire!LengthForm(n, bit)
           a == <<first>>
           b == a \o L
           c == b \o between
<1>0. b = a \o L /\ c = b \o between /\ F = c \o p /\ d = F \o rest
  BY Zenon DEF Laid
<1>a. p \in Seq(Byte) /\ Len(p) \in Lengths
  BY Zenon DEF Payloads
<1>b. between \in Seq(Byte) /\ Len(between) = MaskLen(bit)
  BY Zenon DEF Between
<1>1. n \in Nat /\ n \in Lengths /\ Extra(n) \in {0, 2, 8} /\ Len(rest) \in Nat
  BY <1>a, ExtraMeans
<1>2. L \in Seq(Byte) /\ Len(L) = 1 + Extra(n)
  BY <1>1, LengthForms
<1>3. a \in Seq(Byte) /\ Len(a) = 1 /\ a[1] = first
  OBVIOUS
<1> HIDE DEF n, L, a, b, c
<1>4. /\ b \in Seq(Byte) /\ Len(b) = 2 + Extra(n) /\ b[1] = first
      /\ \A i \in 1 .. 1 + Extra(n) : b[i + 1] = L[i]
  <2>1. /\ b \in Seq(Byte) /\ Len(b) = Len(a) + Len(L)
        /\ \A i \in 1 .. Len(a) : b[i] = a[i]
        /\ \A i \in 1 .. Len(L) : b[Len(a) + i] = L[i]
    <3>1. a \in Seq(Byte) /\ L \in Seq(Byte) /\ b = a \o L
      BY <1>0, <1>2, <1>3
    <3> QED
      BY <3>1, Joint, SMT
  <2>2. Len(b) = 2 + Extra(n)
    BY <1>1, <1>2, <1>3, <2>1
  <2>3. b[1] = first
    BY <1>3, <2>1
  <2>4. ASSUME NEW i \in 1 .. 1 + Extra(n) PROVE b[i + 1] = L[i]
    <3>1. i \in 1 .. Len(L) /\ Len(a) + i = i + 1
      BY <1>1, <1>2, <1>3
    <3> QED
      BY <2>1, <3>1, Zenon
  <2> QED
    BY <2>1, <2>2, <2>3, <2>4
<1>5. /\ c \in Seq(Byte) /\ Len(c) = Before(n, bit)
      /\ \A i \in 1 .. 2 + Extra(n) : c[i] = b[i]
  <2>1. /\ c \in Seq(Byte) /\ Len(c) = Len(b) + Len(between)
        /\ \A i \in 1 .. Len(b) : c[i] = b[i]
    <3>1. b \in Seq(Byte) /\ between \in Seq(Byte) /\ c = b \o between
      BY <1>0, <1>4, <1>b
    <3> QED
      BY <3>1, Joint, SMT
  <2> QED
    BY <1>1, <1>4, <1>b, <2>1 DEF Before
<1>6. /\ F \in Seq(Byte) /\ Len(F) = Before(n, bit) + n
      /\ \A i \in 1 .. Before(n, bit) : F[i] = c[i]
      /\ \A i \in 1 .. n : F[Before(n, bit) + i] = p[i]
  <2>1. /\ F \in Seq(Byte) /\ Len(F) = Len(c) + Len(p)
        /\ \A i \in 1 .. Len(c) : F[i] = c[i]
        /\ \A i \in 1 .. Len(p) : F[Len(c) + i] = p[i]
    <3>1. c \in Seq(Byte) /\ p \in Seq(Byte) /\ F = c \o p
      BY <1>0, <1>5, <1>a
    <3> QED
      BY <3>1, Joint, SMT
  <2> QED
    BY <1>5, <2>1 DEF n
<1>7. /\ d \in Seq(Byte) /\ Len(d) = Len(F) + Len(rest)
      /\ \A i \in 1 .. Len(F) : d[i] = F[i]
      /\ \A i \in 1 .. Len(rest) : d[Len(F) + i] = rest[i]
  <2>1. F \in Seq(Byte) /\ rest \in Seq(Byte) /\ d = F \o rest
    BY <1>0, <1>6
  <2> QED
    BY <2>1, Joint, SMT
<1>8. Before(n, bit) \in Nat /\ Before(n, bit) >= 2 + Extra(n)
  BY <1>1, MaskLens DEF Before
<1>9. \A i \in 1 .. 2 + Extra(n) : d[i] = b[i]
  <2>1. \A i \in 1 .. 2 + Extra(n) : i \in 1 .. Before(n, bit) /\ i \in 1 .. Len(F)
    BY <1>1, <1>6, <1>8
  <2> QED
    BY <2>1, <1>5, <1>6, <1>7
<1>10. d[1] = first
  <2>1. 1 \in 1 .. 2 + Extra(n)
    BY <1>1
  <2> QED
    BY <2>1, <1>4, <1>9
<1>11. \A i \in 1 .. 1 + Extra(n) : d[i + 1] = L[i]
  <2>1. \A i \in 1 .. 1 + Extra(n) : i + 1 \in 1 .. 2 + Extra(n)
    BY <1>1
  <2> QED
    BY <2>1, <1>4, <1>9
<1>12. \A i \in 1 .. n : d[Before(n, bit) + i] = p[i]
  <2>1. \A i \in 1 .. n : Before(n, bit) + i \in 1 .. Len(F)
    BY <1>1, <1>6, <1>8
  <2> QED
    BY <2>1, <1>6, <1>7
<1> QED
  BY <1>6, <1>7, <1>10, <1>11, <1>12, Zenon DEF n, L, Parted

\* The frame F is read back from d, and from no beginning of F.
ReadBack(F, d, first, bit, p, rest) ==
  /\ Wire!FrameAt(d) =
       [whole |-> TRUE, fin |-> first >= 128, opcode |-> first % 16,
        payload |-> IF bit = 128 THEN Wire!Masked(p) ELSE p, next |-> Len(F) + 1]
  /\ SubSeq(d, Len(F) + 1, Len(d)) = rest
  /\ \A k \in 0 .. Len(F) - 1 : ~ Wire!FrameAt(SubSeq(F, 1, k)).whole

\* A frame is read back whole, with what is behind it left for the next; and no
\* beginning of it is taken for one.
LEMMA FrameReadBack ==
  ASSUME NEW first \in Byte, NEW bit \in {0, 128}, NEW between \in Between(bit),
         NEW p \in Payloads, NEW rest \in Seq(Byte), NEW F, F = Laid(first, bit, between, p), NEW d, d = F \o rest
  PROVE  ReadBack(F, d, first, bit, p, rest)
<1> DEFINE n == Len(p)
           B == Before(n, bit)
<1>a. p \in Seq(Byte) /\ Len(p) \in Lengths
  BY Zenon DEF Payloads
<1>1. n \in Nat /\ n \in Lengths /\ Extra(n) \in {0, 2, 8} /\ Len(rest) \in Nat
  BY <1>a, ExtraMeans
<1>2. /\ F \in Seq(Byte) /\ Len(F) = B + n
      /\ d \in Seq(Byte) /\ Len(d) = Len(F) + Len(rest)
      /\ d[1] = first
      /\ \A i \in 1 .. 1 + Extra(n) : d[i + 1] = Wire!LengthForm(n, bit)[i]
      /\ \A i \in 1 .. n : d[B + i] = p[i]
      /\ \A i \in 1 .. Len(rest) : d[Len(F) + i] = rest[i]
      /\ \A i \in 1 .. Len(F) : d[i] = F[i]
  <2>1. Parted(F, d, first, bit, p, rest)
    BY FrameParts, Zenon
  <2> QED
    BY <2>1, Zenon DEF Parted
<1>3. B \in Nat /\ B >= 2 + Extra(n)
  <2>1. MaskLen(bit) \in {0, 4}
    BY MaskLens
  <2> HIDE DEF n
  <2> QED
    BY <1>1, <2>1 DEF Before
<1> HIDE DEF n, B
<1>4. Announces(d, n, bit)
  BY <1>1, <1>2, <1>3 DEF Announces
<1>5. SubSeq(d, B + 1, B + n) = p
  <2>1. Len(d) >= B + n
    BY <1>1, <1>2, <1>3
  <2> QED
    BY <1>a, <1>2, <1>3, <2>1, Behind DEF n
<1>6. Wire!FrameAt(d) =
        [whole |-> TRUE, fin |-> first >= 128, opcode |-> first % 16,
         payload |-> IF bit = 128 THEN Wire!Masked(p) ELSE p, next |-> Len(F) + 1]
  <2>1. Len(d) >= B + n /\ B + n + 1 = Len(F) + 1
    BY <1>1, <1>2, <1>3
  <2>2. Wire!FrameAt(d) =
          IF Len(d) >= B + n
          THEN [whole |-> TRUE, fin |-> d[1] >= 128, opcode |-> d[1] % 16,
                payload |-> IF bit = 128 THEN Wire!Masked(SubSeq(d, B + 1, B + n))
                                         ELSE SubSeq(d, B + 1, B + n),
                next |-> B + n + 1]
          ELSE [whole |-> FALSE]
    <3>1. Reads(d, B, n, bit)
      BY <1>1, <1>4, FrameRead, Zenon DEF B
    <3> QED
      BY <3>1, Zenon DEF Reads
  <2> QED
    BY <1>2, <1>5, <2>1, <2>2
<1>7. SubSeq(d, Len(F) + 1, Len(d)) = rest
  <2>1. Len(F) \in Nat /\ Len(d) = Len(F) + Len(rest) /\ Len(d) >= Len(F) + Len(rest)
    BY <1>1, <1>2, <1>3
  <2>2. SubSeq(d, Len(F) + 1, Len(F) + Len(rest)) = rest
    <3>1. d \in Seq(Byte) /\ \A i \in 1 .. Len(rest) : d[Len(F) + i] = rest[i]
      BY <1>2, Zenon
    <3> QED
      BY <2>1, <3>1, Behind, Zenon
  <2> QED
    BY <2>1, <2>2, Zenon
<1>8. ASSUME NEW k \in 0 .. Len(F) - 1
      PROVE  ~ Wire!FrameAt(SubSeq(F, 1, k)).whole
  <2> DEFINE e == SubSeq(F, 1, k)
  <2>1. /\ k \in 0 .. Len(F) /\ k \in Nat /\ k < B + n
        /\ \A i \in 1 .. k : i \in 1 .. Len(F)
    BY <1>1, <1>2, <1>3
  <2>2. e \in Seq(Byte) /\ Len(e) = k /\ \A i \in 1 .. k : e[i] = d[i]
    BY <1>2, <2>1, Beginning
  <2> HIDE DEF e
  <2>3. CASE k < 2 + Extra(n)
    <3>1. ASSUME Len(e) >= 2 PROVE e[2] = Wire!LengthForm(n, bit)[1]
      <4>1. 2 \in 1 .. k /\ 1 \in 1 .. 1 + Extra(n)
        BY <1>1, <2>1, <2>2, <3>1
      <4>2. e[2] = d[2]
        BY <2>2, <4>1
      <4>3. d[1 + 1] = Wire!LengthForm(n, bit)[1]
        BY <1>2, <4>1
      <4>4. 1 + 1 = 2
        OBVIOUS
      <4> QED
        BY <4>2, <4>3, <4>4, Zenon
    <3>2. ~ Wire!FrameAt(e).whole
      BY <1>1, <2>2, <2>3, <3>1, HeadCut
    <3> QED
      BY <3>2 DEF e
  <2>4. CASE k >= 2 + Extra(n)
    <3>1. \A i \in 1 .. 1 + Extra(n) : i + 1 \in 1 .. k
      BY <1>1, <2>1, <2>4
    <3>2. Announces(e, n, bit)
      BY <1>2, <2>2, <2>4, <3>1 DEF Announces
    <3>3. ~ (Len(e) >= B + n)
      BY <1>1, <1>3, <2>1, <2>2
    <3>4. Wire!FrameAt(e) =
            IF Len(e) >= B + n
            THEN [whole |-> TRUE, fin |-> e[1] >= 128, opcode |-> e[1] % 16,
                  payload |-> IF bit = 128 THEN Wire!Masked(SubSeq(e, B + 1, B + n))
                                           ELSE SubSeq(e, B + 1, B + n),
                  next |-> B + n + 1]
            ELSE [whole |-> FALSE]
      <4>1. Reads(e, B, n, bit)
        BY <1>1, <3>2, FrameRead, Zenon DEF B
      <4> QED
        BY <4>1, Zenon DEF Reads
    <3> QED
      BY <3>3, <3>4 DEF e
  <2> QED
    BY <1>1, <2>1, <2>3, <2>4
<1> QED
  BY <1>6, <1>7, <1>8, Zenon DEF ReadBack

\* Masking twice gives the payload back.
LEMMA MaskedBack ==
  ASSUME NEW p \in Seq(Byte)
  PROVE  /\ Wire!Masked(p) \in Seq(Byte) /\ Len(Wire!Masked(p)) = Len(p)
         /\ Wire!Masked(Wire!Masked(p)) = p
<1> DEFINE q == Wire!Masked(p)
           r == Wire!Masked(q)
           Flip(c) == IF (c \div 128) % 2 = 0 THEN c + 128 ELSE c - 128
           Bits(k) == Wire!Mask[((k - 1) % 4) + 1]
<1>1. \A c \in Byte : Flip(c) \in Byte /\ Flip(Flip(c)) = c
  BY DEF Byte
<1>2. Len(p) \in Nat /\ DOMAIN p = 1 .. Len(p) /\ \A k \in 1 .. Len(p) : p[k] \in Byte
  OBVIOUS
<1> HIDE DEF Flip, Bits
<1>3. q = [k \in 1 .. Len(p) |-> IF Bits(k) = 0 THEN p[k] ELSE Flip(p[k])]
  BY <1>2 DEF Wire!Masked, Flip, Bits
<1> HIDE DEF q
<1>4. q \in [1 .. Len(p) -> Byte]
  BY <1>1, <1>2, <1>3
<1>5. q \in Seq(Byte) /\ Len(q) = Len(p)
  BY <1>2, <1>4
<1>6. r = [k \in 1 .. Len(p) |-> IF Bits(k) = 0 THEN q[k] ELSE Flip(q[k])]
  <2>1. DOMAIN q = 1 .. Len(p)
    BY <1>4
  <2> QED
    BY <2>1 DEF Wire!Masked, Flip, Bits
<1> HIDE DEF r
<1>7. \A k \in 1 .. Len(p) : r[k] = p[k]
  BY <1>1, <1>2, <1>3, <1>6
<1>8. r = [k \in 1 .. Len(p) |-> r[k]] /\ p = [k \in 1 .. Len(p) |-> p[k]]
  BY <1>2, <1>6
<1>9. r = p
  BY <1>7, <1>8
<1> QED
  BY <1>5, <1>9 DEF q, r

\* The first byte: whether the frame is the last, and the opcode.
LEMMA FirstByte ==
  ASSUME NEW opcode \in 0 .. 15
  PROVE  /\ 128 + opcode \in Byte /\ (128 + opcode) % 16 = opcode /\ (128 + opcode >= 128) = TRUE
         /\ 0 + opcode \in Byte /\ (0 + opcode) % 16 = opcode /\ (0 + opcode >= 128) = FALSE
<1>1. 128 + opcode \in Byte /\ (128 + opcode) % 16 = opcode /\ 128 + opcode >= 128
  BY SMT DEF Byte
<1>2. 0 + opcode \in Byte /\ (0 + opcode) % 16 = opcode /\ ~ (0 + opcode >= 128)
  BY SMT DEF Byte
<1>3. (0 + opcode >= 128) = FALSE
  BY <1>2, SMT
<1>4. (128 + opcode >= 128) = TRUE
  BY <1>1, SMT
<1> QED
  BY <1>1, <1>2, <1>3, <1>4, Zenon

\* A frame of the server, final or not, of any payload of less than 2^32 bytes,
\* is taken apart by recvMessage as it was put together, in each of the three
\* forms of its length: nothing before all of it has arrived, then the frame,
\* and what follows is left for the next.
THEOREM ServerFramesArrive ==
  ASSUME NEW fin \in BOOLEAN, NEW opcode \in 0 .. 15, NEW p \in Seq(Byte), Len(p) \in Lengths,
         NEW rest \in Seq(Byte)
  PROVE  LET F == Wire!ServerFrame(fin, opcode, p) IN
         /\ Wire!FrameAt(F \o rest) =
              [whole |-> TRUE, fin |-> fin, opcode |-> opcode, payload |-> p, next |-> Len(F) + 1]
         /\ SubSeq(F \o rest, Len(F) + 1, Len(F \o rest)) = rest
         /\ \A k \in 0 .. Len(F) - 1 : ~ Wire!FrameAt(SubSeq(F, 1, k)).whole
<1> DEFINE F == Wire!ServerFrame(fin, opcode, p)
           first == (IF fin THEN 128 ELSE 0) + opcode
<1>1. first \in Byte /\ first % 16 = opcode /\ (first >= 128) = fin
  <2>1. CASE fin = TRUE
    <3>1. first = 128 + opcode
      BY <2>1, Zenon
    <3> HIDE DEF first
    <3> QED
      BY <2>1, <3>1, FirstByte, Zenon
  <2>2. CASE fin = FALSE
    <3>1. first = 0 + opcode
      BY <2>2, Zenon
    <3> HIDE DEF first
    <3> QED
      BY <2>2, <3>1, FirstByte, Zenon
  <2> QED
    BY <2>1, <2>2, Zenon
<1>3. F = Laid(first, 0, <<>>, p)
  <2>1. <<first>> \o Wire!LengthForm(Len(p), 0) \in Seq(Byte)
    <3> HIDE DEF first
    <3>1. <<first>> \in Seq(Byte) /\ Wire!LengthForm(Len(p), 0) \in Seq(Byte)
      BY <1>1, LengthForms
    <3> QED
      BY <3>1, ConcatProperties
  <2>2. <<first>> \o Wire!LengthForm(Len(p), 0) \o <<>> = <<first>> \o Wire!LengthForm(Len(p), 0)
    <3> DEFINE b == <<first>> \o Wire!LengthForm(Len(p), 0)
    <3> HIDE DEF b
    <3>1. b \o <<>> = b
      BY <2>1, ConcatEmptySeq DEF b
    <3> QED
      BY <3>1 DEF b
  <2> QED
    BY <2>2, Zenon DEF Laid, Wire!ServerFrame
<1> HIDE DEF F, first
<1>4. /\ Wire!FrameAt(F \o rest) =
           [whole |-> TRUE, fin |-> first >= 128, opcode |-> first % 16,
            payload |-> IF 0 = 128 THEN Wire!Masked(p) ELSE p, next |-> Len(F) + 1]
      /\ SubSeq(F \o rest, Len(F) + 1, Len(F \o rest)) = rest
      /\ \A k \in 0 .. Len(F) - 1 : ~ Wire!FrameAt(SubSeq(F, 1, k)).whole
  <2>1. <<>> \in Between(0) /\ 0 \in {0, 128} /\ p \in Payloads
    BY MaskLens DEF Between, Payloads
  <2> DEFINE d == F \o rest
  <2>2. d = F \o rest
    OBVIOUS
  <2> HIDE DEF d
  <2>3. ReadBack(F, d, first, 0, p, rest)
    BY <1>1, <1>3, <2>1, <2>2, FrameReadBack, Zenon
  <2> QED
    BY <2>2, <2>3, Zenon DEF ReadBack
<1>5. (IF 0 = 128 THEN Wire!Masked(p) ELSE p) = p
  OBVIOUS
<1>6. Wire!FrameAt(F \o rest) =
        [whole |-> TRUE, fin |-> fin, opcode |-> opcode, payload |-> p, next |-> Len(F) + 1]
  BY <1>1, <1>4, <1>5, Zenon
<1> QED
  BY <1>4, <1>6, Zenon DEF F

\* The same of what sendFrame writes, masked: the server's end of the link reads
\* the payload that was given to it, and a ping is answered with its own.
THEOREM ClientFramesArrive ==
  ASSUME NEW opcode \in 0 .. 15, NEW p \in Seq(Byte), Len(p) \in Lengths, NEW rest \in Seq(Byte)
  PROVE  LET F == Wire!SendFrame(opcode, p) IN
         /\ Wire!FrameAt(F \o rest) =
              [whole |-> TRUE, fin |-> TRUE, opcode |-> opcode, payload |-> p, next |-> Len(F) + 1]
         /\ SubSeq(F \o rest, Len(F) + 1, Len(F \o rest)) = rest
         /\ \A k \in 0 .. Len(F) - 1 : ~ Wire!FrameAt(SubSeq(F, 1, k)).whole
<1> DEFINE F == Wire!SendFrame(opcode, p)
           first == 128 + opcode
           q == Wire!Masked(p)
<1>1. first \in Byte /\ first % 16 = opcode /\ (first >= 128) = TRUE
  BY FirstByte, Zenon
<1>2. q \in Seq(Byte) /\ Len(q) = Len(p) /\ Wire!Masked(q) = p
  BY MaskedBack
<1>3. Wire!Mask \in Seq(Byte) /\ Len(Wire!Mask) = 4
  BY DEF Wire!Mask, Byte
<1>4. F = Laid(first, 128, Wire!Mask, q)
  BY <1>2, Zenon DEF Laid, Wire!SendFrame
<1> HIDE DEF F, first, q
<1>5. /\ Wire!FrameAt(F \o rest) =
           [whole |-> TRUE, fin |-> first >= 128, opcode |-> first % 16,
            payload |-> IF 128 = 128 THEN Wire!Masked(q) ELSE q, next |-> Len(F) + 1]
      /\ SubSeq(F \o rest, Len(F) + 1, Len(F \o rest)) = rest
      /\ \A k \in 0 .. Len(F) - 1 : ~ Wire!FrameAt(SubSeq(F, 1, k)).whole
  <2>1. Wire!Mask \in Between(128) /\ 128 \in {0, 128}
    BY <1>3, MaskLens DEF Between
  <2>2. q \in Payloads
    BY <1>2 DEF Payloads
  <2>3. F = Laid(first, 128, Wire!Mask, q)
    BY <1>4
  <2> DEFINE d == F \o rest
  <2>4. d = F \o rest
    OBVIOUS
  <2> HIDE DEF d
  <2>5. ReadBack(F, d, first, 128, q, rest)
    BY <1>1, <1>2, <1>3, <2>1, <2>2, <2>3, <2>4, FrameReadBack, Zenon
  <2> QED
    BY <2>4, <2>5, Zenon DEF ReadBack
<1>6. (IF 128 = 128 THEN Wire!Masked(q) ELSE q) = p
  BY <1>2, Zenon
<1>7. Wire!FrameAt(F \o rest) =
        [whole |-> TRUE, fin |-> TRUE, opcode |-> opcode, payload |-> p, next |-> Len(F) + 1]
  BY <1>1, <1>5, <1>6, Zenon
<1> QED
  BY <1>5, <1>7, Zenon DEF F

\* The opcodes whose payload is part of a message.
Data == {Wire!Continuation, Wire!Text, Wire!Binary}

\* The frames cut a message d of the kind op into pieces: frame k brings what is
\* between cut[k - 1] and cut[k], control frames bring nothing of it.
Pieces(frames, n, cut, d, op) ==
  /\ cut[0] = 0 /\ cut[n] = Len(d)
  /\ \A k \in 1 .. n :
       IF frames[k].opcode \in Data
       THEN /\ cut[k - 1] <= cut[k]
            /\ frames[k].payload = SubSeq(d, cut[k - 1] + 1, cut[k])
            /\ frames[k].opcode = IF \E j \in 1 .. k - 1 : frames[j].opcode \in Data
                                  THEN Wire!Continuation ELSE op
       ELSE cut[k] = cut[k - 1]

\* What a step of Gather that takes a piece leaves, field by field.
LEMMA Gathered ==
  ASSUME NEW x, NEW y, NEW z, NEW r, r = [data |-> x, haveOp |-> y, bin |-> z]
  PROVE  r.data = x /\ r.haveOp = y /\ r.bin = z
OBVIOUS

\* A beginning of a message and the piece that follows it.
LEMMA NextPiece ==
  ASSUME NEW S, NEW d \in Seq(S), NEW a \in 0 .. Len(d), NEW b \in 0 .. Len(d), a <= b
  PROVE  SubSeq(d, 1, a) \o SubSeq(d, a + 1, b) = SubSeq(d, 1, b)
OBVIOUS

\* However a message is cut, and whatever pings, pongs and unknown frames come
\* between the pieces, the loop of recvMessage puts together the message that
\* was sent, and takes it for what its first piece says.
THEOREM PiecesMakeTheMessage ==
  ASSUME NEW d \in Seq(Byte), NEW op \in {Wire!Text, Wire!Binary}, NEW n \in Nat,
         NEW cut \in [0 .. n -> 0 .. Len(d)], NEW frames, Pieces(frames, n, cut, d, op),
         \E k \in 1 .. n : frames[k].opcode \in Data,
         NEW recv, recv[0] = Wire!NoMessage,
         \A k \in 1 .. n : recv[k] = Wire!Gather(recv[k - 1], frames[k])
  PROVE  recv[n].data = d /\ (recv[n].bin <=> op = Wire!Binary)
<1> DEFINE Begun(k) == \E j \in 1 .. k : frames[j].opcode \in Data
           Right(k) == /\ recv[k].data = SubSeq(d, 1, cut[k])
                       /\ recv[k].haveOp <=> Begun(k)
                       /\ Begun(k) => (recv[k].bin <=> op = Wire!Binary)
           T == {k \in 0 .. n : Right(k)}
<1>1. 0 \in T
  <2>1. recv[0].data = <<>> /\ ~ recv[0].haveOp
    BY DEF Wire!NoMessage
  <2>2. ~ Begun(0)
    OBVIOUS
  <2>3. SubSeq(d, 1, cut[0]) = <<>>
    BY DEF Pieces
  <2>4. 0 \in 0 .. n
    OBVIOUS
  <2> QED
    BY <2>1, <2>2, <2>3, <2>4
<1>2. ASSUME NEW k \in 1 .. n, k - 1 \in T PROVE k \in T
  <2> DEFINE r == recv[k - 1]
             f == frames[k]
             now == recv[k]
  <2>1. Right(k - 1) /\ recv[k] = Wire!Gather(r, f) /\ k \in 0 .. n /\ k - 1 \in 0 .. n
    BY <1>2
  <2>2. Begun(k) <=> Begun(k - 1) \/ f.opcode \in Data
    <3>1. \A j \in 1 .. k : j = k \/ j \in 1 .. k - 1
      OBVIOUS
    <3>2. k \in 1 .. k /\ \A j \in 1 .. k - 1 : j \in 1 .. k
      OBVIOUS
    <3> QED
      BY <3>1, <3>2
  <2>3. CASE f.opcode \notin Data
    <3>1. recv[k] = r /\ cut[k] = cut[k - 1]
      BY <2>1, <2>3 DEF Wire!Gather, Data, Pieces
    <3>2. Right(k)
      BY <2>1, <2>2, <2>3, <3>1
    <3> QED
      BY <2>1, <3>2
  <2>4. CASE f.opcode \in Data
    <3> DEFINE first == ~ r.haveOp /\ f.opcode # Wire!Continuation
    <3>1. now = [data |-> r.data \o f.payload, haveOp |-> r.haveOp \/ first,
                     bin |-> IF first THEN f.opcode = Wire!Binary ELSE r.bin]
      BY <2>1, <2>4 DEF Wire!Gather, Data
    <3>2. /\ cut[k - 1] <= cut[k] /\ f.payload = SubSeq(d, cut[k - 1] + 1, cut[k])
          /\ f.opcode = IF Begun(k - 1) THEN Wire!Continuation ELSE op
      BY <2>4 DEF Pieces
    <3>3. op # Wire!Continuation
      BY DEF Wire!Text, Wire!Binary, Wire!Continuation
    <3>4. first <=> ~ Begun(k - 1)
      BY <2>1, <3>2, <3>3
    <3>5. Begun(k)
      BY <2>2, <2>4
    <3>6. recv[k].data = SubSeq(d, 1, cut[k])
      <4>1. cut[k] \in 0 .. Len(d) /\ cut[k - 1] \in 0 .. Len(d)
        BY <2>1
      <4>2. recv[k].data = SubSeq(d, 1, cut[k - 1]) \o SubSeq(d, cut[k - 1] + 1, cut[k])
        <5>1. recv[k].data = r.data \o f.payload
          <6>1. now.data = r.data \o f.payload
            <7> HIDE DEF now, r, f, first
            <7> QED
              BY <3>1, Gathered, Zenon
          <6> QED
            BY <6>1, Zenon
        <5>2. r.data = SubSeq(d, 1, cut[k - 1])
          BY <2>1
        <5> HIDE DEF r, f
        <5> QED
          BY <3>2, <5>1, <5>2, Zenon
      <4>3. SubSeq(d, 1, cut[k - 1]) \o SubSeq(d, cut[k - 1] + 1, cut[k]) = SubSeq(d, 1, cut[k])
        BY <3>2, <4>1, NextPiece
      <4> QED
        BY <4>2, <4>3, Zenon
    <3> HIDE DEF first, r
    <3>7. recv[k].haveOp = (r.haveOp \/ first)
      <4>1. now.haveOp = (r.haveOp \/ first)
        <5> HIDE DEF now, r, f, first
        <5> QED
          BY <3>1, Gathered, Zenon
      <4> QED
        BY <4>1, Zenon
    <3>8. recv[k].bin = (IF first THEN f.opcode = Wire!Binary ELSE r.bin)
      <4>1. now.bin = (IF first THEN f.opcode = Wire!Binary ELSE r.bin)
        <5> HIDE DEF now, r, f, first
        <5> QED
          BY <3>1, Gathered, Zenon
      <4> QED
        BY <4>1, Zenon
    <3>9. recv[k].haveOp <=> Begun(k)
      <4>1. r.haveOp <=> Begun(k - 1)
        BY <2>1, Zenon DEF r
      <4> HIDE DEF Begun
      <4> QED
        BY <3>4, <3>5, <3>7, <4>1, Zenon
    <3>10. recv[k].bin <=> op = Wire!Binary
      <4>1. CASE Begun(k - 1)
        <5>1. r.bin <=> op = Wire!Binary
          BY <2>1, <4>1, Zenon DEF r
        <5> HIDE DEF Begun
        <5> QED
          BY <3>4, <3>8, <4>1, <5>1, Zenon
      <4>2. CASE ~ Begun(k - 1)
        <5>1. f.opcode = op
          BY <3>2, <4>2, Zenon
        <5> HIDE DEF Begun
        <5> QED
          BY <3>4, <3>8, <4>2, <5>1, Zenon
      <4> QED
        BY <4>1, <4>2, Zenon
    <3>11. Right(k)
      BY <3>6, <3>9, <3>10, Zenon
    <3> QED
      BY <2>1, <3>11
  <2> QED
    BY <2>3, <2>4
<1>3. \A k \in 0 .. n : k \in T
  <2> HIDE DEF T
  <2> QED
    BY <1>1, <1>2, Induct
<1>4. Right(n) /\ Begun(n)
  <2>1. n \in 0 .. n
    OBVIOUS
  <2> QED
    BY <1>3, <2>1
<1>5. SubSeq(d, 1, cut[n]) = d
  BY DEF Pieces
<1> QED
  BY <1>4, <1>5

=============================================================================
