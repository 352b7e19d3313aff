--------------------------- MODULE LocalPoolProofs ---------------------------
(***************************************************************************)
(* The worker pool and the pool of local connections of tunnel-lite, for   *)
(* every number of requests, workers, connections and pieces, every        *)
(* framing and whatever faults: no worker sleeps on work, no visitor gets  *)
(* another's answer, none gets half an answer for a whole one, what is     *)
(* sent for a request is what StreamFrames allows, and no reader is left   *)
(* waiting for what will not come.                                         *)
(***************************************************************************)
EXTENDS LocalPool, QueueLemmas

\* Where a request has a connection of its own, and where it consumes a body.
Holding   == {"write", "head", "size", "data", "crlf", "length", "stream", "end", "release"}
Consuming == {"size", "data", "crlf", "length", "stream"}
Early     == {"none", "queued", "new", "connect", "write", "head"}

PieceSet == [what : Framings \cup {"size", "data", "crlf", "cr", "lf", "last", "fin"}, of : Reqs]
FrameSet == [kind : {"head", "chunk", "end", "abort"}, of : Reqs]

TypeOK ==
  /\ q \in Seq(Reqs) /\ stop_ \in BOOLEAN /\ idle \in Seq(Sock)
  /\ worker \in [Workers -> Reqs \cup {"check", "wait", "exited"}]
  /\ pc \in [Reqs -> Holding \cup Early \cup {"done"}]
  /\ attempt \in [Reqs -> {0, 1}]
  /\ reused \in [Reqs -> BOOLEAN] /\ keep \in [Reqs -> BOOLEAN]
  /\ conn \in [Reqs -> Sock \cup {NoSock}]
  /\ left \in [Reqs -> 0 .. MaxData]
  /\ frames \in [Reqs -> Seq(FrameSet)]
  /\ svc \in [Sock -> {"none", "open", "closed"}]
  /\ inbox \in [Sock -> Seq(Reqs)]
  /\ answering \in [Sock -> Seq(PieceSet)] /\ wire \in [Sock -> Seq(PieceSet)]
  /\ cut \subseteq Sock /\ broken \subseteq Sock

\* Nobody is in the queue twice, or while it is being answered.
QueueRight ==
  /\ \A i \in 1 .. Len(q) : pc[q[i]] = "queued"
  /\ \A i, j \in 1 .. Len(q) : q[i] = q[j] => i = j

\* A connection has one user at most, and none while it is idle; one that the service
\* has closed brings nothing more.
SocksRight ==
  /\ \A r \in Reqs : pc[r] \in Holding => conn[r] \in Sock /\ svc[conn[r]] # "none"
  /\ \A r, u \in Reqs : pc[r] \in Holding /\ pc[u] \in Holding /\ conn[r] = conn[u] => r = u
  /\ \A i \in 1 .. Len(idle) :
       svc[idle[i]] # "none" /\ \A r \in Reqs : pc[r] \in Holding => conn[r] # idle[i]
  /\ \A i, j \in 1 .. Len(idle) : idle[i] = idle[j] => i = j
  /\ \A s \in Sock : svc[s] # "open" => answering[s] = <<>> /\ inbox[s] = <<>>
  /\ \A s \in Sock : svc[s] = "none" => wire[s] = <<>>

\* What has been sent for a request, by where its worker is.
FramesRight(r) ==
  /\ pc[r] \in Early => frames[r] = <<>>
  /\ pc[r] \in Consuming \cup {"end"} =>
       frames[r] # <<>> /\ Last(r) \in {"head", "chunk"} /\ Count(r, "head") = 1 /\ Count(r, "end") = 0
  /\ pc[r] = "release" => frames[r] # <<>> /\ Last(r) = "end" /\ Count(r, "head") = 1
  /\ pc[r] = "done" =>
       /\ frames[r] # <<>>
       /\ \/ Last(r) = "end" /\ Count(r, "head") = 1
          \/ Last(r) = "abort" /\ Count(r, "head") = 0 /\ Count(r, "end") = 0
  /\ pc[r] = "length" => left[r] + Count(r, "chunk") = MaxData /\ left[r] > 0

\* What may come behind a piece of a response framed so, and what a loop expects.
Behind(f, w) ==
  CASE w \in Framings        -> IF f = "chunked" THEN {"size"}
                                ELSE IF f \in {"bodiless", "bare"} THEN {} ELSE {"data"}
    [] w = "size"            -> {"data"}
    [] w = "data"            -> IF f = "chunked" THEN {"crlf", "cr"}
                                ELSE IF f = "length" THEN {"data"} ELSE {"data", "fin"}
    [] w = "crlf"            -> {"size", "last"}
    [] w = "cr"              -> {"lf"}
    [] w = "lf"              -> {"size", "last"}
    [] OTHER                 -> {}

Expects(f, at) ==
  CASE at = "head"   -> {f}
    [] at = "size"   -> {"size", "last"}
    [] at = "data"   -> {"data"}
    [] at = "crlf"   -> {"crlf", "cr"}
    [] at = "length" -> IF f \in {"bodiless", "bare"} THEN {}
                        ELSE IF f = "length" THEN {"data"} ELSE {"data", "fin"}
    [] OTHER         -> IF f = "bare" THEN {} ELSE {"data", "fin"}

InOrder(f, z) == \A i \in 1 .. Len(z) - 1 : z[i + 1].what \in Behind(f, z[i].what)

Fits(f, at, z) == InOrder(f, z) /\ (z # <<>> => z[1].what \in Expects(f, at))

\* The loop for a response framed so.
InLoop(f, at) ==
  \/ at = "head"
  \/ f = "chunked" /\ at \in {"size", "data", "crlf"}
  \/ f \in {"length", "length_close", "bodiless"} /\ at = "length"
  \/ f \in {"until_close", "bare"} /\ at = "stream"

\* All that is still to be read from a connection, and the data in it.
Rest(s) == wire[s] \o answering[s]

DataOf(r)  == [what |-> "data", of |-> r]
Owed(s, r) == Occurs(wire[s], DataOf(r)) + Occurs(answering[s], DataOf(r))

\* The rest of a response framed so, and its reader.  Unless the connection broke
\* inside it, the data that was sent on and that is to come make up the body.
Remains(r, f) ==
  /\ InLoop(f, pc[r]) /\ inbox[conn[r]] = <<>>
  /\ Fits(f, pc[r], Rest(conn[r]))
  /\ f = "length" => Len(Rest(conn[r])) <= IF pc[r] = "head" THEN MaxData + 1 ELSE left[r]
  /\ pc[r] \in Consuming => keep[r] = KeepAlive(f)
  /\ conn[r] \notin broken =>
       IF f \in {"bodiless", "bare"} THEN Owed(conn[r], r) = 0 /\ Count(r, "chunk") = 0
                         ELSE Owed(conn[r], r) + Count(r, "chunk") = MaxData

Empty(s) == wire[s] = <<>> /\ answering[s] = <<>> /\ inbox[s] = <<>>

\* The reader of a connection no CRLF was cut on is where the service thinks it is.
InStep(r) ==
  /\ pc[r] = "write" => Empty(conn[r])
  /\ pc[r] = "head" =>
       \/ Empty(conn[r])
       \/ inbox[conn[r]] = <<r>> /\ wire[conn[r]] = <<>> /\ answering[conn[r]] = <<>>
       \/ \E f \in Framings : Remains(r, f)
  /\ pc[r] \in Consuming => \E f \in Framings : Remains(r, f)
  /\ pc[r] \in {"end", "release"} /\ keep[r] => Empty(conn[r])

AllOf(z, r) == \A i \in 1 .. Len(z) : z[i].of = r

\* All that is on a connection belongs to one request.
OnlyOf(s, r) ==
  /\ AllOf(wire[s], r) /\ AllOf(answering[s], r)
  /\ \A i \in 1 .. Len(inbox[s]) : inbox[s][i] = r

UserRight(r) ==
  pc[r] \in Holding =>
    /\ OnlyOf(conn[r], r) \/ (reused[r] /\ conn[r] \in cut)
    /\ conn[r] \notin cut => InStep(r)

\* What closes a connection is not read from it, and an idle connection is empty.
WireRight ==
  /\ \A r \in Reqs : UserRight(r)
  /\ \A i \in 1 .. Len(idle) : idle[i] \notin cut => Empty(idle[i])
  /\ \A s \in Sock : \A i \in 1 .. Len(wire[s]) : wire[s][i].what # "fin"

\* What WholeAnswer says of an answer, from before its End on.
Whole(r) ==
  Count(r, "chunk") = MaxData \/ (Count(r, "chunk") = 0 /\ ~keep[r] /\ svc[conn[r]] = "closed")

WholeRight ==
  \A r \in Reqs : pc[r] = "end" \/ Ended(r) =>
    conn[r] \in Sock /\ (conn[r] \notin cut \cup broken => Whole(r))

IInv ==
  /\ TypeOK /\ QueueRight /\ SocksRight /\ WireRight
  /\ \A r \in Reqs : FramesRight(r)
  /\ WholeRight /\ OwnAnswer /\ NobodySleepsOnWork

-----------------------------------------------------------------------------
(* Types.                                                                  *)

\* What stands behind the head of a response framed so.
ShapeOf(R, f) ==
  /\ f \in {"bodiless", "bare"} => Len(R) = 1
  /\ f = "length" => Len(R) = MaxData + 1 /\ \A i \in 1 .. MaxData : R[i + 1].what = "data"
  /\ f \in {"length_close", "until_close"} =>
       /\ Len(R) = MaxData + 2 /\ R[MaxData + 2].what = "fin"
       /\ \A i \in 1 .. MaxData : R[i + 1].what = "data"
  /\ f = "chunked" =>
       /\ Len(R) = 3 * MaxData + 2 /\ R[3 * MaxData + 2].what = "last"
       /\ \A k \in 1 .. MaxData : /\ R[3 * k - 1].what = "size" /\ R[3 * k].what = "data"
                                  /\ R[3 * k + 1].what = "crlf"

LEMMA Shape ==
  ASSUME NEW r \in Reqs, NEW f \in Framings, NEW R, R = Response(r, f)
  PROVE  /\ R \in Seq(PieceSet) /\ R # <<>> /\ R[1] = [what |-> f, of |-> r]
         /\ ShapeOf(R, f) /\ \A i \in 1 .. Len(R) : R[i].of = r
<1> DEFINE Names == Framings \cup {"size", "data", "crlf", "cr", "lf", "last", "fin"}
           whats == <<f>> \o Pieces(f)
<1> USE LocalPoolAssumption
<1>0. MaxData \in Nat \ {0} /\ f \in {"length", "length_close", "chunked", "until_close", "bodiless", "bare"}
  OBVIOUS
<1>1. \E P \in Seq(Names) : P = Repeat(<<"data">>) /\ Len(P) = MaxData /\ \A i \in 1 .. MaxData : P[i] = "data"
  <2>1. /\ Repeat(<<"data">>) = [i \in 1 .. MaxData |-> <<"data">>[((i - 1) % 1) + 1]]
        /\ \A i \in 1 .. MaxData : ((i - 1) % 1) + 1 = 1
    BY DEF Repeat
  <2>2. Repeat(<<"data">>) = [i \in 1 .. MaxData |-> "data"]
    BY <2>1
  <2> QED
    BY <2>2
<1>2. \E P \in Seq(Names) :
        /\ P = Repeat(<<"size", "data", "crlf">>) /\ Len(P) = 3 * MaxData
        /\ \A k \in 1 .. MaxData : P[3 * k - 2] = "size" /\ P[3 * k - 1] = "data" /\ P[3 * k] = "crlf"
  <2> DEFINE P == Repeat(<<"size", "data", "crlf">>)
  <2>1. /\ P = [i \in 1 .. 3 * MaxData |-> <<"size", "data", "crlf">>[((i - 1) % 3) + 1]]
        /\ \A i \in 1 .. 3 * MaxData : ((i - 1) % 3) + 1 \in 1 .. 3
    BY DEF Repeat
  <2>2. P \in Seq(Names) /\ Len(P) = 3 * MaxData
    BY <2>1
  <2>3. ASSUME NEW k \in 1 .. MaxData
        PROVE  P[3 * k - 2] = "size" /\ P[3 * k - 1] = "data" /\ P[3 * k] = "crlf"
    <3>1. /\ 3 * k - 2 \in 1 .. 3 * MaxData /\ ((3 * k - 2 - 1) % 3) + 1 = 1
          /\ 3 * k - 1 \in 1 .. 3 * MaxData /\ ((3 * k - 1 - 1) % 3) + 1 = 2
          /\ 3 * k \in 1 .. 3 * MaxData /\ ((3 * k - 1) % 3) + 1 = 3
      OBVIOUS
    <3> QED
      BY <2>1, <3>1
  <2> QED
    BY <2>2, <2>3
<1>3. PICK A \in Seq(Names) : A = Repeat(<<"data">>) /\ Len(A) = MaxData /\ \A i \in 1 .. MaxData : A[i] = "data"
  BY <1>1
<1>4. PICK C \in Seq(Names) :
        /\ C = Repeat(<<"size", "data", "crlf">>) /\ Len(C) = 3 * MaxData
        /\ \A k \in 1 .. MaxData : C[3 * k - 2] = "size" /\ C[3 * k - 1] = "data" /\ C[3 * k] = "crlf"
  BY <1>2
<1>5. /\ f \in {"bodiless", "bare"} => Pieces(f) = <<>>
      /\ f = "length" => Pieces(f) = A
      /\ f \in {"length_close", "until_close"} => Pieces(f) = Append(A, "fin")
      /\ f = "chunked" => Pieces(f) = Append(C, "last")
  BY <1>0, <1>3, <1>4 DEF Pieces
<1>6. Pieces(f) \in Seq(Names)
  <2>1. "fin" \in Names /\ "last" \in Names
    OBVIOUS
  <2> HIDE DEF Names
  <2>2. Append(A, "fin") \in Seq(Names) /\ Append(C, "last") \in Seq(Names)
    BY <1>3, <1>4, <2>1
  <2>3. <<>> \in Seq(Names)
    OBVIOUS
  <2> QED
    BY <1>0, <1>3, <1>5, <2>2, <2>3, Zenon
<1> HIDE DEF Names
<1>7. PICK P \in Seq(Names) : P = Pieces(f)
  BY <1>6
<1>8. f \in Names
  BY DEF Names
<1>9. /\ whats \in Seq(Names) /\ Len(whats) = Len(P) + 1 /\ whats[1] = f
      /\ \A i \in 1 .. Len(P) : whats[i + 1] = P[i]
  BY <1>7, <1>8
<1> HIDE DEF whats
<1>10. R = [i \in 1 .. Len(whats) |-> [what |-> whats[i], of |-> r]]
  BY DEF Response, whats
<1>11. \A i \in 1 .. Len(whats) : R[i] \in PieceSet /\ R[i].what = whats[i] /\ R[i].of = r
  BY <1>9, <1>10 DEF PieceSet, Names
<1>12. R \in Seq(PieceSet) /\ Len(R) = Len(P) + 1 /\ Len(P) \in Nat
  BY <1>9, <1>10, <1>11
<1>13. R # <<>> /\ R[1] = [what |-> f, of |-> r]
  BY <1>9, <1>10, <1>12
<1>14. \A i \in 1 .. Len(P) : R[i + 1].what = P[i]
  BY <1>9, <1>11, <1>12
<1>15. f \in {"bodiless", "bare"} => Len(R) = 1
  BY <1>5, <1>7, <1>12
<1>16. f = "length" => /\ Len(R) = MaxData + 1
                       /\ \A i \in 1 .. MaxData : R[i + 1].what = "data"
  <2> SUFFICES ASSUME f = "length"
               PROVE  Len(R) = MaxData + 1 /\ \A i \in 1 .. MaxData : R[i + 1].what = "data"
    OBVIOUS
  <2>1. P = A
    BY <1>5, <1>7
  <2>2. \A i \in 1 .. MaxData : R[i + 1].what = A[i]
    BY <1>3, <1>14, <2>1
  <2> QED
    BY <1>0, <1>3, <1>12, <2>1, <2>2
<1>17. f \in {"length_close", "until_close"} =>
              /\ Len(R) = MaxData + 2 /\ R[MaxData + 2].what = "fin"
              /\ \A i \in 1 .. MaxData : R[i + 1].what = "data"
  <2> SUFFICES ASSUME f \in {"length_close", "until_close"}
               PROVE  /\ Len(R) = MaxData + 2 /\ R[MaxData + 2].what = "fin"
                      /\ \A i \in 1 .. MaxData : R[i + 1].what = "data"
    OBVIOUS
  <2>1. P = Append(A, "fin") /\ Len(P) = MaxData + 1 /\ P[MaxData + 1] = "fin"
        /\ \A i \in 1 .. MaxData : P[i] = A[i]
    BY <1>0, <1>3, <1>5, <1>7, SMTT(30)
  <2>2. MaxData + 1 \in 1 .. Len(P) /\ \A i \in 1 .. MaxData : i \in 1 .. Len(P)
    BY <1>0, <2>1
  <2>3. (MaxData + 1) + 1 = MaxData + 2
    BY <1>0
  <2>4. R[MaxData + 2].what = "fin"
    BY <1>14, <2>1, <2>2, <2>3
  <2>5. \A i \in 1 .. MaxData : R[i + 1].what = "data"
    <3> SUFFICES ASSUME NEW i \in 1 .. MaxData PROVE R[i + 1].what = "data"
      OBVIOUS
    <3>1. R[i + 1].what = P[i] /\ P[i] = A[i] /\ A[i] = "data"
      BY <1>3, <1>14, <2>1, <2>2
    <3> QED
      BY <3>1
  <2> QED
    BY <1>0, <1>12, <2>1, <2>4, <2>5
<1>18. f = "chunked" =>
              /\ Len(R) = 3 * MaxData + 2 /\ R[3 * MaxData + 2].what = "last"
              /\ \A k \in 1 .. MaxData : /\ R[3 * k - 1].what = "size" /\ R[3 * k].what = "data"
                                         /\ R[3 * k + 1].what = "crlf"
  <2> SUFFICES ASSUME f = "chunked"
               PROVE  /\ Len(R) = 3 * MaxData + 2 /\ R[3 * MaxData + 2].what = "last"
                      /\ \A k \in 1 .. MaxData : /\ R[3 * k - 1].what = "size" /\ R[3 * k].what = "data"
                                                 /\ R[3 * k + 1].what = "crlf"
    OBVIOUS
  <2>1. P = Append(C, "last")
    BY <1>5, <1>7
  <2>2. /\ Len(P) = 3 * MaxData + 1 /\ P[3 * MaxData + 1] = "last"
        /\ \A i \in 1 .. 3 * MaxData : P[i] = C[i]
    <3>1. "last" \in Names
      BY DEF Names
    <3>2. PICK e \in Names : e = "last"
      BY <3>1
    <3>3. P = Append(C, e)
      BY <2>1, <3>2
    <3>4. /\ Len(P) = Len(C) + 1 /\ P[Len(C) + 1] = e
          /\ \A i \in 1 .. Len(C) : P[i] = C[i]
      BY <1>4, <3>2, <3>3, Appended
    <3> QED
      BY <1>4, <3>2, <3>4
  <2>3. Len(R) = 3 * MaxData + 2 /\ R[3 * MaxData + 2].what = "last"
    BY <1>0, <1>12, <1>14, <2>2
  <2>4. ASSUME NEW k \in 1 .. MaxData
        PROVE  R[3 * k - 1].what = "size" /\ R[3 * k].what = "data" /\ R[3 * k + 1].what = "crlf"
    <3>1. /\ 3 * k - 2 \in 1 .. Len(P) /\ 3 * k - 1 \in 1 .. Len(P) /\ 3 * k \in 1 .. Len(P)
          /\ 3 * k - 2 \in 1 .. 3 * MaxData /\ 3 * k - 1 \in 1 .. 3 * MaxData /\ 3 * k \in 1 .. 3 * MaxData
          /\ (3 * k - 2) + 1 = 3 * k - 1 /\ (3 * k - 1) + 1 = 3 * k
      BY <1>0, <2>2
    <3>2. /\ R[(3 * k - 2) + 1].what = C[3 * k - 2] /\ R[(3 * k - 1) + 1].what = C[3 * k - 1]
          /\ R[3 * k + 1].what = C[3 * k]
      BY <1>14, <2>2, <3>1
    <3>3. C[3 * k - 2] = "size" /\ C[3 * k - 1] = "data" /\ C[3 * k] = "crlf"
      BY <1>4
    <3> QED
      BY <3>1, <3>2, <3>3
  <2> QED
    BY <2>3, <2>4
<1>19. ShapeOf(R, f)
  BY <1>15, <1>16, <1>17, <1>18 DEF ShapeOf
<1>20. \A i \in 1 .. Len(R) : R[i].of = r
  BY <1>9, <1>11, <1>12
<1> QED
  BY <1>12, <1>13, <1>19, <1>20

Kinds == {"head", "chunk", "end", "abort"}
Spots == Holding \cup Early \cup {"done"}

\* What Send adds.
LEMMA Sent ==
  ASSUME TypeOK, NEW r \in Reqs, NEW k \in Kinds, NEW o \in Reqs, Send(r, k, o)
  PROVE  /\ frames' \in [Reqs -> Seq(FrameSet)]
         /\ \A u \in Reqs : u # r => frames'[u] = frames[u]
         /\ frames'[r] = Append(frames[r], [kind |-> k, of |-> o])
<1>1. [kind |-> k, of |-> o] \in FrameSet
  BY DEF FrameSet, Kinds
<1>2. frames \in [Reqs -> Seq(FrameSet)]
  BY DEF TypeOK
<1>3. PICK e \in FrameSet : e = [kind |-> k, of |-> o]
  BY <1>1
<1>4. frames' = [frames EXCEPT ![r] = Append(@, e)]
  BY <1>3 DEF Send
<1>5. Append(frames[r], e) \in Seq(FrameSet)
  BY <1>2, <1>3
<1> QED
  BY <1>2, <1>3, <1>4, <1>5

LEMMA Went ==
  ASSUME TypeOK, NEW r \in Reqs, NEW l \in Spots, Goto(r, l)
  PROVE  /\ pc' \in [Reqs -> Spots] /\ pc'[r] = l
         /\ \A u \in Reqs : u # r => pc'[u] = pc[u]
BY DEF TypeOK, Goto, Spots

\* The piece that is read next.
LEMMA NextPiece ==
  ASSUME TypeOK, SocksRight, NEW r \in Reqs, pc[r] \in Holding, wire[conn[r]] # <<>>
  PROVE  /\ conn[r] \in Sock /\ wire[conn[r]] \in Seq(PieceSet)
         /\ Piece(r) \in PieceSet /\ Piece(r) = wire[conn[r]][1] /\ Piece(r).of \in Reqs
         /\ Tail(wire[conn[r]]) \in Seq(PieceSet)
<1>1. conn[r] \in Sock /\ wire[conn[r]] \in Seq(PieceSet)
  BY DEF TypeOK, SocksRight
<1>2. /\ Piece(r) \in PieceSet /\ Piece(r) = wire[conn[r]][1]
      /\ Tail(wire[conn[r]]) \in Seq(PieceSet)
  BY <1>1, TailOf DEF Piece
<1>3. Piece(r).of \in Reqs
  BY <1>2 DEF PieceSet
<1> QED
  BY <1>1, <1>2, <1>3

LEMMA Taken ==
  ASSUME TypeOK, SocksRight, NEW r \in Reqs, pc[r] \in Holding, wire[conn[r]] # <<>>, Take(r)
  PROVE  /\ wire' \in [Sock -> Seq(PieceSet)] /\ wire'[conn[r]] = Tail(wire[conn[r]])
         /\ \A s \in Sock : s # conn[r] => wire'[s] = wire[s]
<1>1. wire \in [Sock -> Seq(PieceSet)]
  BY DEF TypeOK
<1> QED
  BY <1>1, NextPiece DEF Take

LEMMA TypeStep ==
  ASSUME TypeOK, SocksRight, \A r \in Reqs : FramesRight(r), Next PROVE TypeOK'
<1> USE LocalPoolAssumption
<1>t. /\ pc \in [Reqs -> Spots] /\ frames \in [Reqs -> Seq(FrameSet)]
      /\ wire \in [Sock -> Seq(PieceSet)] /\ answering \in [Sock -> Seq(PieceSet)]
  BY DEF TypeOK, Spots
<1>1. CASE Stop
  BY <1>1 DEF TypeOK, Stop, poolVars, jobVars, workerVars, svcVars, history
<1>2. ASSUME NEW w \in Workers, Fetch(w) PROVE TypeOK'
  <2>1. CASE q # <<>>
    <3>1. Head(q) \in Reqs /\ Tail(q) \in Seq(Reqs)
      BY <2>1, TailOf DEF TypeOK
    <3>2. pc' \in [Reqs -> Spots]
      BY <1>2, <2>1, <3>1, Went DEF Fetch, Spots, Early
    <3>3. worker' \in [Workers -> Reqs \cup {"check", "wait", "exited"}]
      BY <1>2, <2>1, <3>1, ZenonT(60) DEF TypeOK, Fetch
    <3> QED
      BY <1>2, <2>1, <3>1, <3>2, <3>3 DEF TypeOK, Fetch, poolVars, jobVars, workerVars, svcVars, history, Spots
  <2>2. CASE q = <<>>
    BY <1>2, <2>2, ZenonT(60) DEF TypeOK, Fetch, poolVars, jobVars, workerVars, svcVars, history
  <2> QED
    BY <2>1, <2>2
<1>3. ASSUME NEW r \in Reqs, Submit(r) PROVE TypeOK'
  <2>1. Append(q, r) \in Seq(Reqs)
    BY DEF TypeOK
  <2>2. pc' \in [Reqs -> Spots]
    BY <1>3, Went DEF Submit, Spots, Early
  <2>3. worker' \in [Workers -> Reqs \cup {"check", "wait", "exited"}]
    BY <1>3 DEF TypeOK, Submit
  <2> QED
    BY <1>3, <2>1, <2>2, <2>3 DEF TypeOK, Submit, svcVars, history, Spots
<1>4. ASSUME NEW r \in Reqs, Worker(r) PROVE TypeOK'
  <2>1. CASE Acquire(r)
    <3>1. /\ idle[Len(idle)] \in Sock /\ SubSeq(idle, 1, Len(idle) - 1) \in Seq(Sock)
      BY <2>1 DEF Acquire, TypeOK
    <3> QED
      BY <2>1, <3>1 DEF TypeOK, Acquire, Goto, jobVars, svcVars, history, Holding
  <2>2. CASE AcquireNone(r)
    BY <2>2 DEF TypeOK, AcquireNone, Goto, jobVars, svcVars, history, Early
  <2>3. CASE Connect(r)
    BY <2>3 DEF TypeOK, Connect, Goto, poolVars, jobVars, history, Holding
  <2>4. CASE ConnectFails(r)
    <3>1. frames' \in [Reqs -> Seq(FrameSet)]
      BY <2>4, Sent DEF ConnectFails, Kinds
    <3> QED
      BY <2>4, <3>1 DEF TypeOK, ConnectFails, Goto, poolVars, jobVars, svcVars, history
  <2>5. CASE Write(r)
    <3>1. conn[r] \in Sock
      BY <2>5 DEF SocksRight, Write, Holding
    <3>2. inbox' \in [Sock -> Seq(Reqs)]
      BY <2>5, <3>1 DEF TypeOK, Write
    <3> QED
      BY <2>5, <3>2 DEF TypeOK, Write, Goto, poolVars, jobVars, history, Holding
  <2>6. CASE Fail(r)
    <3>1. frames' \in [Reqs -> Seq(FrameSet)]
      BY <1>t, <2>6, Sent DEF Fail, Kinds
    <3>2. pc' \in [Reqs -> Spots]
      BY <2>6, Went DEF Fail, Spots, Early
    <3> QED
      BY <2>6, <3>1, <3>2 DEF TypeOK, Fail, poolVars, jobVars, svcVars, history, Spots
  <2>7. CASE ReadHead(r)
    <3>1. pc[r] \in Holding /\ wire[conn[r]] # <<>>
      BY <2>7 DEF ReadHead, Readable, Holding
    <3>2. wire' \in [Sock -> Seq(PieceSet)] /\ Piece(r).of \in Reqs
      BY <2>7, <3>1, Taken, NextPiece DEF ReadHead
    <3>3. frames' \in [Reqs -> Seq(FrameSet)]
      BY <2>7, <3>2, Sent DEF ReadHead, Kinds
    <3>4. Body(Piece(r).what) \in Spots
      BY DEF Body, Spots, Holding
    <3>5. pc' \in [Reqs -> Spots]
      BY <2>7, <3>4, Went DEF ReadHead
    <3>6. KeepAlive(Piece(r).what) \in BOOLEAN /\ MaxData \in 0 .. MaxData
      BY DEF KeepAlive
    <3>7. keep' \in [Reqs -> BOOLEAN] /\ left' \in [Reqs -> 0 .. MaxData]
      BY <2>7, <3>6 DEF TypeOK, ReadHead
    <3> QED
      BY <2>7, <3>2, <3>3, <3>5, <3>7 DEF TypeOK, ReadHead, poolVars, jobVars, svcVars, history, Spots
  <2>8. CASE ReadJunkHead(r)
    <3>1. pc[r] \in Holding /\ wire[conn[r]] # <<>>
      BY <2>8 DEF ReadJunkHead, Readable, Holding
    <3>2. wire' \in [Sock -> Seq(PieceSet)] /\ Piece(r).of \in Reqs
      BY <2>8, <3>1, Taken, NextPiece DEF ReadJunkHead
    <3>3. frames' \in [Reqs -> Seq(FrameSet)]
      BY <1>t, <2>8, <3>2, Sent DEF ReadJunkHead, Kinds
    <3>4. pc' \in [Reqs -> Spots]
      BY <1>t, <2>8, Went DEF ReadJunkHead, Spots, Holding
    <3> QED
      BY <2>8, <3>2, <3>3, <3>4 DEF TypeOK, ReadJunkHead, poolVars, jobVars, svcVars, history, Spots
  <2>9. CASE ReadSize(r)
    <3>1. pc[r] \in Holding
      BY <2>9 DEF ReadSize, Holding
    <3>2. wire' \in [Sock -> Seq(PieceSet)]
      BY <1>t, <2>9, <3>1, Taken DEF ReadSize, Readable
    <3>3. pc' \in [Reqs -> Spots]
      BY <2>9, Went DEF ReadSize, Spots, Holding
    <3> QED
      BY <2>9, <3>2, <3>3 DEF TypeOK, ReadSize, poolVars, jobVars, svcVars, history, Spots
  <2>10. CASE ReadChunk(r)
    <3>1. pc[r] \in Holding
      BY <2>10 DEF ReadChunk, Holding
    <3>2. wire' \in [Sock -> Seq(PieceSet)]
      BY <1>t, <2>10, <3>1, Taken DEF ReadChunk, Readable
    <3>3. frames' \in [Reqs -> Seq(FrameSet)]
      BY <1>t, <2>10, <3>1, NextPiece, Sent DEF ReadChunk, Readable, Kinds
    <3>4. pc' \in [Reqs -> Spots]
      BY <2>10, Went DEF ReadChunk, Spots, Holding
    <3> QED
      BY <2>10, <3>2, <3>3, <3>4 DEF TypeOK, ReadChunk, poolVars, jobVars, svcVars, history, Spots
  <2>11. CASE ReadCrlf(r)
    <3>1. pc[r] \in Holding
      BY <2>11 DEF ReadCrlf, Holding
    <3>2. pc' \in [Reqs -> Spots]
      BY <2>11, Went DEF ReadCrlf, Spots, Holding
    <3>3. wire' \in [Sock -> Seq(PieceSet)] /\ cut' \subseteq Sock
      <4>1. CASE Readable(r, {"crlf"}) /\ Take(r) /\ UNCHANGED cut
        BY <3>1, <4>1, Taken DEF Readable, TypeOK
      <4>2. CASE Readable(r, {"cr"}) /\ Len(wire[conn[r]]) > 1 /\ wire' = [wire EXCEPT ![conn[r]] = Tail(Tail(@))] /\ UNCHANGED cut
        <5>1. conn[r] \in Sock /\ wire[conn[r]] \in Seq(PieceSet)
          BY <3>1 DEF TypeOK, SocksRight
        <5>2. PICK z \in Seq(PieceSet) : z = Tail(wire[conn[r]]) /\ z # <<>>
          <6>1. PICK w \in Seq(PieceSet) : w = wire[conn[r]]
            BY <5>1
          <6>2. Tail(w) \in Seq(PieceSet) /\ Len(Tail(w)) = Len(w) - 1 /\ Len(w) > 1
            BY <4>2, <6>1, TailOf
          <6>3. PICK z \in Seq(PieceSet) : z = Tail(w)
            BY <6>2
          <6>4. Len(z) > 0
            BY <6>2, <6>3
          <6>5. z # <<>>
            BY <6>4
          <6> QED
            BY <6>1, <6>3, <6>5
        <5>3. Tail(z) \in Seq(PieceSet)
          BY <5>2, TailOf
        <5> QED
          BY <1>t, <4>2, <5>1, <5>2, <5>3 DEF TypeOK
      <4>3. CASE Readable(r, {"cr"}) /\ Take(r) /\ cut' = cut \cup {conn[r]}
        <5>1. conn[r] \in Sock /\ cut \subseteq Sock
          BY <3>1 DEF TypeOK, SocksRight
        <5>2. wire' \in [Sock -> Seq(PieceSet)]
          BY <3>1, <4>3, Taken DEF Readable
        <5> QED
          BY <4>3, <5>1, <5>2
      <4>4. CASE UNCHANGED <<wire, cut>>
        BY <1>t, <4>4 DEF TypeOK
      <4> QED
        BY <2>11, <4>1, <4>2, <4>3, <4>4 DEF ReadCrlf
    <3> QED
      BY <2>11, <3>2, <3>3 DEF TypeOK, ReadCrlf, poolVars, jobVars, svcVars, Spots
  <2>12. CASE ReadLength(r)
    <3>1. pc[r] \in Holding
      BY <2>12 DEF ReadLength, Holding
    <3>2. wire' \in [Sock -> Seq(PieceSet)]
      BY <1>t, <2>12, <3>1, Taken DEF ReadLength, Readable
    <3>3. frames' \in [Reqs -> Seq(FrameSet)]
      BY <1>t, <2>12, <3>1, NextPiece, Sent DEF ReadLength, Readable, Kinds
    <3>4. pc' \in [Reqs -> Spots]
      BY <2>12, Went DEF ReadLength, Spots, Holding
    <3>5. left[r] \in 1 .. MaxData
      BY <2>12 DEF ReadLength, FramesRight, TypeOK
    <3>6. left' \in [Reqs -> 0 .. MaxData] /\ keep' \in [Reqs -> BOOLEAN]
      <4>1. left \in [Reqs -> 0 .. MaxData] /\ keep \in [Reqs -> BOOLEAN] /\ left[r] - 1 \in 0 .. MaxData
        BY <3>5 DEF TypeOK
      <4>2. left' = left \/ left' = [left EXCEPT ![r] = @ - 1]
        BY <2>12 DEF ReadLength
      <4>3. keep' = keep \/ keep' = [keep EXCEPT ![r] = FALSE]
        BY <2>12 DEF ReadLength
      <4> QED
        BY <4>1, <4>2, <4>3
    <3> QED
      BY <2>12, <3>2, <3>3, <3>4, <3>6 DEF TypeOK, ReadLength, poolVars, jobVars, svcVars, history, Spots
  <2>13. CASE ReadStream(r)
    <3>1. pc[r] \in Holding
      BY <2>13 DEF ReadStream, Holding
    <3>2. wire' \in [Sock -> Seq(PieceSet)]
      BY <1>t, <2>13, <3>1, Taken DEF ReadStream
    <3>3. frames' \in [Reqs -> Seq(FrameSet)]
      BY <1>t, <2>13, <3>1, NextPiece, Sent DEF ReadStream, Kinds
    <3>4. pc' \in [Reqs -> Spots]
      BY <1>t, <2>13, Went DEF ReadStream, Spots, Holding
    <3>5. keep' \in [Reqs -> BOOLEAN]
      BY <2>13 DEF TypeOK, ReadStream
    <3> QED
      BY <2>13, <3>2, <3>3, <3>4, <3>5 DEF TypeOK, ReadStream, poolVars, jobVars, svcVars, history, Spots
  <2>14. CASE End(r)
    <3>1. frames' \in [Reqs -> Seq(FrameSet)]
      BY <2>14, Sent DEF End, Kinds
    <3> QED
      BY <2>14, <3>1 DEF TypeOK, End, Goto, poolVars, jobVars, svcVars, history, Holding
  <2>15. CASE Release(r)
    <3>1. idle' \in Seq(Sock)
      BY <2>15 DEF Release, TypeOK, SocksRight, Holding
    <3> QED
      BY <2>15, <3>1 DEF TypeOK, Release, Goto, jobVars, svcVars, history
  <2> QED
    BY <1>4, <2>1, <2>2, <2>3, <2>4, <2>5, <2>6, <2>7, <2>8, <2>9, <2>10, <2>11, <2>12, <2>13,
       <2>14, <2>15 DEF Worker
<1>5. ASSUME NEW s \in Sock, SvcTake(s) PROVE TypeOK'
  <2>1. Head(inbox[s]) \in Reqs /\ Tail(inbox[s]) \in Seq(Reqs)
    BY <1>5, TailOf DEF TypeOK, SvcTake
  <2>2. PICK f \in Framings : answering' = [answering EXCEPT ![s] = Response(Head(inbox[s]), f)]
    BY <1>5 DEF SvcTake
  <2>3. Response(Head(inbox[s]), f) \in Seq(PieceSet)
    BY <2>1, <2>2, Shape
  <2>4. answering' \in [Sock -> Seq(PieceSet)] /\ inbox' \in [Sock -> Seq(Reqs)]
    BY <1>t, <1>5, <2>1, <2>2, <2>3 DEF TypeOK, SvcTake
  <2> QED
    BY <1>5, <2>4 DEF TypeOK, SvcTake, poolVars, jobVars, workerVars, history
<1>6. ASSUME NEW s \in Sock, Shut(s)
      PROVE  /\ svc' \in [Sock -> {"none", "open", "closed"}] /\ inbox' \in [Sock -> Seq(Reqs)]
             /\ answering' \in [Sock -> Seq(PieceSet)]
  <2>1. <<>> \in Seq(Reqs) /\ <<>> \in Seq(PieceSet)
    OBVIOUS
  <2> QED
    BY <1>t, <1>6, <2>1 DEF TypeOK, Shut
<1>7. ASSUME NEW s \in Sock, SvcWrite(s) PROVE TypeOK'
  <2>1. /\ Head(answering[s]) \in PieceSet /\ Tail(answering[s]) \in Seq(PieceSet)
    BY <1>t, <1>7, TailOf DEF SvcWrite
  <2> DEFINE p == Head(answering[s])
             Half(w) == [what |-> w, of |-> p.of]
  <2>2. Half("cr") \in PieceSet /\ Half("lf") \in PieceSet
    BY <2>1 DEF PieceSet
  <2>3. CASE p.what = "fin" /\ Shut(s) /\ UNCHANGED wire
    BY <1>6, <1>7, <2>3 DEF SvcWrite, TypeOK, poolVars, jobVars, workerVars, history
  <2>4. CASE /\ wire' = [wire EXCEPT ![s] = Append(@, p)]
             /\ answering' = [answering EXCEPT ![s] = Tail(@)]
             /\ UNCHANGED <<svc, inbox>>
    <3>1. wire' \in [Sock -> Seq(PieceSet)] /\ answering' \in [Sock -> Seq(PieceSet)]
      BY <1>t, <2>1, <2>4
    <3> QED
      BY <1>7, <2>4, <3>1 DEF SvcWrite, TypeOK, poolVars, jobVars, workerVars, history
  <2>5. CASE /\ wire' = [wire EXCEPT ![s] = Append(@, Half("cr"))]
             /\ answering' = [answering EXCEPT ![s] = <<Half("lf")>> \o Tail(@)]
             /\ UNCHANGED <<svc, inbox>>
    <3>1. PICK c \in PieceSet : c = Half("cr")
      BY <2>2
    <3>2. PICK l \in PieceSet : l = Half("lf")
      BY <2>2
    <3>3. Append(wire[s], c) \in Seq(PieceSet) /\ <<l>> \o Tail(answering[s]) \in Seq(PieceSet)
      BY <1>t, <2>1
    <3>4. wire' \in [Sock -> Seq(PieceSet)] /\ answering' \in [Sock -> Seq(PieceSet)]
      BY <1>t, <2>5, <3>1, <3>2, <3>3
    <3> QED
      BY <1>7, <2>5, <3>4 DEF SvcWrite, TypeOK, poolVars, jobVars, workerVars, history
  <2> QED
    BY <1>7, <2>3, <2>4, <2>5 DEF SvcWrite
<1>8. ASSUME NEW s \in Sock, SvcClose(s) PROVE TypeOK'
  BY <1>6, <1>8 DEF SvcClose, TypeOK, poolVars, jobVars, workerVars
<1> QED
  BY <1>1, <1>2, <1>3, <1>4, <1>5, <1>7, <1>8 DEF Next

-----------------------------------------------------------------------------
(* The workers.                                                            *)

\* A worker's step moves its own request only.
LEMMA WorkerAlone ==
  ASSUME TypeOK, NEW r \in Reqs, Worker(r)
  PROVE  /\ UNCHANGED <<q, worker, stop_>> /\ pc'[r] \notin {"none", "queued"}
         /\ pc[r] \notin {"none", "queued", "done"}
         /\ \A u \in Reqs : u # r =>
              /\ pc'[u] = pc[u] /\ frames'[u] = frames[u] /\ left'[u] = left[u]
              /\ reused'[u] = reused[u] /\ conn'[u] = conn[u] /\ keep'[u] = keep[u]
<1>t. /\ pc \in [Reqs -> Spots] /\ frames \in [Reqs -> Seq(FrameSet)]
      /\ left \in [Reqs -> 0 .. MaxData] /\ reused \in [Reqs -> BOOLEAN]
      /\ conn \in [Reqs -> Sock \cup {NoSock}] /\ keep \in [Reqs -> BOOLEAN]
  BY DEF TypeOK, Spots
<1>1. UNCHANGED <<q, worker, stop_>>
  BY DEF Worker, Acquire, AcquireNone, Connect, ConnectFails, Write, Fail, ReadHead, ReadJunkHead,
         ReadSize, ReadChunk, ReadCrlf, ReadLength, ReadStream, End, Release, poolVars, jobVars
<1>2. pc[r] \notin {"none", "queued", "done"}
  BY DEF Worker, Acquire, AcquireNone, Connect, ConnectFails, Write, Fail, ReadHead, ReadJunkHead,
         ReadSize, ReadChunk, ReadCrlf, ReadLength, ReadStream, End, Release
<1>3. \E l \in Spots : l \notin {"none", "queued"} /\ (Goto(r, l) \/ (pc' = pc /\ l = pc[r]))
  <2>1. CASE ReadHead(r)
    <3>1. Body(Piece(r).what) \in {"size", "stream", "length"}
      BY DEF Body
    <3> QED
      BY <2>1, <3>1 DEF ReadHead, Spots, Holding
  <2>2. CASE Acquire(r) \/ AcquireNone(r) \/ Connect(r) \/ ConnectFails(r) \/ Write(r) \/ Fail(r)
    BY <2>2 DEF Acquire, AcquireNone, Connect, ConnectFails, Write, Fail, Spots, Holding, Early
  <2>3. CASE ReadJunkHead(r)
    BY <1>t, <1>2, <2>3 DEF ReadJunkHead, Spots, Holding
  <2>4. CASE ReadSize(r) \/ ReadChunk(r) \/ ReadCrlf(r) \/ ReadLength(r)
    BY <2>4 DEF ReadSize, ReadChunk, ReadCrlf, ReadLength, Spots, Holding
  <2>5. CASE ReadStream(r)
    BY <1>t, <1>2, <2>5 DEF ReadStream, Spots, Holding
  <2>6. CASE End(r) \/ Release(r)
    BY <2>6 DEF End, Release, Spots, Holding
  <2> QED
    BY <2>1, <2>2, <2>3, <2>4, <2>5, <2>6 DEF Worker
<1>4. pc'[r] \notin {"none", "queued"} /\ \A u \in Reqs : u # r => pc'[u] = pc[u]
  BY <1>t, <1>3 DEF Goto
<1>5. frames' = frames \/ \E k \in Kinds : \E o : Send(r, k, o)
  BY DEF Worker, Acquire, AcquireNone, Connect, ConnectFails, Write, Fail, ReadHead, ReadJunkHead,
         ReadSize, ReadChunk, ReadCrlf, ReadLength, ReadStream, End, Release, Kinds
<1>6. \A u \in Reqs : u # r => frames'[u] = frames[u]
  BY <1>t, <1>5 DEF Send
<1>7. \A u \in Reqs : u # r => left'[u] = left[u] /\ keep'[u] = keep[u]
  BY <1>t DEF Worker, Acquire, AcquireNone, Connect, ConnectFails, Write, Fail, ReadHead, ReadJunkHead,
         ReadSize, ReadChunk, ReadCrlf, ReadLength, ReadStream, End, Release
<1>8. \A u \in Reqs : u # r => reused'[u] = reused[u] /\ conn'[u] = conn[u]
  BY <1>t DEF Worker, Acquire, AcquireNone, Connect, ConnectFails, Write, Fail, ReadHead, ReadJunkHead,
         ReadSize, ReadChunk, ReadCrlf, ReadLength, ReadStream, End, Release
<1> QED
  BY <1>1, <1>2, <1>4, <1>6, <1>7, <1>8

\* The service and stop touch no request.
LEMMA ServiceAlone ==
  ASSUME NEW s \in Sock, SvcTake(s) \/ SvcWrite(s) \/ SvcClose(s)
  PROVE  UNCHANGED <<q, worker, stop_, idle, pc, attempt, reused, conn, keep, left, frames, cut>>
BY DEF SvcTake, SvcWrite, SvcClose, poolVars, jobVars, workerVars, history

LEMMA QueueStep == ASSUME TypeOK, QueueRight, Next PROVE QueueRight'
<1> USE DEF QueueRight
<1>t. pc \in [Reqs -> Spots] /\ q \in Seq(Reqs)
  BY DEF TypeOK, Spots
<1>1. CASE Stop
  BY <1>1 DEF Stop, workerVars
<1>2. ASSUME NEW w \in Workers, Fetch(w) PROVE QueueRight'
  <2>1. CASE q # <<>>
    <3>1. /\ Head(q) = q[1] /\ q' = Tail(q) /\ Len(Tail(q)) = Len(q) - 1 /\ Len(q) \in Nat \ {0}
          /\ \A i \in 1 .. Len(q) - 1 : Tail(q)[i] = q[i + 1]
      BY <1>2, <2>1, <1>t, TailOf DEF Fetch
    <3>2. \A i \in 1 .. Len(q') : i + 1 \in 1 .. Len(q) /\ q'[i] = q[i + 1] /\ q[i + 1] # q[1]
      BY <3>1
    <3>3. \A u \in Reqs : u # q[1] => pc'[u] = pc[u]
      BY <1>2, <2>1, <1>t, <3>1 DEF Fetch, Goto
    <3>4. \A i \in 1 .. Len(q') : pc'[q'[i]] = "queued"
      BY <1>t, <3>2, <3>3, ElementOf
    <3>5. \A i, j \in 1 .. Len(q') : q'[i] = q'[j] => i = j
      BY <3>1, <3>2
    <3> QED
      BY <3>4, <3>5
  <2>2. CASE q = <<>>
    BY <1>2, <2>2 DEF Fetch
  <2> QED
    BY <2>1, <2>2
<1>3. ASSUME NEW r \in Reqs, Submit(r) PROVE QueueRight'
  <2>1. /\ q' = Append(q, r) /\ Len(q') = Len(q) + 1 /\ q'[Len(q) + 1] = r /\ Len(q) \in Nat
        /\ \A i \in 1 .. Len(q) : q'[i] = q[i] /\ q[i] \in Reqs /\ q[i] # r
    BY <1>3, <1>t, Appended, ElementOf DEF Submit
  <2>2. pc'[r] = "queued" /\ \A u \in Reqs : u # r => pc'[u] = pc[u]
    BY <1>3, <1>t DEF Submit, Goto
  <2>3. \A i \in 1 .. Len(q') : i \in 1 .. Len(q) \/ i = Len(q) + 1
    BY <2>1
  <2> QED
    BY <2>1, <2>2, <2>3
<1>4. ASSUME NEW r \in Reqs, Worker(r) PROVE QueueRight'
  <2>1. \A i \in 1 .. Len(q) : q[i] \in Reqs /\ q[i] # r
    BY <1>4, <1>t, WorkerAlone, ElementOf
  <2> QED
    BY <1>4, <2>1, WorkerAlone
<1>5. ASSUME NEW s \in Sock, SvcTake(s) \/ SvcWrite(s) \/ SvcClose(s) PROVE QueueRight'
  BY <1>5, ServiceAlone
<1> QED
  BY <1>1, <1>2, <1>3, <1>4, <1>5 DEF Next

Checking == {w \in Workers : worker[w] = "check"}

LEMMA SleepStep == ASSUME TypeOK, NobodySleepsOnWork, Next PROVE NobodySleepsOnWork'
<1> USE LocalPoolAssumption
<1>t. worker \in [Workers -> Reqs \cup {"check", "wait", "exited"}] /\ q \in Seq(Reqs)
  BY DEF TypeOK
<1>f. IsFiniteSet(Checking) /\ Cardinality(Checking) \in Nat
  BY FS_Subset, FS_CardinalityType DEF Checking
<1>i. Waiting # {} => ~stop_ /\ Len(q) <= Cardinality(Checking)
  BY DEF NobodySleepsOnWork, Checking
<1>p. SUFFICES Waiting' # {} => ~stop_' /\ Len(q') <= Cardinality(Checking')
  BY DEF NobodySleepsOnWork, Checking
<1>1. CASE Stop
  BY <1>1, <1>t DEF Stop, Waiting
<1>2. ASSUME NEW w \in Workers, Fetch(w)
      PROVE  Waiting' # {} => ~stop_' /\ Len(q') <= Cardinality(Checking')
  <2>1. CASE q # <<>>
    <3>1. Head(q) \in Reqs /\ q' = Tail(q) /\ Len(Tail(q)) = Len(q) - 1 /\ Len(q) \in Nat
      BY <1>2, <1>t, <2>1, TailOf DEF Fetch
    <3>2. worker' = [worker EXCEPT ![w] = Head(q)] /\ stop_' = stop_
      BY <1>2, <2>1 DEF Fetch
    <3>3. Waiting' \subseteq Waiting /\ Checking' = Checking \ {w}
      BY <1>t, <3>1, <3>2 DEF Waiting, Checking
    <3>4. Cardinality(Checking') >= Cardinality(Checking) - 1
      <4>1. Cardinality(Checking \ {w}) = IF w \in Checking THEN Cardinality(Checking) - 1 ELSE Cardinality(Checking)
        BY <1>f, FS_RemoveElement
      <4> QED
        BY <1>f, <3>3, <4>1
    <3>5. Cardinality(Checking') \in Nat
      BY <1>f, <3>3, FS_RemoveElement, FS_CardinalityType
    <3> QED
      BY <1>f, <1>i, <3>1, <3>2, <3>3, <3>4, <3>5
  <2>2. CASE q = <<>>
    <3>1. q' = q /\ stop_' = stop_ /\ Len(q) = 0
      BY <1>2, <2>2 DEF Fetch
    <3>2. Cardinality(Checking') >= 0
      BY FS_Subset, FS_CardinalityType DEF Checking
    <3>3. stop_ => Waiting' = {}
      BY <1>2, <1>i, <1>t, <2>2 DEF Fetch, Waiting
    <3> QED
      BY <3>1, <3>2, <3>3
  <2> QED
    BY <2>1, <2>2
<1>3. ASSUME NEW r \in Reqs, Submit(r)
      PROVE  Waiting' # {} => ~stop_' /\ Len(q') <= Cardinality(Checking')
  <2>1. Len(q') = Len(q) + 1 /\ Len(q) \in Nat /\ ~stop_'
    BY <1>3, <1>t, Appended DEF Submit
  <2>2. CASE Waiting = {}
    BY <1>3, <2>2 DEF Submit, Waiting
  <2>3. CASE Waiting # {}
    <3>1. PICK w \in Waiting : worker' = [worker EXCEPT ![w] = "check"]
      BY <1>3, <2>3 DEF Submit
    <3>2. Checking' = Checking \cup {w} /\ w \notin Checking
      BY <1>t, <3>1 DEF Waiting, Checking
    <3>3. Cardinality(Checking') = Cardinality(Checking) + 1
      BY <1>f, <3>2, FS_AddElement
    <3> QED
      BY <1>f, <1>i, <2>1, <2>3, <3>3
  <2> QED
    BY <2>2, <2>3
<1>4. ASSUME UNCHANGED <<q, worker, stop_>>
      PROVE  Waiting' # {} => ~stop_' /\ Len(q') <= Cardinality(Checking')
  BY <1>4, <1>i DEF Waiting, Checking
<1>5. ASSUME NEW r \in Reqs, Worker(r) PROVE UNCHANGED <<q, worker, stop_>>
  BY <1>5, WorkerAlone
<1>6. ASSUME NEW s \in Sock, SvcTake(s) \/ SvcWrite(s) \/ SvcClose(s) PROVE UNCHANGED <<q, worker, stop_>>
  BY <1>6, ServiceAlone
<1> QED
  BY <1>1, <1>2, <1>3, <1>4, <1>5, <1>6 DEF Next

-----------------------------------------------------------------------------
(* The frames of a request.                                                *)

LEMMA CountType ==
  ASSUME TypeOK, NEW r \in Reqs, NEW k
  PROVE  Count(r, k) \in Nat /\ (frames[r] = <<>> => Count(r, k) = 0)
<1>1. frames[r] \in Seq(FrameSet)
  BY DEF TypeOK
<1>2. {i \in 1 .. Len(frames[r]) : frames[r][i].kind = k} \subseteq 1 .. Len(frames[r]) /\ Len(frames[r]) \in Nat
  BY <1>1
<1>3. IsFiniteSet({i \in 1 .. Len(frames[r]) : frames[r][i].kind = k})
  <2>1. IsFiniteSet(1 .. Len(frames[r]))
    BY <1>2, FS_Interval
  <2> QED
    BY <1>2, <2>1, FS_Subset
<1>4. frames[r] = <<>> => {i \in 1 .. Len(frames[r]) : frames[r][i].kind = k} = {}
  BY <1>2
<1> QED
  BY <1>3, <1>4, FS_CardinalityType, FS_EmptySet DEF Count

LEMMA Counted ==
  ASSUME TypeOK, NEW r \in Reqs, NEW k \in Kinds, NEW o \in Reqs, Send(r, k, o)
  PROVE  /\ Count(r, k)' = Count(r, k) + 1
         /\ \A c : c # k => Count(r, c)' = Count(r, c)
         /\ frames'[r] # <<>> /\ Last(r)' = k
         /\ FrameAt(r)' = FrameAt(r) \cup {[kind |-> k, of |-> o]}
<1>1. frames[r] \in Seq(FrameSet)
  BY DEF TypeOK
<1>2. PICK e \in FrameSet : e = [kind |-> k, of |-> o]
  BY DEF FrameSet, Kinds
<1>3. e.kind = k /\ frames'[r] = Append(frames[r], e)
  BY <1>2, Sent
<1>4. /\ Len(frames'[r]) = Len(frames[r]) + 1 /\ Len(frames[r]) \in Nat
      /\ frames'[r][Len(frames[r]) + 1] = e
      /\ \A i \in 1 .. Len(frames[r]) : frames'[r][i] = frames[r][i]
  BY <1>1, <1>3, Appended
<1>5. \A i : i \in 1 .. Len(frames'[r]) <=> i \in 1 .. Len(frames[r]) \/ i = Len(frames[r]) + 1
  BY <1>4
<1>6. frames'[r] # <<>> /\ Last(r)' = k
  BY <1>3, <1>4 DEF Last
<1> DEFINE Of(c) == {i \in 1 .. Len(frames[r]) : frames[r][i].kind = c}
           New(c) == {i \in 1 .. Len(frames'[r]) : frames'[r][i].kind = c}
<1>7. \A c : Count(r, c) = Cardinality(Of(c)) /\ Count(r, c)' = Cardinality(New(c))
  BY DEF Count
<1>8. New(k) = Of(k) \cup {Len(frames[r]) + 1} /\ Len(frames[r]) + 1 \notin Of(k)
  BY <1>3, <1>4, <1>5
<1>9. \A c : c # k => New(c) = Of(c)
  BY <1>3, <1>4, <1>5
<1>10. IsFiniteSet(Of(k))
  <2>1. Of(k) \subseteq 1 .. Len(frames[r])
    OBVIOUS
  <2>2. IsFiniteSet(1 .. Len(frames[r]))
    BY <1>4, FS_Interval
  <2> QED
    BY <2>1, <2>2, FS_Subset
<1>11. FrameAt(r)' = FrameAt(r) \cup {e}
  BY <1>4, <1>5 DEF FrameAt
<1> HIDE DEF Of, New
<1> QED
  BY <1>2, <1>6, <1>7, <1>8, <1>9, <1>10, <1>11, FS_AddElement, SMTT(30)

LEMMA SameFrames ==
  ASSUME NEW r \in Reqs, FramesRight(r), pc'[r] = pc[r], frames'[r] = frames[r], left'[r] = left[r]
  PROVE  FramesRight(r)'
BY DEF FramesRight, Last, Count

LEMMA FramesStep ==
  ASSUME TypeOK, QueueRight, SocksRight, \A r \in Reqs : FramesRight(r), Next
  PROVE  \A r \in Reqs : FramesRight(r)'
<1> USE LocalPoolAssumption
<1>t. /\ pc \in [Reqs -> Spots] /\ frames \in [Reqs -> Seq(FrameSet)] /\ q \in Seq(Reqs)
      /\ left \in [Reqs -> 0 .. MaxData]
  BY DEF TypeOK, Spots
<1>0. ASSUME UNCHANGED <<pc, frames, left>> PROVE \A r \in Reqs : FramesRight(r)'
  BY <1>0, SameFrames
<1>a. ASSUME NEW r \in Reqs, UNCHANGED <<frames, left>>, pc[r] \in Early, pc'[r] \in Early,
             \A u \in Reqs : u # r => pc'[u] = pc[u]
      PROVE  \A u \in Reqs : FramesRight(u)'
  <2>1. frames'[r] = <<>> /\ pc'[r] \notin Consuming \cup {"end", "release", "done"}
    BY <1>a DEF FramesRight, Early, Consuming
  <2>2. FramesRight(r)'
    BY <1>a, <2>1 DEF FramesRight, Consuming
  <2> QED
    BY <1>a, <2>2, SameFrames
<1>1. CASE Stop
  BY <1>0, <1>1 DEF Stop, workerVars
<1>2. ASSUME NEW w \in Workers, Fetch(w) PROVE \A r \in Reqs : FramesRight(r)'
  <2>1. CASE q # <<>>
    <3>1. Head(q) \in Reqs /\ pc[Head(q)] = "queued"
      BY <1>t, <2>1, TailOf DEF QueueRight
    <3>2. pc'[Head(q)] = "new" /\ \A u \in Reqs : u # Head(q) => pc'[u] = pc[u]
      BY <1>2, <1>t, <2>1, <3>1 DEF Fetch, Goto
    <3>3. UNCHANGED <<frames, left>>
      BY <1>2 DEF Fetch
    <3>4. pc[Head(q)] \in Early /\ pc'[Head(q)] \in Early
      BY <3>1, <3>2 DEF Early
    <3>5. PICK r \in Reqs : r = Head(q)
      BY <3>1
    <3> QED
      BY <1>a, <3>2, <3>3, <3>4, <3>5
  <2>2. CASE q = <<>>
    BY <1>0, <1>2, <2>2 DEF Fetch
  <2> QED
    BY <2>1, <2>2
<1>3. ASSUME NEW r \in Reqs, Submit(r) PROVE \A u \in Reqs : FramesRight(u)'
  BY <1>3, <1>a, <1>t DEF Submit, Goto, Early
<1>4. ASSUME NEW r \in Reqs, Worker(r) PROVE FramesRight(r)'
  <2>c. \A k : Count(r, k) \in Nat /\ (frames[r] = <<>> => Count(r, k) = 0)
    BY CountType
  <2>1. CASE Acquire(r) \/ AcquireNone(r) \/ Connect(r) \/ Write(r)
    <3>1. pc[r] \in Early /\ pc'[r] \in Early /\ UNCHANGED <<frames, left>>
      BY <1>t, <2>1 DEF Acquire, AcquireNone, Connect, Write, Early, Goto
    <3> QED
      BY <1>4, <1>a, <3>1, WorkerAlone
  <2>2. CASE ConnectFails(r)
    <3>1. frames[r] = <<>> /\ pc'[r] = "done"
      BY <1>t, <2>2 DEF ConnectFails, FramesRight, Early, Goto
    <3>2. /\ frames'[r] # <<>> /\ Last(r)' = "abort" /\ Count(r, "head")' = 0 /\ Count(r, "end")' = 0
      BY <2>2, <2>c, <3>1, Counted DEF ConnectFails, Kinds
    <3> QED
      BY <3>1, <3>2 DEF FramesRight, Early, Consuming
  <2>3. CASE Fail(r)
    <3>0. frames[r] = <<>> /\ pc[r] \in Early
      BY <2>3 DEF Fail, FramesRight, Early
    <3>1. CASE MayRetry(r)
      <4>1. pc'[r] \in Early /\ UNCHANGED <<frames, left>>
        BY <1>t, <2>3, <3>1 DEF Fail, Early, Goto
      <4> QED
        BY <1>4, <1>a, <3>0, <4>1, WorkerAlone
    <3>2. CASE ~MayRetry(r)
      <4>1. pc'[r] = "done"
        BY <1>t, <2>3, <3>2 DEF Fail, Goto
      <4>2. /\ frames'[r] # <<>> /\ Last(r)' = "abort" /\ Count(r, "head")' = 0 /\ Count(r, "end")' = 0
        BY <2>3, <2>c, <3>0, <3>2, Counted DEF Fail, Kinds
      <4> QED
        BY <4>1, <4>2 DEF FramesRight, Early, Consuming
    <3> QED
      BY <3>1, <3>2
  <2> DEFINE Begun == /\ frames[r] # <<>> /\ Last(r) \in {"head", "chunk"}
                      /\ Count(r, "head") = 1 /\ Count(r, "end") = 0
  <2>b. pc[r] \in Consuming \cup {"end"} => Begun
    BY DEF FramesRight
  <2>e. ASSUME Begun', pc'[r] \in (Consuming \ {"length"}) \cup {"end"} PROVE FramesRight(r)'
    BY <2>e DEF FramesRight, Consuming, Early
  <2>f. UNCHANGED frames => \A k : Count(r, k)' = Count(r, k) /\ (Begun => Begun')
    BY DEF Count, Last
  <2>g. ASSUME Begun, NEW o \in Reqs, Send(r, "chunk", o)
        PROVE  Begun' /\ Count(r, "chunk")' = Count(r, "chunk") + 1
    BY <2>g, Counted DEF Kinds
  <2> HIDE DEF Begun
  <2>4. CASE ReadHead(r)
    <3>1. frames[r] = <<>> /\ pc[r] \in Holding /\ wire[conn[r]] # <<>>
      BY <2>4 DEF ReadHead, Readable, FramesRight, Early, Holding
    <3>2. Piece(r).of \in Reqs
      BY <3>1, NextPiece
    <3>3. /\ frames'[r] # <<>> /\ Last(r)' = "head" /\ Count(r, "head")' = 1
          /\ Count(r, "end")' = 0 /\ Count(r, "chunk")' = 0
      BY <2>4, <2>c, <3>1, <3>2, Counted DEF ReadHead, Kinds
    <3>4. Begun'
      BY <3>3 DEF Begun
    <3>5. pc'[r] \in {"size", "stream", "length"} /\ left'[r] = MaxData
      BY <1>t, <2>4 DEF ReadHead, Goto, Body
    <3>6. CASE pc'[r] = "length"
      BY <3>3, <3>5, <3>6 DEF FramesRight, Early, Consuming
    <3>7. CASE pc'[r] # "length"
      BY <2>e, <3>4, <3>5, <3>7 DEF Consuming
    <3> QED
      BY <3>6, <3>7
  <2>5. CASE ReadJunkHead(r)
    <3>1. frames[r] = <<>> /\ pc[r] \in Holding /\ pc[r] \in Early /\ wire[conn[r]] # <<>>
      BY <2>5 DEF ReadJunkHead, Readable, FramesRight, Early, Holding
    <3>2. CASE Piece(r).what = "last"
      <4>1. Piece(r).of \in Reqs
        BY <3>1, NextPiece
      <4>2. pc'[r] = "stream"
        BY <1>t, <2>5, <3>2 DEF ReadJunkHead, Goto
      <4>3. /\ frames'[r] # <<>> /\ Last(r)' = "head" /\ Count(r, "head")' = 1 /\ Count(r, "end")' = 0
        BY <2>5, <2>c, <3>1, <3>2, <4>1, Counted DEF ReadJunkHead, Kinds
      <4> QED
        BY <2>e, <4>2, <4>3 DEF Consuming, Begun
    <3>3. CASE Piece(r).what # "last"
      BY <2>5, <3>1, <3>3, SameFrames DEF ReadJunkHead
    <3> QED
      BY <3>2, <3>3
  <2>6. CASE ReadSize(r) \/ ReadCrlf(r)
    <3>1. pc[r] \in Consuming /\ UNCHANGED frames
      BY <2>6 DEF ReadSize, ReadCrlf, Consuming
    <3>2. pc'[r] \in (Consuming \ {"length"}) \cup {"end"}
      BY <1>t, <2>6 DEF ReadSize, ReadCrlf, Consuming, Goto
    <3> QED
      BY <2>b, <2>e, <2>f, <3>1, <3>2
  <2>7. CASE ReadChunk(r)
    <3>1. pc[r] \in Consuming /\ pc[r] \in Holding /\ pc'[r] = "crlf"
      BY <1>t, <2>7 DEF ReadChunk, Consuming, Holding, Goto
    <3>2. UNCHANGED frames \/ (wire[conn[r]] # <<>> /\ Send(r, "chunk", Piece(r).of))
      BY <2>7 DEF ReadChunk, Readable
    <3>3. Begun'
      BY <2>b, <2>f, <2>g, <3>1, <3>2, NextPiece
    <3> QED
      BY <2>e, <3>1, <3>3 DEF Consuming
  <2>8. CASE ReadLength(r)
    <3>1. pc[r] = "length" /\ pc[r] \in Consuming /\ pc[r] \in Holding
      BY <2>8 DEF ReadLength, Consuming, Holding
    <3>2. left[r] + Count(r, "chunk") = MaxData /\ left[r] \in 1 .. MaxData
      BY <1>t, <3>1 DEF FramesRight
    <3>3. CASE EndOfInput(r) /\ Goto(r, "end") /\ UNCHANGED frames
      <4>1. pc'[r] = "end"
        BY <1>t, <3>3 DEF Goto
      <4> QED
        BY <2>b, <2>e, <2>f, <3>1, <3>3, <4>1
    <3>4. CASE /\ wire[conn[r]] # <<>> /\ Send(r, "chunk", Piece(r).of)
               /\ left' = [left EXCEPT ![r] = @ - 1]
               /\ Goto(r, IF left[r] = 1 THEN "end" ELSE "length")
      <4>1. Begun' /\ Count(r, "chunk")' = Count(r, "chunk") + 1
        BY <2>b, <2>g, <3>1, <3>4, NextPiece
      <4>2. left'[r] = left[r] - 1 /\ pc'[r] = IF left[r] = 1 THEN "end" ELSE "length"
        BY <1>t, <3>4 DEF Goto
      <4>3. CASE left[r] = 1
        BY <2>e, <4>1, <4>2, <4>3
      <4>4. CASE left[r] # 1
        <5>1. left'[r] + Count(r, "chunk")' = MaxData /\ left'[r] > 0
          BY <2>c, <3>2, <4>1, <4>2, <4>4
        <5> QED
          BY <4>1, <4>2, <4>4, <5>1 DEF Begun, FramesRight, Early, Consuming
      <4> QED
        BY <4>3, <4>4
    <3> QED
      BY <2>8, <3>3, <3>4 DEF ReadLength, Readable
  <2>9. CASE ReadStream(r)
    <3>1. pc[r] \in Consuming /\ pc[r] \in Holding /\ pc'[r] \in {"stream", "end"}
      BY <1>t, <2>9 DEF ReadStream, Consuming, Holding, Goto
    <3>2. UNCHANGED frames \/ (wire[conn[r]] # <<>> /\ Send(r, "chunk", Piece(r).of))
      BY <2>9 DEF ReadStream
    <3>3. Begun'
      BY <2>b, <2>f, <2>g, <3>1, <3>2, NextPiece
    <3> QED
      BY <2>e, <3>1, <3>3 DEF Consuming
  <2>10. CASE End(r)
    <3>1. Begun /\ pc'[r] = "release"
      BY <1>t, <2>10, <2>b DEF End, Goto
    <3>2. frames'[r] # <<>> /\ Last(r)' = "end" /\ Count(r, "head")' = 1
      BY <2>10, <3>1, Counted DEF End, Kinds, Begun
    <3> QED
      BY <3>1, <3>2 DEF FramesRight, Early, Consuming
  <2>11. CASE Release(r)
    <3>1. frames[r] # <<>> /\ Last(r) = "end" /\ Count(r, "head") = 1
      BY <2>11 DEF Release, FramesRight
    <3>2. pc'[r] = "done" /\ UNCHANGED frames
      BY <1>t, <2>11 DEF Release, Goto
    <3>3. frames'[r] # <<>> /\ Last(r)' = "end" /\ Count(r, "head")' = 1
      BY <3>1, <3>2 DEF Last, Count
    <3> QED
      BY <3>2, <3>3 DEF FramesRight, Early, Consuming
  <2> QED
    BY <1>4, <2>1, <2>2, <2>3, <2>4, <2>5, <2>6, <2>7, <2>8, <2>9, <2>10, <2>11 DEF Worker
<1>5. ASSUME NEW r \in Reqs, Worker(r) PROVE \A u \in Reqs : FramesRight(u)'
  BY <1>4, <1>5, WorkerAlone, SameFrames
<1>6. ASSUME NEW s \in Sock, SvcTake(s) \/ SvcWrite(s) \/ SvcClose(s)
      PROVE  \A u \in Reqs : FramesRight(u)'
  BY <1>0, <1>6, ServiceAlone
<1> QED
  BY <1>1, <1>2, <1>3, <1>5, <1>6 DEF Next

-----------------------------------------------------------------------------
(* The connections.                                                        *)

\* Connections that do not change hands.
LEMMA SocksKept ==
  ASSUME SocksRight, UNCHANGED <<idle, conn>>,
         \A r \in Reqs : pc'[r] \in Holding => pc[r] \in Holding,
         \A s \in Sock : svc[s] # "none" => svc'[s] # "none",
         \A s \in Sock : svc'[s] # "open" => answering'[s] = <<>> /\ inbox'[s] = <<>>,
         \A s \in Sock : svc'[s] = "none" => wire'[s] = <<>>,
         idle \in Seq(Sock)
  PROVE  SocksRight'
<1>1. \A i \in 1 .. Len(idle) : idle[i] \in Sock
  OBVIOUS
<1> QED
  BY <1>1 DEF SocksRight

\* A reading step: only the wire of the reader's connection changes.
LEMMA SocksRead ==
  ASSUME TypeOK, SocksRight, NEW r \in Reqs, Worker(r), pc[r] \in Holding,
         UNCHANGED <<idle, conn, svc, inbox, answering>>,
         \A s \in Sock : s # conn[r] => wire'[s] = wire[s]
  PROVE  SocksRight'
<1>1. \A u \in Reqs : pc'[u] \in Holding => pc[u] \in Holding
  BY WorkerAlone
<1>2. svc[conn[r]] # "none" /\ conn[r] \in Sock
  BY DEF SocksRight
<1>3. \A s \in Sock : svc'[s] # "open" => answering'[s] = <<>> /\ inbox'[s] = <<>>
  BY DEF SocksRight
<1>4. \A s \in Sock : svc'[s] = "none" => wire'[s] = <<>>
  BY <1>2 DEF SocksRight
<1> QED
  BY <1>1, <1>3, <1>4, SocksKept DEF TypeOK

LEMMA SocksStep ==
  ASSUME TypeOK, SocksRight, Next PROVE SocksRight'
<1>t. /\ pc \in [Reqs -> Spots] /\ idle \in Seq(Sock) /\ Len(idle) \in Nat
      /\ conn \in [Reqs -> Sock \cup {NoSock}] /\ svc \in [Sock -> {"none", "open", "closed"}]
      /\ inbox \in [Sock -> Seq(Reqs)] /\ wire \in [Sock -> Seq(PieceSet)]
      /\ answering \in [Sock -> Seq(PieceSet)] /\ \A i \in 1 .. Len(idle) : idle[i] \in Sock
  BY DEF TypeOK, Spots
<1>s. /\ \A r \in Reqs : pc[r] \in Holding => conn[r] \in Sock /\ svc[conn[r]] # "none"
      /\ \A r, u \in Reqs : pc[r] \in Holding /\ pc[u] \in Holding /\ conn[r] = conn[u] => r = u
      /\ \A i \in 1 .. Len(idle) :
           svc[idle[i]] # "none" /\ \A r \in Reqs : pc[r] \in Holding => conn[r] # idle[i]
      /\ \A i, j \in 1 .. Len(idle) : idle[i] = idle[j] => i = j
      /\ \A s \in Sock : svc[s] # "open" => answering[s] = <<>> /\ inbox[s] = <<>>
      /\ \A s \in Sock : svc[s] = "none" => wire[s] = <<>>
  BY DEF SocksRight
<1>0. ASSUME UNCHANGED <<idle, conn, svc, inbox, answering, wire>>,
             \A r \in Reqs : pc'[r] \in Holding => pc[r] \in Holding
      PROVE  SocksRight'
  BY <1>0, <1>s, <1>t, SocksKept
<1>1. CASE Stop
  BY <1>0, <1>1 DEF Stop, workerVars, svcVars
<1>2. ASSUME NEW w \in Workers, Fetch(w) PROVE SocksRight'
  <2>1. \A r \in Reqs : pc'[r] \in Holding => pc[r] \in Holding
    BY <1>2, <1>t DEF Fetch, Goto, Holding
  <2> QED
    BY <1>0, <1>2, <2>1 DEF Fetch, svcVars
<1>3. ASSUME NEW r \in Reqs, Submit(r) PROVE SocksRight'
  <2>1. \A u \in Reqs : pc'[u] \in Holding => pc[u] \in Holding
    BY <1>3, <1>t DEF Submit, Goto, Holding
  <2> QED
    BY <1>0, <1>3, <2>1 DEF Submit, svcVars
<1>4. ASSUME NEW r \in Reqs, Worker(r) PROVE SocksRight'
  <2>w. \A u \in Reqs : u # r => pc'[u] = pc[u] /\ conn'[u] = conn[u]
    BY <1>4, WorkerAlone
  <2>1. CASE Acquire(r)
    <3>1. PICK n \in Nat : n = Len(idle)
      BY <1>t
    <3>2. n # 0
      BY <2>1, <1>t, <3>1 DEF Acquire
    <3>3. /\ Len(idle') = n - 1 /\ \A i \in 1 .. n - 1 : idle'[i] = idle[i]
      BY <2>1, <1>t, <3>1, <3>2 DEF Acquire
    <3>4. /\ conn' = [conn EXCEPT ![r] = idle[n]] /\ UNCHANGED <<svc, inbox, answering, wire>>
          /\ idle[n] \in Sock /\ n \in 1 .. Len(idle)
      BY <2>1, <1>t, <3>1, <3>2 DEF Acquire, svcVars
    <3>5. conn'[r] = idle[n] /\ pc[r] = "new" /\ pc[r] \notin Holding
      BY <2>1, <1>t, <3>4 DEF Acquire, Holding
    <3>6. \A i \in 1 .. Len(idle') : i \in 1 .. Len(idle) /\ i # n /\ idle'[i] = idle[i] /\ idle[i] # idle[n]
      BY <1>s, <3>1, <3>2, <3>3
    <3>7. \A u \in Reqs : pc'[u] \in Holding => conn'[u] \in Sock /\ svc'[conn'[u]] # "none"
      BY <1>s, <2>w, <3>4, <3>5
    <3>8. \A u, v \in Reqs : pc'[u] \in Holding /\ pc'[v] \in Holding /\ conn'[u] = conn'[v] => u = v
      BY <1>s, <2>w, <3>4, <3>5
    <3>9. \A i \in 1 .. Len(idle') :
            svc'[idle'[i]] # "none" /\ \A u \in Reqs : pc'[u] \in Holding => conn'[u] # idle'[i]
      BY <1>s, <2>w, <3>4, <3>5, <3>6
    <3>10. \A i, j \in 1 .. Len(idle') : idle'[i] = idle'[j] => i = j
      BY <1>s, <3>6
    <3> QED
      BY <1>s, <3>4, <3>7, <3>8, <3>9, <3>10 DEF SocksRight
  <2>2. CASE AcquireNone(r)
    <3>1. Len(idle') = 0 /\ UNCHANGED <<conn, svc, inbox, answering, wire>> /\ pc'[r] \notin Holding
      BY <2>2, <1>t DEF AcquireNone, svcVars, Goto, Holding
    <3> QED
      BY <1>s, <2>w, <3>1 DEF SocksRight
  <2>3. CASE Connect(r)
    <3>1. PICK s \in Sock : /\ svc[s] = "none" /\ conn' = [conn EXCEPT ![r] = s]
                            /\ svc' = [svc EXCEPT ![s] = "open"]
      BY <2>3 DEF Connect
    <3>2. conn'[r] = s /\ svc'[s] = "open" /\ \A u \in Sock : u # s => svc'[u] = svc[u]
      BY <1>t, <3>1
    <3>3. UNCHANGED <<idle, inbox, answering, wire>> /\ pc[r] \notin Holding
      BY <2>3 DEF Connect, poolVars, Holding
    <3>4. \A u \in Reqs : pc'[u] \in Holding => conn'[u] \in Sock /\ svc'[conn'[u]] # "none"
      BY <1>s, <2>w, <3>1, <3>2
    <3>5. \A u, v \in Reqs : pc'[u] \in Holding /\ pc'[v] \in Holding /\ conn'[u] = conn'[v] => u = v
      BY <1>s, <2>w, <3>1, <3>2
    <3>6. \A i \in 1 .. Len(idle') :
            svc'[idle'[i]] # "none" /\ \A u \in Reqs : pc'[u] \in Holding => conn'[u] # idle'[i]
      <4>1. \A i \in 1 .. Len(idle) : idle[i] # s /\ svc'[idle[i]] # "none"
        <5> SUFFICES ASSUME NEW i \in 1 .. Len(idle) PROVE idle[i] # s /\ svc'[idle[i]] # "none"
          OBVIOUS
        <5>1. svc[idle[i]] # "none" /\ idle[i] \in Sock
          BY <1>s, <1>t
        <5> QED
          BY <3>1, <3>2, <5>1
      <4>2. \A u \in Reqs : pc'[u] \in Holding => u = r \/ (pc[u] \in Holding /\ conn'[u] = conn[u])
        BY <2>w
      <4> QED
        BY <1>s, <3>2, <3>3, <4>1, <4>2
    <3>7. \A u \in Sock : svc'[u] # "open" => answering'[u] = <<>> /\ inbox'[u] = <<>>
      BY <1>s, <3>2, <3>3
    <3>8. \A u \in Sock : svc'[u] = "none" => wire'[u] = <<>>
      BY <1>s, <3>2, <3>3
    <3> QED
      BY <1>s, <3>3, <3>4, <3>5, <3>6, <3>7, <3>8 DEF SocksRight
  <2>4. CASE ConnectFails(r)
    BY <1>0, <1>t, <2>4 DEF ConnectFails, Goto, poolVars, svcVars, Holding
  <2>5. CASE Fail(r)
    <3>1. pc[r] \in Holding /\ UNCHANGED <<idle, conn, svc, inbox, answering, wire>>
      BY <2>5 DEF Fail, Holding, poolVars, svcVars
    <3> QED
      BY <1>0, <2>w, <3>1
  <2>6. CASE Write(r)
    <3>1. UNCHANGED <<idle, conn, svc, answering, wire>> /\ pc[r] \in Holding
      BY <2>6 DEF Write, poolVars, Holding
    <3>2. \A s \in Sock : svc'[s] # "open" => inbox'[s] = inbox[s]
      BY <1>s, <1>t, <2>6, <3>1 DEF Write
    <3>3. \A s \in Sock : svc'[s] # "open" => answering'[s] = <<>> /\ inbox'[s] = <<>>
      BY <1>s, <3>1, <3>2
    <3>4. \A s \in Sock : svc'[s] = "none" => wire'[s] = <<>>
      BY <1>s, <3>1
    <3>5. \A u \in Reqs : pc'[u] \in Holding => pc[u] \in Holding
      BY <2>w, <3>1
    <3> QED
      BY <1>t, <3>1, <3>3, <3>4, <3>5, SocksKept
  <2>7. CASE ReadHead(r) \/ ReadJunkHead(r) \/ ReadSize(r) \/ ReadChunk(r) \/ ReadCrlf(r)
             \/ ReadLength(r) \/ ReadStream(r) \/ End(r)
    <3>1. pc[r] \in Holding /\ UNCHANGED <<idle, conn, svc, inbox, answering>>
      BY <2>7 DEF ReadHead, ReadJunkHead, ReadSize, ReadChunk, ReadCrlf, ReadLength, ReadStream, End,
                  Holding, poolVars, svcVars
    <3>2. wire' = wire \/ Take(r) \/ wire' = [wire EXCEPT ![conn[r]] = Tail(Tail(@))]
      BY <2>7 DEF ReadHead, ReadJunkHead, ReadSize, ReadChunk, ReadCrlf, ReadLength, ReadStream, End
    <3>3. \A s \in Sock : s # conn[r] => wire'[s] = wire[s]
      BY <1>t, <3>2 DEF Take
    <3> QED
      BY <1>4, <3>1, <3>3, SocksRead
  <2>8. CASE Release(r)
    <3>1. /\ pc[r] \in Holding /\ pc'[r] \notin Holding
          /\ UNCHANGED <<conn, svc, inbox, answering, wire>>
      BY <1>t, <2>8 DEF Release, Goto, svcVars, Holding
    <3>2. CASE idle' = idle
      BY <1>0, <2>w, <3>1, <3>2
    <3>3. CASE idle' = Append(idle, conn[r])
      <4>1. PICK c \in Sock : c = conn[r]
        BY <1>s, <3>1
      <4>2. /\ Len(idle') = Len(idle) + 1 /\ idle'[Len(idle) + 1] = c
            /\ \A i \in 1 .. Len(idle) : idle'[i] = idle[i] /\ idle[i] # c
        BY <1>s, <1>t, <3>1, <3>3, <4>1, Appended
      <4>3. \A i \in 1 .. Len(idle') : i \in 1 .. Len(idle) \/ i = Len(idle) + 1
        <5>1. PICK n \in Nat : n = Len(idle)
          BY <1>t
        <5>2. Len(idle') = n + 1
          BY <4>2, <5>1
        <5> QED
          BY <5>1, <5>2
      <4>4. \A u \in Reqs : pc'[u] \in Holding => pc[u] \in Holding /\ conn'[u] # c
        BY <1>s, <2>w, <3>1, <4>1
      <4>5. \A i \in 1 .. Len(idle') :
              svc'[idle'[i]] # "none" /\ \A u \in Reqs : pc'[u] \in Holding => conn'[u] # idle'[i]
        BY <1>s, <3>1, <4>1, <4>2, <4>3, <4>4
      <4>6. \A i, j \in 1 .. Len(idle') : idle'[i] = idle'[j] => i = j
        BY <1>s, <4>2, <4>3
      <4> QED
        BY <1>s, <3>1, <4>4, <4>5, <4>6 DEF SocksRight
    <3> QED
      BY <2>8, <3>2, <3>3 DEF Release
  <2> QED
    BY <1>4, <2>1, <2>2, <2>3, <2>4, <2>5, <2>6, <2>7, <2>8 DEF Worker
<1>5. ASSUME NEW s \in Sock, SvcTake(s) PROVE SocksRight'
  <2>1. /\ svc[s] = "open" /\ UNCHANGED <<idle, conn, pc, svc, wire>>
        /\ \A u \in Sock : u # s => answering'[u] = answering[u] /\ inbox'[u] = inbox[u]
    BY <1>5, <1>t DEF SvcTake, poolVars, workerVars
  <2> QED
    BY <1>s, <1>t, <2>1, SocksKept
<1>6. ASSUME NEW s \in Sock, Shut(s), UNCHANGED <<idle, conn, pc, wire>>, svc[s] # "none" PROVE SocksRight'
  <2>1. /\ svc'[s] = "closed" /\ answering'[s] = <<>> /\ inbox'[s] = <<>>
        /\ \A u \in Sock : u # s => /\ svc'[u] = svc[u] /\ answering'[u] = answering[u]
                                    /\ inbox'[u] = inbox[u]
    BY <1>6, <1>t DEF Shut
  <2> QED
    BY <1>6, <1>s, <1>t, <2>1, SocksKept
<1>7. ASSUME NEW s \in Sock, SvcWrite(s) PROVE SocksRight'
  <2>1. svc[s] = "open" /\ UNCHANGED <<idle, conn, pc>>
    BY <1>7, <1>s, <1>t DEF SvcWrite, poolVars, workerVars
  <2>2. \/ Shut(s) /\ UNCHANGED wire
        \/ /\ UNCHANGED <<svc, inbox>>
           /\ \A u \in Sock : u # s => answering'[u] = answering[u] /\ wire'[u] = wire[u]
    BY <1>7, <1>t DEF SvcWrite
  <2>3. CASE Shut(s) /\ UNCHANGED wire
    BY <1>6, <2>1, <2>3
  <2>4. CASE /\ UNCHANGED <<svc, inbox>>
             /\ \A u \in Sock : u # s => answering'[u] = answering[u] /\ wire'[u] = wire[u]
    BY <1>s, <1>t, <2>1, <2>4, SocksKept
  <2> QED
    BY <2>2, <2>3, <2>4
<1>8. ASSUME NEW s \in Sock, SvcClose(s) PROVE SocksRight'
  BY <1>6, <1>8 DEF SvcClose, poolVars, workerVars
<1> QED
  BY <1>1, <1>2, <1>3, <1>4, <1>5, <1>7, <1>8 DEF Next

-----------------------------------------------------------------------------
(* What is still to be read.                                               *)

LEMMA CatParts ==
  ASSUME NEW S, NEW w \in Seq(S), NEW a \in Seq(S), NEW z, z = w \o a
  PROVE  /\ z \in Seq(S) /\ Len(z) = Len(w) + Len(a) /\ Len(w) \in Nat /\ Len(a) \in Nat
         /\ \A i \in 1 .. Len(w) : z[i] = w[i]
         /\ \A i \in 1 .. Len(a) : z[Len(w) + i] = a[i]
         /\ z = <<>> <=> w = <<>> /\ a = <<>>
<1>1. z \in Seq(S) /\ Len(z) = Len(w) + Len(a) /\ Len(w) \in Nat /\ Len(a) \in Nat
  OBVIOUS
<1>2. \A i \in 1 .. Len(w) : z[i] = w[i]
  OBVIOUS
<1>3. \A i \in 1 .. Len(a) : z[Len(w) + i] = a[i]
  OBVIOUS
<1>4. z = <<>> <=> w = <<>> /\ a = <<>>
  BY <1>1
<1> QED
  BY <1>1, <1>2, <1>3, <1>4

LEMMA CatEmpty ==
  ASSUME NEW S, NEW w \in Seq(S), NEW a \in Seq(S)
  PROVE  w \o a = <<>> => w = <<>> /\ a = <<>>
<1>1. Len(w \o a) = Len(w) + Len(a) /\ Len(w) \in Nat /\ Len(a) \in Nat
  OBVIOUS
<1>2. Len(w) = 0 => w = <<>>
  OBVIOUS
<1>3. Len(a) = 0 => a = <<>>
  OBVIOUS
<1>4. w \o a = <<>> => Len(w \o a) = 0
  OBVIOUS
<1> QED
  BY <1>1, <1>2, <1>3, <1>4

LEMMA SameSeq ==
  ASSUME NEW S, NEW y \in Seq(S), NEW z \in Seq(S), Len(y) = Len(z),
         \A i \in 1 .. Len(y) : y[i] = z[i]
  PROVE  y = z
OBVIOUS

\* Reading a piece, which is the first of the rest.
LEMMA CatTail ==
  ASSUME NEW S, NEW w \in Seq(S), NEW a \in Seq(S), w # <<>>
  PROVE  /\ Tail(w) \o a = Tail(w \o a) /\ w \o a # <<>> /\ (w \o a)[1] = w[1]
         /\ w \o a \in Seq(S)
<1>1. PICK z \in Seq(S) : z = w \o a
  BY CatParts
<1>2. PICK t \in Seq(S) : t = Tail(w)
  BY TailOf
<1>3. PICK y \in Seq(S) : y = t \o a
  BY CatParts
<1>4. /\ Len(z) = Len(w) + Len(a) /\ \A i \in 1 .. Len(w) : z[i] = w[i]
      /\ \A i \in 1 .. Len(a) : z[Len(w) + i] = a[i]
      /\ z # <<>> /\ Len(w) \in Nat \ {0} /\ Len(a) \in Nat
  BY <1>1, CatParts, TailOf
<1>5. Len(t) = Len(w) - 1 /\ \A i \in 1 .. Len(w) - 1 : t[i] = w[i + 1]
  BY <1>2, TailOf
<1>6. /\ Len(y) = Len(t) + Len(a) /\ \A i \in 1 .. Len(t) : y[i] = t[i]
      /\ \A i \in 1 .. Len(a) : y[Len(t) + i] = a[i]
  BY <1>3, CatParts
<1>7. PICK u \in Seq(S) : u = Tail(z)
  BY <1>4, TailOf
<1>8. Len(u) = Len(z) - 1 /\ \A i \in 1 .. Len(z) - 1 : u[i] = z[i + 1]
  BY <1>4, <1>7, TailOf
<1>9. Len(y) = Len(u)
  BY <1>4, <1>5, <1>6, <1>8
<1>10. ASSUME NEW i \in 1 .. Len(y) PROVE y[i] = u[i]
  <2>1. CASE i \in 1 .. Len(t)
    <3>1. i \in 1 .. Len(z) - 1 /\ i + 1 \in 1 .. Len(w) /\ i \in 1 .. Len(w) - 1
      BY <1>4, <1>5, <2>1
    <3>2. y[i] = w[i + 1] /\ u[i] = z[i + 1] /\ z[i + 1] = w[i + 1]
      BY <1>4, <1>5, <1>6, <1>8, <2>1, <3>1
    <3> QED
      BY <3>2
  <2>2. CASE i \notin 1 .. Len(t)
    <3>1. PICK k \in 1 .. Len(a) : i = Len(t) + k
      <4>1. i - Len(t) \in 1 .. Len(a) /\ i = Len(t) + (i - Len(t))
        BY <1>4, <1>5, <1>6, <2>2
      <4> QED
        BY <4>1
    <3>2. i + 1 = Len(w) + k /\ i \in 1 .. Len(z) - 1
      BY <1>4, <1>5, <3>1
    <3>3. y[i] = a[k] /\ u[i] = z[i + 1]
      BY <1>6, <1>8, <3>1, <3>2
    <3>4. z[i + 1] = a[k]
      BY <1>4, <3>2
    <3> QED
      BY <3>3, <3>4
  <2> QED
    BY <2>1, <2>2
<1>11. y = u
  BY <1>9, <1>10, SameSeq
<1>12. z[1] = w[1]
  BY <1>4
<1> QED
  BY <1>1, <1>2, <1>3, <1>4, <1>7, <1>11, <1>12

\* The service's writing of a piece leaves the rest as it is.
LEMMA CatShift ==
  ASSUME NEW S, NEW w \in Seq(S), NEW a \in Seq(S), a # <<>>
  PROVE  Append(w, Head(a)) \o Tail(a) = w \o a
<1>1. PICK z \in Seq(S) : z = w \o a
  BY CatParts
<1>2. /\ Len(z) = Len(w) + Len(a) /\ \A i \in 1 .. Len(w) : z[i] = w[i]
      /\ \A i \in 1 .. Len(a) : z[Len(w) + i] = a[i]
      /\ Len(w) \in Nat /\ Len(a) \in Nat
  BY <1>1, CatParts
<1>3. PICK h \in S : h = Head(a) /\ h = a[1] /\ Len(a) # 0
  BY TailOf
<1>4. PICK t \in Seq(S) : t = Tail(a) /\ Len(t) = Len(a) - 1 /\ \A i \in 1 .. Len(a) - 1 : t[i] = a[i + 1]
  BY TailOf
<1>5. PICK v \in Seq(S) : /\ v = Append(w, h) /\ Len(v) = Len(w) + 1 /\ v[Len(w) + 1] = h
                          /\ \A i \in 1 .. Len(w) : v[i] = w[i]
  <2>1. /\ Append(w, h) \in Seq(S) /\ Len(Append(w, h)) = Len(w) + 1
        /\ Append(w, h)[Len(w) + 1] = h /\ \A i \in 1 .. Len(w) : Append(w, h)[i] = w[i]
    BY <1>3, Appended
  <2> QED
    BY <2>1, Zenon
<1>6. PICK y \in Seq(S) : y = v \o t
  BY CatParts
<1>7. /\ Len(y) = Len(v) + Len(t) /\ \A i \in 1 .. Len(v) : y[i] = v[i]
      /\ \A i \in 1 .. Len(t) : y[Len(v) + i] = t[i]
  BY <1>6, CatParts
<1>8. Len(y) = Len(z)
  BY <1>2, <1>4, <1>5, <1>7
<1>9. ASSUME NEW i \in 1 .. Len(y) PROVE y[i] = z[i]
  <2>1. CASE i \in 1 .. Len(w)
    <3>1. i \in 1 .. Len(v)
      BY <1>2, <1>5, <2>1
    <3> QED
      BY <1>2, <1>5, <1>7, <2>1, <3>1
  <2>2. CASE i = Len(w) + 1
    <3>1. i \in 1 .. Len(v) /\ 1 \in 1 .. Len(a)
      BY <1>2, <1>3, <1>5, <2>2
    <3>2. y[i] = v[i] /\ v[i] = h /\ h = a[1]
      BY <1>3, <1>5, <1>7, <2>2, <3>1
    <3>3. z[i] = a[1]
      BY <1>2, <2>2, <3>1
    <3> QED
      BY <3>2, <3>3
  <2>3. CASE i > Len(w) + 1
    <3>1. PICK k \in 1 .. Len(t) : i = Len(v) + k
      <4>1. i - Len(v) \in 1 .. Len(t) /\ i = Len(v) + (i - Len(v))
        BY <1>2, <1>4, <1>5, <1>7, <2>3
      <4> QED
        BY <4>1
    <3>2. k + 1 \in 1 .. Len(a) /\ i = Len(w) + (k + 1) /\ k \in 1 .. Len(a) - 1
      BY <1>2, <1>4, <1>5, <3>1
    <3>3. y[i] = t[k] /\ t[k] = a[k + 1]
      BY <1>4, <1>7, <3>1, <3>2
    <3>4. z[i] = a[k + 1]
      BY <1>2, <3>2
    <3> QED
      BY <3>3, <3>4
  <2> QED
    BY <1>2, <1>4, <1>5, <1>7, <2>1, <2>2, <2>3
<1>10. y = z
  BY <1>8, <1>9, SameSeq
<1> QED
  BY <1>1, <1>3, <1>4, <1>5, <1>6, <1>10

LEMMA InOrderTail ==
  ASSUME NEW f, NEW z \in Seq(PieceSet), z # <<>>, InOrder(f, z)
  PROVE  /\ InOrder(f, Tail(z))
         /\ Tail(z) # <<>> => Tail(z)[1].what \in Behind(f, z[1].what)
<1>1. PICK t \in Seq(PieceSet) : /\ t = Tail(z) /\ Len(t) = Len(z) - 1 /\ Len(z) \in Nat \ {0}
                                 /\ \A i \in 1 .. Len(z) - 1 : t[i] = z[i + 1]
  BY TailOf
<1>2. \A i \in 1 .. Len(z) - 1 : z[i + 1].what \in Behind(f, z[i].what)
  BY DEF InOrder
<1>3. ASSUME NEW i \in 1 .. Len(t) - 1 PROVE t[i + 1].what \in Behind(f, t[i].what)
  <2>1. /\ i + 1 \in 1 .. Len(z) - 1 /\ i \in 1 .. Len(z) - 1
        /\ t[i + 1] = z[(i + 1) + 1] /\ t[i] = z[i + 1]
    BY <1>1
  <2> QED
    BY <1>2, <2>1
<1>4. t # <<>> => t[1].what \in Behind(f, z[1].what)
  <2> SUFFICES ASSUME t # <<>> PROVE t[1].what \in Behind(f, z[1].what)
    OBVIOUS
  <2>1. 1 \in 1 .. Len(z) - 1 /\ t[1] = z[1 + 1]
    BY <1>1
  <2> QED
    BY <1>2, <2>1
<1>5. InOrder(f, t)
  BY <1>3 DEF InOrder
<1> QED
  BY <1>1, <1>4, <1>5

\* What is left of the rest when the connection is closed.
LEMMA InOrderFirst ==
  ASSUME NEW f, NEW w \in Seq(PieceSet), NEW a \in Seq(PieceSet), InOrder(f, w \o a)
  PROVE  InOrder(f, w) /\ (w # <<>> => (w \o a)[1] = w[1])
<1>1. PICK z \in Seq(PieceSet) : z = w \o a
  BY CatParts
<1>2. /\ Len(z) = Len(w) + Len(a) /\ Len(w) \in Nat /\ Len(a) \in Nat
      /\ \A i \in 1 .. Len(w) : z[i] = w[i]
  BY <1>1, CatParts
<1>3. ASSUME NEW i \in 1 .. Len(w) - 1 PROVE w[i + 1].what \in Behind(f, w[i].what)
  <2>1. i \in 1 .. Len(z) - 1 /\ z[i + 1] = w[i + 1] /\ z[i] = w[i]
    BY <1>2
  <2> QED
    BY <1>1, <2>1 DEF InOrder
<1>4. w # <<>> => z[1] = w[1]
  <2> SUFFICES ASSUME w # <<>> PROVE z[1] = w[1]
    OBVIOUS
  <2>1. 1 \in 1 .. Len(w)
    BY TailOf
  <2> QED
    BY <1>2, <2>1
<1> QED
  BY <1>1, <1>3, <1>4 DEF InOrder

\* A piece that arrives as two.
LEMMA CatInsert ==
  ASSUME NEW S, NEW w \in Seq(S), NEW a \in Seq(S), a # <<>>, NEW c \in S, NEW l \in S,
         NEW z, z = w \o a, NEW y, y = Append(w, c) \o (<<l>> \o Tail(a))
  PROVE  /\ y \in Seq(S) /\ Len(y) = Len(z) + 1 /\ Len(w) \in Nat /\ Len(z) \in Nat
         /\ Len(w) < Len(z) /\ z[Len(w) + 1] = Head(a)
         /\ \A i \in 1 .. Len(w) : y[i] = z[i] /\ z[i] = w[i]
         /\ y[Len(w) + 1] = c /\ y[Len(w) + 2] = l
         /\ \A i \in Nat : i > Len(w) + 2 /\ i <= Len(y) => y[i] = z[i - 1]
<1>2. /\ Len(z) = Len(w) + Len(a) /\ \A i \in 1 .. Len(w) : z[i] = w[i]
      /\ \A i \in 1 .. Len(a) : z[Len(w) + i] = a[i]
      /\ Len(w) \in Nat /\ Len(a) \in Nat
  BY CatParts
<1>3. Head(a) = a[1] /\ Len(a) # 0
  BY <1>2, TailOf
<1>4. PICK t \in Seq(S) : t = Tail(a) /\ Len(t) = Len(a) - 1 /\ \A i \in 1 .. Len(a) - 1 : t[i] = a[i + 1]
  <2>1. /\ Tail(a) \in Seq(S) /\ Len(Tail(a)) = Len(a) - 1
        /\ \A i \in 1 .. Len(a) - 1 : Tail(a)[i] = a[i + 1]
    BY TailOf
  <2> QED
    BY <2>1, Zenon
<1>5. PICK m \in Seq(S) : m = <<l>>
  <2>1. <<l>> \in Seq(S)
    OBVIOUS
  <2> QED
    BY <2>1, Zenon
<1>6. Len(m) = 1 /\ m[1] = l
  BY <1>5
<1>7. PICK b \in Seq(S) : b = m \o t
  BY CatParts
<1>8. /\ Len(b) = Len(a) /\ b[1] = l
      /\ \A i \in 1 .. Len(a) - 1 : b[i + 1] = a[i + 1]
  <2>1. /\ Len(b) = Len(m) + Len(t) /\ \A i \in 1 .. Len(m) : b[i] = m[i]
        /\ \A i \in 1 .. Len(t) : b[Len(m) + i] = t[i]
    BY <1>7, CatParts
  <2>2. Len(b) = Len(a) /\ b[1] = l
    BY <1>2, <1>4, <1>6, <2>1
  <2>3. ASSUME NEW i \in 1 .. Len(a) - 1 PROVE b[i + 1] = a[i + 1]
    <3>1. i \in 1 .. Len(t) /\ Len(m) + i = i + 1
      BY <1>2, <1>4, <1>6
    <3> QED
      BY <1>4, <2>1, <3>1
  <2> QED
    BY <2>2, <2>3
<1>9. PICK v \in Seq(S) : v = Append(w, c)
  BY Appended
<1>10. Len(v) = Len(w) + 1 /\ v[Len(w) + 1] = c /\ \A i \in 1 .. Len(w) : v[i] = w[i]
  BY <1>9, Appended
<1>11. y = v \o b
  BY <1>4, <1>5, <1>7, <1>9
<1>12. /\ y \in Seq(S) /\ Len(y) = Len(v) + Len(b) /\ \A i \in 1 .. Len(v) : y[i] = v[i]
       /\ \A i \in 1 .. Len(b) : y[Len(v) + i] = b[i]
  <2>1. v \in Seq(S) /\ b \in Seq(S)
    BY <1>7, <1>9
  <2>2. PICK x \in Seq(S) : x = v \o b
    BY <2>1, CatParts
  <2>3. /\ Len(x) = Len(v) + Len(b) /\ \A i \in 1 .. Len(v) : x[i] = v[i]
        /\ \A i \in 1 .. Len(b) : x[Len(v) + i] = b[i]
    BY <2>1, <2>2, CatParts
  <2>4. x = y
    BY <1>11, <2>2
  <2> QED
    BY <2>2, <2>3, <2>4
<1>13. /\ Len(y) = Len(z) + 1 /\ \A i \in 1 .. Len(w) : y[i] = z[i]
       /\ y[Len(w) + 1] = c /\ y[Len(w) + 2] = l
  <2>1. Len(y) = Len(z) + 1
    BY <1>2, <1>8, <1>10, <1>12
  <2>2. \A i \in 1 .. Len(w) : i \in 1 .. Len(v)
    BY <1>2, <1>10
  <2>3. \A i \in 1 .. Len(w) : y[i] = z[i]
    BY <1>2, <1>10, <1>12, <2>2
  <2>4. Len(w) + 1 \in 1 .. Len(v) /\ 1 \in 1 .. Len(b) /\ Len(v) + 1 = Len(w) + 2
    BY <1>2, <1>3, <1>8, <1>10
  <2>5. y[Len(w) + 1] = c
    BY <1>10, <1>12, <2>4
  <2>6. y[Len(v) + 1] = b[1]
    BY <1>12, <2>4
  <2> QED
    BY <1>8, <2>1, <2>3, <2>4, <2>5, <2>6
<1>14. ASSUME NEW i \in Nat, i > Len(w) + 2, i <= Len(y) PROVE y[i] = z[i - 1]
  <2>1. PICK k \in 1 .. Len(a) - 1 : i = Len(w) + 2 + k
    <3>1. i - (Len(w) + 2) \in 1 .. Len(a) - 1 /\ i = Len(w) + 2 + (i - (Len(w) + 2))
      BY <1>2, <1>13, <1>14
    <3> QED
      BY <3>1
  <2>2. /\ k + 1 \in 1 .. Len(b) /\ k + 1 \in 1 .. Len(a) /\ i = Len(v) + (k + 1)
        /\ i - 1 = Len(w) + (k + 1)
    BY <1>2, <1>8, <1>10, <2>1
  <2>3. y[i] = b[k + 1] /\ b[k + 1] = a[k + 1]
    BY <1>8, <1>12, <2>1, <2>2
  <2>4. z[i - 1] = a[k + 1]
    BY <1>2, <2>2
  <2> QED
    BY <2>3, <2>4
<1>15. z[Len(w) + 1] = Head(a) /\ Len(w) < Len(z) /\ Len(z) \in Nat
  <2>1. 1 \in 1 .. Len(a)
    BY <1>2, <1>3
  <2> QED
    BY <1>2, <1>3, <2>1
<1> QED
  BY <1>2, <1>12, <1>13, <1>14, <1>15

\* One CRLF that arrives in two segments.
Halves(h, c, l) == h.what = "crlf" /\ c.what = "cr" /\ l.what = "lf"

SplitAs(f, w, z, y, h, c) ==
  /\ InOrder(f, y) /\ y # <<>>
  /\ w # <<>> => y[1] = w[1] /\ z[1] = w[1]
  /\ w = <<>> => y[1] = c /\ z[1] = h

LEMMA CatSplit ==
  ASSUME NEW f \in Framings, NEW w \in Seq(PieceSet), NEW a \in Seq(PieceSet), a # <<>>,
         NEW c \in PieceSet, NEW l \in PieceSet, Halves(Head(a), c, l),
         NEW z \in Seq(PieceSet), z = w \o a, InOrder(f, z),
         NEW y, y = Append(w, c) \o (<<l>> \o Tail(a))
  PROVE  SplitAs(f, w, z, y, Head(a), c)
<1>h. Head(a).what = "crlf" /\ c.what = "cr" /\ l.what = "lf"
  BY DEF Halves
<1>13. /\ y \in Seq(PieceSet) /\ Len(y) = Len(z) + 1 /\ Len(w) \in Nat /\ Len(z) \in Nat
       /\ Len(w) < Len(z) /\ z[Len(w) + 1] = Head(a)
       /\ \A i \in 1 .. Len(w) : y[i] = z[i] /\ z[i] = w[i]
       /\ y[Len(w) + 1] = c /\ y[Len(w) + 2] = l
  BY CatInsert
<1>14. \A i \in Nat : i > Len(w) + 2 /\ i <= Len(y) => y[i] = z[i - 1]
  BY CatInsert
<1>15. z[Len(w) + 1].what = "crlf"
  BY <1>13, <1>h
<1>16. \A x : "crlf" \in Behind(f, x) => "cr" \in Behind(f, x)
  BY LocalPoolAssumption DEF Behind
<1>17. "lf" \in Behind(f, "cr") /\ Behind(f, "lf") = Behind(f, "crlf")
  BY LocalPoolAssumption DEF Behind
<1>18. \A i \in 1 .. Len(z) - 1 : z[i + 1].what \in Behind(f, z[i].what)
  BY DEF InOrder
<1>19. ASSUME NEW i \in 1 .. Len(y) - 1 PROVE y[i + 1].what \in Behind(f, y[i].what)
  <2>1. CASE i + 1 <= Len(w)
    <3>1. i \in 1 .. Len(w) /\ i + 1 \in 1 .. Len(w) /\ i \in 1 .. Len(z) - 1
      BY <1>13, <2>1
    <3>2. y[i] = z[i] /\ y[i + 1] = z[i + 1]
      BY <1>13, <3>1
    <3> QED
      BY <1>18, <3>1, <3>2
  <2>2. CASE i = Len(w)
    <3>1. i \in 1 .. Len(w) /\ i \in 1 .. Len(z) - 1
      BY <1>13, <2>2
    <3>2. y[i] = z[i] /\ y[i + 1] = c /\ z[i + 1].what = "crlf"
      BY <1>13, <1>15, <2>2, <3>1
    <3>3. "crlf" \in Behind(f, z[i].what)
      BY <1>18, <3>1, <3>2
    <3> QED
      BY <1>h, <1>16, <3>2, <3>3
  <2>3. CASE i = Len(w) + 1
    <3>1. y[i] = c /\ y[i + 1] = l
      <4>1. i + 1 = Len(w) + 2
        BY <1>13, <2>3
      <4> QED
        BY <1>13, <2>3, <4>1
    <3> QED
      BY <1>h, <1>17, <3>1
  <2>4. CASE i = Len(w) + 2
    <3>1. i + 1 > Len(w) + 2 /\ i + 1 <= Len(y) /\ i + 1 \in Nat /\ (i + 1) - 1 = (Len(w) + 1) + 1
          /\ Len(w) + 1 \in 1 .. Len(z) - 1
      BY <1>13, <2>4
    <3>2. y[i + 1] = z[(Len(w) + 1) + 1] /\ y[i] = l
      BY <1>13, <1>14, <2>4, <3>1
    <3>3. z[(Len(w) + 1) + 1].what \in Behind(f, "crlf")
      BY <1>15, <1>18, <3>1
    <3> QED
      BY <1>h, <1>17, <3>2, <3>3
  <2>5. CASE i > Len(w) + 2
    <3>1. i + 1 > Len(w) + 2 /\ i + 1 <= Len(y) /\ i <= Len(y) /\ i \in Nat /\ i + 1 \in Nat
          /\ (i + 1) - 1 = (i - 1) + 1 /\ i - 1 \in 1 .. Len(z) - 1
      <4>1. PICK n \in Nat : n = Len(w)
        BY <1>13
      <4>2. PICK m \in Nat : m = Len(z) /\ Len(y) = m + 1
        BY <1>13
      <4>3. i \in 1 .. m /\ i > n + 2
        BY <2>5, <4>1, <4>2
      <4> QED
        BY <4>1, <4>2, <4>3
    <3>2. y[i + 1] = z[(i - 1) + 1] /\ y[i] = z[i - 1]
      BY <1>14, <2>5, <3>1
    <3> QED
      BY <1>18, <3>1, <3>2
  <2>6. i + 1 <= Len(w) \/ i = Len(w) \/ i = Len(w) + 1 \/ i = Len(w) + 2 \/ i > Len(w) + 2
    BY <1>13
  <2> QED
    BY <2>1, <2>2, <2>3, <2>4, <2>5, <2>6
<1>20. InOrder(f, y) /\ y # <<>>
  <2>1. Len(y) > 0
    BY <1>13
  <2>2. y # <<>>
    BY <2>1
  <2>3. InOrder(f, y)
    BY <1>19 DEF InOrder
  <2> QED
    BY <2>2, <2>3
<1>21. w # <<>> => y[1] = w[1] /\ z[1] = w[1]
  <2> SUFFICES ASSUME w # <<>> PROVE y[1] = w[1] /\ z[1] = w[1]
    OBVIOUS
  <2>1. 1 \in 1 .. Len(w)
    BY TailOf
  <2> QED
    BY <1>13, <2>1
<1>22. w = <<>> => y[1] = c /\ z[1] = Head(a)
  <2> SUFFICES ASSUME w = <<>> PROVE y[1] = c /\ z[1] = Head(a)
    OBVIOUS
  <2>1. Len(w) + 1 = 1
    OBVIOUS
  <2> QED
    BY <1>13, <2>1
<1> QED
  BY <1>20, <1>21, <1>22 DEF SplitAs

\* A response is in order, and has a body's worth of data.
LEMMA ResponseInOrder ==
  ASSUME NEW r \in Reqs, NEW f \in Framings, NEW R, R = Response(r, f)
  PROVE  InOrder(f, R)
<1>p. R \in Seq(PieceSet) /\ R[1] = [what |-> f, of |-> r] /\ ShapeOf(R, f)
  BY Shape
<1>s. f \in {"bodiless", "bare"} => Len(R) = 1
  BY <1>p DEF ShapeOf
<1>l. f = "length" => Len(R) = MaxData + 1 /\ \A i \in 1 .. MaxData : R[i + 1].what = "data"
  BY <1>p DEF ShapeOf
<1>u. f \in {"length_close", "until_close"} =>
        /\ Len(R) = MaxData + 2 /\ R[MaxData + 2].what = "fin"
        /\ \A i \in 1 .. MaxData : R[i + 1].what = "data"
  BY <1>p DEF ShapeOf
<1>c. f = "chunked" =>
        /\ Len(R) = 3 * MaxData + 2 /\ R[3 * MaxData + 2].what = "last"
        /\ \A k \in 1 .. MaxData : /\ R[3 * k - 1].what = "size" /\ R[3 * k].what = "data"
                                   /\ R[3 * k + 1].what = "crlf"
  BY <1>p DEF ShapeOf
<1> USE LocalPoolAssumption
<1>0. /\ MaxData \in Nat \ {0} /\ R \in Seq(PieceSet) /\ Len(R) \in Nat /\ R[1].what = f
      /\ f \in {"length", "length_close", "chunked", "until_close", "bodiless", "bare"}
  BY <1>p
<1>f. f \notin {"size", "data", "crlf", "cr", "lf", "last", "fin"}
      /\ \A x \in {"size", "data", "crlf", "cr", "lf", "last", "fin"} : x \notin Framings
  OBVIOUS
<1> SUFFICES ASSUME NEW i \in 1 .. Len(R) - 1 PROVE R[i + 1].what \in Behind(f, R[i].what)
  BY DEF InOrder
<1>1. CASE f \in {"bodiless", "bare"}
  <2>1. Len(R) = 1
    BY <1>1, <1>s
  <2> QED
    BY <2>1
<1>2. CASE f = "length"
  <2>1. Len(R) = MaxData + 1 /\ \A k \in 1 .. MaxData : R[k + 1].what = "data"
    BY <1>2, <1>l
  <2>2. i \in 1 .. MaxData /\ R[i + 1].what = "data"
    BY <1>0, <2>1
  <2>3. CASE i = 1
    BY <1>0, <1>2, <2>2, <2>3 DEF Behind
  <2>4. CASE i # 1
    <3>1. i - 1 \in 1 .. MaxData /\ (i - 1) + 1 = i
      BY <1>0, <2>2, <2>4
    <3>2. R[i].what = "data"
      BY <2>1, <3>1
    <3> QED
      BY <1>2, <1>f, <2>2, <3>2 DEF Behind
  <2> QED
    BY <2>3, <2>4
<1>3. CASE f \in {"length_close", "until_close"}
  <2>1. /\ Len(R) = MaxData + 2 /\ R[MaxData + 2].what = "fin"
        /\ \A k \in 1 .. MaxData : R[k + 1].what = "data"
    BY <1>3, <1>u
  <2>2. CASE i = 1
    <3>1. R[i + 1].what = "data"
      <4>1. 1 \in 1 .. MaxData /\ i + 1 = 1 + 1
        BY <1>0, <2>2
      <4> QED
        BY <2>1, <4>1
    <3> QED
      BY <1>0, <1>3, <2>2, <3>1 DEF Behind
  <2>3. CASE i # 1
    <3>1. i - 1 \in 1 .. MaxData /\ (i - 1) + 1 = i
      BY <1>0, <2>1, <2>3
    <3>2. R[i].what = "data"
      BY <2>1, <3>1
    <3>3. i \in 1 .. MaxData \/ i + 1 = MaxData + 2
      BY <1>0, <2>1
    <3>4. R[i + 1].what \in {"data", "fin"}
      BY <2>1, <3>3
    <3> QED
      BY <1>3, <1>f, <3>2, <3>4 DEF Behind
  <2> QED
    BY <2>2, <2>3
<1>4. CASE f = "chunked"
  <2>1. /\ Len(R) = 3 * MaxData + 2 /\ R[3 * MaxData + 2].what = "last"
        /\ \A k \in 1 .. MaxData : /\ R[3 * k - 1].what = "size" /\ R[3 * k].what = "data"
                                   /\ R[3 * k + 1].what = "crlf"
    BY <1>4, <1>c
  <2>2. CASE i = 1
    <3>1. 1 \in 1 .. MaxData /\ 3 * 1 - 1 = i + 1
      BY <1>0, <2>2
    <3>2. R[i + 1].what = "size"
      BY <2>1, <3>1
    <3> QED
      BY <1>0, <1>4, <2>2, <3>2 DEF Behind
  <2>3. CASE i # 1
    <3>1. PICK k \in 1 .. MaxData : i \in {3 * k - 1, 3 * k, 3 * k + 1}
      <4>1. (i + 1) \div 3 \in 1 .. MaxData
        BY <1>0, <2>1, <2>3
      <4>2. LET k == (i + 1) \div 3 IN i \in {3 * k - 1, 3 * k, 3 * k + 1}
        BY <1>0, <2>1
      <4> QED
        BY <4>1, <4>2
    <3>2. CASE i = 3 * k - 1
      <4>1. i + 1 = 3 * k
        BY <3>2
      <4>2. R[i].what = "size" /\ R[i + 1].what = "data"
        BY <2>1, <3>2, <4>1
      <4> QED
        BY <1>f, <4>2 DEF Behind
    <3>3. CASE i = 3 * k
      <4>1. i + 1 = 3 * k + 1
        BY <3>3
      <4>2. R[i].what = "data" /\ R[i + 1].what = "crlf"
        BY <2>1, <3>3, <4>1
      <4> QED
        BY <1>f, <1>4, <4>2 DEF Behind
    <3>4. CASE i = 3 * k + 1
      <4>1. R[i].what = "crlf"
        BY <2>1, <3>4
      <4>2. CASE k = MaxData
        <5>1. i + 1 = 3 * MaxData + 2
          BY <3>4, <4>2
        <5> QED
          BY <1>f, <2>1, <4>1, <5>1 DEF Behind
      <4>3. CASE k # MaxData
        <5>1. k + 1 \in 1 .. MaxData /\ i + 1 = 3 * (k + 1) - 1
          BY <1>0, <3>4, <4>3
        <5>2. R[i + 1].what = "size"
          BY <2>1, <5>1
        <5> QED
          BY <1>f, <4>1, <5>2 DEF Behind
      <4> QED
        BY <4>2, <4>3
    <3> QED
      BY <3>1, <3>2, <3>3, <3>4
  <2> QED
    BY <2>2, <2>3
<1> QED
  BY <1>0, <1>1, <1>2, <1>3, <1>4

LEMMA DataPiece ==
  ASSUME NEW r \in Reqs, NEW p \in PieceSet, p.of = r
  PROVE  p = DataOf(r) <=> p.what = "data"
BY DEF PieceSet, DataOf

LEMMA ResponseData ==
  ASSUME NEW r \in Reqs, NEW f \in Framings, NEW R, R = Response(r, f)
  PROVE  Occurs(R, DataOf(r)) = IF f \in {"bodiless", "bare"} THEN 0 ELSE MaxData
<1>p. /\ R \in Seq(PieceSet) /\ R # <<>> /\ R[1] = [what |-> f, of |-> r] /\ ShapeOf(R, f)
      /\ \A i \in 1 .. Len(R) : R[i].of = r
  BY Shape
<1>r. R[1].what = f /\ Len(R) \in Nat \ {0}
  BY <1>p, TailOf
<1>d. \A i \in 1 .. Len(R) : R[i] = DataOf(r) <=> R[i].what = "data"
  BY <1>p, ElementOf, DataPiece
<1> HIDE DEF Response
<1>m. MaxData \in Nat \ {0}
  BY LocalPoolAssumption
<1>f. f \in {"length", "length_close", "chunked", "until_close", "bodiless", "bare"}
  BY LocalPoolAssumption
<1> DEFINE D == {i \in 1 .. Len(R) : R[i].what = "data"}
<1>o. Occurs(R, DataOf(r)) = Cardinality(D)
  BY <1>d DEF Occurs, Places
<1>1. CASE f \in {"bodiless", "bare"}
  <2>1. Len(R) = 1 /\ R[1].what # "data"
    BY <1>1, <1>p, <1>r DEF ShapeOf
  <2>2. D = {}
    BY <2>1
  <2> QED
    BY <1>1, <1>o, <2>2, FS_EmptySet
<1>2. CASE f \in {"length", "length_close", "until_close"}
  <2>1. /\ \A i \in 1 .. MaxData : R[i + 1].what = "data"
        /\ Len(R) = MaxData + 1 \/ (Len(R) = MaxData + 2 /\ R[MaxData + 2].what = "fin")
    BY <1>2, <1>p DEF ShapeOf
  <2>2. R[1].what # "data"
    BY <1>2, <1>r
  <2>3. ASSUME NEW i \in 1 .. Len(R) PROVE R[i].what = "data" <=> i \in 2 .. MaxData + 1
    <3>1. i = 1 \/ i \in 2 .. MaxData + 1 \/ (i = MaxData + 2 /\ Len(R) = MaxData + 2)
      BY <1>m, <2>1
    <3>2. CASE i \in 2 .. MaxData + 1
      <4>1. i - 1 \in 1 .. MaxData /\ (i - 1) + 1 = i
        BY <1>m, <3>2
      <4> QED
        BY <2>1, <3>2, <4>1
    <3>3. CASE i = 1
      BY <1>m, <2>2, <3>3
    <3>4. CASE i = MaxData + 2 /\ Len(R) = MaxData + 2
      <4>1. R[i].what = "fin" /\ i \notin 2 .. MaxData + 1
        BY <1>m, <2>1, <3>4
      <4> QED
        BY <4>1
    <3> QED
      BY <3>1, <3>2, <3>3, <3>4
  <2>4. \A i \in 2 .. MaxData + 1 : i \in 1 .. Len(R)
    BY <1>m, <2>1
  <2>5. D = 2 .. MaxData + 1
    BY <2>3, <2>4
  <2>6. Cardinality(2 .. MaxData + 1) = MaxData
    <3>1. 2 \in Int /\ MaxData + 1 \in Int
      BY <1>m
    <3>2. Cardinality(2 .. MaxData + 1) = IF 2 > MaxData + 1 THEN 0 ELSE (MaxData + 1) - 2 + 1
      BY <3>1, FS_Interval
    <3> QED
      BY <1>m, <3>2
  <2> QED
    BY <1>2, <1>o, <2>5, <2>6
<1>3. CASE f = "chunked"
  <2>1. /\ Len(R) = 3 * MaxData + 2 /\ R[3 * MaxData + 2].what = "last"
        /\ \A k \in 1 .. MaxData : /\ R[3 * k - 1].what = "size" /\ R[3 * k].what = "data"
                                   /\ R[3 * k + 1].what = "crlf"
    BY <1>3, <1>p DEF ShapeOf
  <2>2. R[1].what # "data"
    BY <1>3, <1>r
  <2>3. ASSUME NEW i \in D PROVE \E k \in 1 .. MaxData : i = 3 * k
    <3>1. i \in 2 .. 3 * MaxData + 1
      <4>1. i # 1 /\ i # 3 * MaxData + 2 /\ i \in 1 .. 3 * MaxData + 2
        BY <2>1, <2>2
      <4> QED
        BY <1>m, <4>1
    <3>2. PICK k \in 1 .. MaxData : i \in {3 * k - 1, 3 * k, 3 * k + 1}
      <4>1. (i + 1) \div 3 \in 1 .. MaxData
        BY <1>m, <3>1
      <4>2. LET k == (i + 1) \div 3 IN i \in {3 * k - 1, 3 * k, 3 * k + 1}
        BY <3>1
      <4> QED
        BY <4>1, <4>2
    <3>3. i # 3 * k - 1 /\ i # 3 * k + 1
      BY <2>1
    <3> QED
      BY <3>2, <3>3
  <2>4. \A k \in 1 .. MaxData : 3 * k \in D
    <3> SUFFICES ASSUME NEW k \in 1 .. MaxData PROVE 3 * k \in D
      OBVIOUS
    <3>1. 3 * k \in 1 .. Len(R)
      BY <1>m, <2>1
    <3> QED
      BY <2>1, <3>1
  <2> DEFINE g == [k \in 1 .. MaxData |-> 3 * k]
  <2> HIDE DEF D
  <2>5. g \in Bijection(1 .. MaxData, D)
    <3>1. g \in [1 .. MaxData -> D]
      BY <2>4
    <3>2. \A k, l \in 1 .. MaxData : g[k] = g[l] => k = l
      BY <1>m
    <3>3. \A i \in D : \E k \in 1 .. MaxData : g[k] = i
      BY <2>3
    <3> QED
      BY <3>1, <3>2, <3>3, Fun_IsBij
  <2>6. IsFiniteSet(1 .. MaxData) /\ Cardinality(1 .. MaxData) = MaxData
    <3>1. 1 \in Int /\ MaxData \in Int
      BY <1>m
    <3>2. /\ IsFiniteSet(1 .. MaxData)
          /\ Cardinality(1 .. MaxData) = IF 1 > MaxData THEN 0 ELSE MaxData - 1 + 1
      BY <3>1, FS_Interval
    <3> QED
      BY <1>m, <3>2
  <2>7. Cardinality(D) = MaxData
    <3>1. ExistsBijection(1 .. MaxData, D)
      BY <2>5 DEF ExistsBijection
    <3> QED
      BY <2>6, <3>1, FS_Bijection
  <2> QED
    BY <1>3, <1>o, <2>7
<1> QED
  BY <1>f, <1>1, <1>2, <1>3

LEMMA OccursEmpty == ASSUME NEW S, NEW e PROVE \A z \in Seq(S) : z = <<>> => Occurs(z, e) = 0
<1> SUFFICES ASSUME NEW z \in Seq(S), z = <<>> PROVE Occurs(z, e) = 0
  OBVIOUS
<1>1. \A i \in 1 .. Len(z) : z[i] # e
  OBVIOUS
<1> QED
  BY <1>1, OccursNever

\* How much data is still to be read.
LEMMA OwedType ==
  ASSUME TypeOK, NEW r \in Reqs, NEW s \in Sock
  PROVE  /\ wire[s] \in Seq(PieceSet) /\ answering[s] \in Seq(PieceSet)
         /\ Rest(s) \in Seq(PieceSet) /\ Len(Rest(s)) \in Nat /\ Owed(s, r) \in Nat
         /\ (Rest(s) = <<>> <=> wire[s] = <<>> /\ answering[s] = <<>>)
         /\ (Rest(s) = <<>> => Owed(s, r) = 0)
<1>1. wire[s] \in Seq(PieceSet) /\ answering[s] \in Seq(PieceSet)
  BY DEF TypeOK
<1>2. /\ Rest(s) \in Seq(PieceSet) /\ Len(Rest(s)) \in Nat
      /\ (Rest(s) = <<>> <=> wire[s] = <<>> /\ answering[s] = <<>>)
  <2>1. PICK w \in Seq(PieceSet) : w = wire[s]
    BY <1>1
  <2>2. PICK a \in Seq(PieceSet) : a = answering[s]
    BY <1>1
  <2>3. PICK z \in Seq(PieceSet) : z = w \o a
    BY <2>1, <2>2, CatParts
  <2>4. Len(z) \in Nat /\ (z = <<>> <=> w = <<>> /\ a = <<>>)
    <3>1. Len(z) = Len(w) + Len(a) /\ Len(w) \in Nat /\ Len(a) \in Nat
      BY <2>1, <2>2, <2>3, CatParts
    <3>2. Len(z) = 0 <=> Len(w) = 0 /\ Len(a) = 0
      BY <3>1
    <3>3. \A x \in Seq(PieceSet) : Len(x) = 0 <=> x = <<>>
      OBVIOUS
    <3>4. w \in Seq(PieceSet) /\ a \in Seq(PieceSet) /\ z \in Seq(PieceSet)
      BY <2>1, <2>2, <2>3
    <3>5. Len(z) \in Nat
      BY <3>1
    <3>6. z = <<>> <=> w = <<>> /\ a = <<>>
      BY <3>2, <3>3, <3>4, Zenon
    <3> QED
      BY <3>5, <3>6
  <2>5. z = Rest(s)
    BY <2>1, <2>2, <2>3 DEF Rest
  <2> QED
    BY <2>1, <2>2, <2>3, <2>4, <2>5
<1>3. Owed(s, r) \in Nat
  <2>1. Occurs(wire[s], DataOf(r)) \in Nat /\ Occurs(answering[s], DataOf(r)) \in Nat
    BY <1>1, OccursType
  <2> QED
    BY <2>1 DEF Owed
<1>4. \A z \in Seq(PieceSet) : z = <<>> => Occurs(z, DataOf(r)) = 0
  BY OccursEmpty
<1>5. Rest(s) = <<>> => Owed(s, r) = 0
  BY <1>1, <1>2, <1>4 DEF Owed
<1> QED
  BY <1>1, <1>2, <1>3, <1>5

\* A reader takes the first piece of the rest.
LEMMA ReadPiece ==
  ASSUME TypeOK, SocksRight, NEW r \in Reqs, pc[r] \in Holding, wire[conn[r]] # <<>>, Take(r),
         UNCHANGED answering, NEW s \in Sock, s = conn[r]
  PROVE  /\ Rest(s)' = Tail(Rest(s)) /\ Rest(s) # <<>> /\ Rest(s)[1] = Piece(r)
         /\ Rest(s) \in Seq(PieceSet) /\ Rest(s)' \in Seq(PieceSet)
         /\ Len(Rest(s)') = Len(Rest(s)) - 1 /\ Len(Rest(s)) \in Nat \ {0}
         /\ Owed(s, r)' = IF Piece(r) = DataOf(r) THEN Owed(s, r) - 1 ELSE Owed(s, r)
         /\ Owed(s, r) \in Nat
         /\ Rest(s)' = <<>> => wire'[s] = <<>> /\ answering'[s] = <<>> /\ Owed(s, r)' = 0
<1>1. PICK w \in Seq(PieceSet) : w = wire[s] /\ w # <<>>
  BY DEF TypeOK
<1>2. PICK a \in Seq(PieceSet) : a = answering[s]
  BY DEF TypeOK
<1>3. wire'[s] = Tail(w) /\ answering'[s] = a
  BY <1>1, <1>2, Taken
<1>4. PICK z \in Seq(PieceSet) : z = w \o a
  BY <1>1, <1>2, CatParts
<1>5. Rest(s) = z /\ Rest(s)' = Tail(w) \o a
  BY <1>1, <1>2, <1>3, <1>4 DEF Rest
<1>6. Tail(w) \o a = Tail(z) /\ z # <<>> /\ z[1] = w[1]
  <2>1. /\ Tail(w) \o a = Tail(w \o a) /\ w \o a # <<>> /\ (w \o a)[1] = w[1]
    BY <1>1, <1>2, CatTail, ZenonT(60)
  <2> QED
    BY <1>4, <2>1, Zenon
<1>7. Tail(z) \in Seq(PieceSet) /\ Len(Tail(z)) = Len(z) - 1 /\ Len(z) \in Nat \ {0}
  BY <1>4, <1>6, TailOf
<1>8. Piece(r) = w[1] /\ Piece(r) = Head(w)
  BY <1>1, TailOf DEF Piece
<1>9. Owed(s, r)' = IF Piece(r) = DataOf(r) THEN Owed(s, r) - 1 ELSE Owed(s, r)
  <2> DEFINE d == DataOf(r)
  <2>1. d = DataOf(r) /\ DataOf(r)' = d
    BY DEF DataOf
  <2> HIDE DEF d
  <2>2. Occurs(w, d) = IF Head(w) = d THEN Occurs(Tail(w), d) + 1 ELSE Occurs(Tail(w), d)
    BY <1>1, OccursInTail
  <2>3. Tail(w) \in Seq(PieceSet)
    BY <1>1, TailOf
  <2>4. Occurs(Tail(w), d) \in Nat /\ Occurs(a, d) \in Nat
    BY <1>2, <2>3, OccursType
  <2>5. Owed(s, r) = Occurs(w, d) + Occurs(a, d)
    BY <1>1, <1>2, <2>1 DEF Owed
  <2>6. Owed(s, r)' = Occurs(Tail(w), d) + Occurs(a, d)
    BY <1>3, <2>1 DEF Owed
  <2> QED
    BY <1>8, <2>1, <2>2, <2>4, <2>5, <2>6
<1>10. Owed(s, r) \in Nat
  BY OwedType
<1>11. Rest(s)' = <<>> => wire'[s] = <<>> /\ answering'[s] = <<>> /\ Owed(s, r)' = 0
  <2>1. PICK t \in Seq(PieceSet) : t = Tail(w)
    BY <1>1, TailOf
  <2>2. t \o a = <<>> => t = <<>> /\ a = <<>>
    BY <1>2, <2>1, CatEmpty
  <2>3. \A x \in Seq(PieceSet) : x = <<>> => Occurs(x, DataOf(r)) = 0
    BY OccursEmpty
  <2>4. Owed(s, r)' = Occurs(t, DataOf(r)) + Occurs(a, DataOf(r))
    BY <1>3, <2>1 DEF Owed, DataOf
  <2>5. t = <<>> /\ a = <<>> => Owed(s, r)' = 0
    <3> SUFFICES ASSUME t = <<>>, a = <<>> PROVE Owed(s, r)' = 0
      OBVIOUS
    <3>1. Occurs(t, DataOf(r)) = 0
      BY <2>1, <2>3
    <3>2. Occurs(a, DataOf(r)) = 0
      BY <1>2, <2>3
    <3> QED
      BY <2>4, <3>1, <3>2
  <2> QED
    BY <1>3, <1>5, <2>1, <2>2, <2>5, Zenon
<1> QED
  BY <1>4, <1>5, <1>6, <1>7, <1>8, <1>9, <1>10, <1>11

LEMMA ReadInOrder ==
  ASSUME TypeOK, SocksRight, NEW r \in Reqs, pc[r] \in Holding, wire[conn[r]] # <<>>, Take(r),
         UNCHANGED answering, NEW s \in Sock, s = conn[r], NEW f \in Framings, Remains(r, f)
  PROVE  /\ Piece(r).what \in Expects(f, pc[r]) /\ InOrder(f, Rest(s)')
         /\ Rest(s)' # <<>> => Rest(s)'[1].what \in Behind(f, Piece(r).what)
<1>1. PICK z \in Seq(PieceSet) : z = Rest(s) /\ z # <<>> /\ z[1] = Piece(r) /\ Rest(s)' = Tail(z)
  BY ReadPiece
<1>2. InOrder(f, z) /\ z[1].what \in Expects(f, pc[r])
  BY <1>1 DEF Remains, Fits
<1> QED
  BY <1>1, <1>2, InOrderTail

LEMMA Remained ==
  ASSUME NEW r \in Reqs, NEW f \in Framings, NEW s \in Sock, s = conn'[r], InLoop(f, pc'[r]),
         inbox'[s] = <<>>, InOrder(f, Rest(s)'),
         Rest(s)' # <<>> => Rest(s)'[1].what \in Expects(f, pc'[r]),
         f = "length" => Len(Rest(s)') <= IF pc'[r] = "head" THEN MaxData + 1 ELSE left'[r],
         pc'[r] \in Consuming => keep'[r] = KeepAlive(f),
         s \notin broken' => IF f \in {"bodiless", "bare"} THEN Owed(s, r)' = 0 /\ Count(r, "chunk")' = 0
                                               ELSE Owed(s, r)' + Count(r, "chunk")' = MaxData
  PROVE  Remains(r, f)'
<1>1. Fits(f, pc'[r], Rest(s)')
  BY DEF Fits
<1>2. Rest(s)' = Rest(conn[r])' /\ Owed(s, r)' = Owed(conn[r], r)'
  BY DEF Rest, Owed
<1> QED
  BY <1>1, <1>2 DEF Remains, Fits, InLoop

LEMMA ReaderKnows ==
  ASSUME NEW r \in Reqs, UserRight(r), pc[r] \in Consuming \cup {"head"}, conn[r] \notin cut,
         pc[r] = "head" => wire[conn[r]] # <<>>
  PROVE  OnlyOf(conn[r], r) /\ \E f \in Framings : Remains(r, f)
BY DEF UserRight, InStep, Empty, Consuming, Holding

\* The end of the input of a reader that is in step.
LEMMA EndKnows ==
  ASSUME TypeOK, SocksRight, NEW r \in Reqs, pc[r] \in Consuming, EndOfInput(r),
         NEW f \in Framings, Remains(r, f)
  PROVE  /\ Empty(conn[r]) /\ Rest(conn[r]) = <<>> /\ svc[conn[r]] = "closed"
         /\ conn[r] \notin broken => Count(r, "chunk") = IF f \in {"bodiless", "bare"} THEN 0 ELSE MaxData
<1>1. conn[r] \in Sock
  BY DEF SocksRight, Consuming, Holding
<1>2. /\ wire[conn[r]] = <<>> /\ answering[conn[r]] = <<>> /\ inbox[conn[r]] = <<>>
      /\ svc[conn[r]] = "closed"
  BY <1>1 DEF EndOfInput, SocksRight
<1>3. Rest(conn[r]) = <<>> /\ Owed(conn[r], r) = 0
  BY <1>1, <1>2, OwedType
<1>4. Count(r, "chunk") \in Nat /\ MaxData \in Nat
  BY CountType, LocalPoolAssumption
<1> QED
  BY <1>2, <1>3, <1>4 DEF Remains, Empty

-----------------------------------------------------------------------------
(* The reader stays in step.                                               *)

\* A reader whose connection no CRLF has been cut on is in step after its step too,
\* and has the whole body when it ends the stream.
InStepStill(r) ==
  conn[r] \notin cut =>
    InStep(r) /\ (pc[r] = "end" /\ conn[r] \notin broken => Whole(r))

LEMMA HeadStep ==
  ASSUME TypeOK, SocksRight, NEW r \in Reqs, FramesRight(r), UserRight(r), ReadHead(r)
  PROVE  InStepStill(r)'
<1> USE LocalPoolAssumption
<1>t. /\ pc \in [Reqs -> Spots] /\ conn[r] \in Sock /\ pc[r] = "head" /\ pc[r] \in Holding
      /\ wire[conn[r]] # <<>> /\ keep \in [Reqs -> BOOLEAN] /\ left \in [Reqs -> 0 .. MaxData]
  BY DEF TypeOK, Spots, ReadHead, Readable, SocksRight, Holding
<1>u. UNCHANGED <<conn, cut, broken, inbox, answering, svc>> /\ Take(r)
  BY DEF ReadHead, history, svcVars
<1> SUFFICES ASSUME conn[r] \notin cut PROVE InStep(r)' /\ pc'[r] # "end"
  BY <1>u DEF InStepStill
<1>1. OnlyOf(conn[r], r) /\ \E f \in Framings : Remains(r, f)
  BY <1>t, ReaderKnows
<1>2. PICK f \in Framings : Remains(r, f)
  BY <1>1
<1>3. PICK s \in Sock : s = conn[r]
  BY <1>t
<1>4. /\ Piece(r).what \in Expects(f, "head") /\ InOrder(f, Rest(s)')
      /\ Rest(s)' # <<>> => Rest(s)'[1].what \in Behind(f, Piece(r).what)
  BY <1>2, <1>3, <1>t, <1>u, ReadInOrder
<1>5. Piece(r).what = f
  BY <1>4 DEF Expects
<1>6. pc'[r] = Body(f) /\ keep'[r] = KeepAlive(f) /\ left'[r] = MaxData
  BY <1>5, <1>t DEF ReadHead, Goto
<1>7. /\ Len(Rest(s)') = Len(Rest(s)) - 1 /\ Len(Rest(s)) \in Nat /\ Owed(s, r)' = Owed(s, r)
  <2>1. Piece(r) # DataOf(r)
    BY <1>5 DEF DataOf
  <2> QED
    BY <1>3, <1>t, <1>u, <2>1, ReadPiece
<1>8. Count(r, "chunk")' = Count(r, "chunk")
  <2>1. Piece(r).of \in Reqs /\ Send(r, "head", Piece(r).of)
    BY <1>t, NextPiece DEF ReadHead
  <2> QED
    BY <2>1, Counted DEF Kinds
<1>9. f \in {"length", "length_close", "chunked", "until_close", "bodiless", "bare"}
  OBVIOUS
<1>10. InLoop(f, Body(f)) /\ Behind(f, f) \subseteq Expects(f, Body(f)) /\ Body(f) \in Consuming
  BY <1>9 DEF InLoop, Behind, Expects, Body, Consuming
<1>11. Remains(r, f)'
  <2>1. inbox'[s] = <<>> /\ (f = "length" => Len(Rest(s)) <= MaxData + 1)
    BY <1>2, <1>3, <1>t, <1>u DEF Remains
  <2>2. f = "length" => Len(Rest(s)') <= left'[r]
    BY <1>6, <1>7, <2>1
  <2>3. s \notin broken' => IF f \in {"bodiless", "bare"} THEN Owed(s, r)' = 0 /\ Count(r, "chunk")' = 0
                                              ELSE Owed(s, r)' + Count(r, "chunk")' = MaxData
    BY <1>2, <1>3, <1>7, <1>8, <1>u DEF Remains
  <2>4. s = conn'[r] /\ InLoop(f, pc'[r]) /\ (Rest(s)' # <<>> => Rest(s)'[1].what \in Expects(f, pc'[r]))
    BY <1>3, <1>4, <1>5, <1>6, <1>10, <1>u
  <2>5. pc'[r] # "head"
    BY <1>6, <1>10 DEF Consuming
  <2> QED
    BY <1>4, <1>6, <2>1, <2>2, <2>3, <2>4, <2>5, Remained
<1>12. pc'[r] \in Consuming
  BY <1>6, <1>10
<1> QED
  BY <1>11, <1>12 DEF InStep, Consuming

LEMMA JunkStep ==
  ASSUME TypeOK, SocksRight, NEW r \in Reqs, FramesRight(r), UserRight(r), ReadJunkHead(r)
  PROVE  InStepStill(r)'
<1> USE LocalPoolAssumption
<1>t. /\ conn[r] \in Sock /\ pc[r] = "head" /\ pc[r] \in Holding /\ wire[conn[r]] # <<>>
      /\ Piece(r).what \in {"size", "data", "crlf", "cr", "lf", "last"}
  BY DEF ReadJunkHead, Readable, SocksRight, Holding
<1>u. UNCHANGED <<conn, cut, answering>> /\ Take(r)
  BY DEF ReadJunkHead, history, svcVars
<1> SUFFICES ASSUME conn[r] \notin cut PROVE FALSE
  BY <1>u DEF InStepStill
<1>1. PICK f \in Framings : Remains(r, f)
  BY <1>t, ReaderKnows
<1>2. PICK s \in Sock : s = conn[r]
  BY <1>t
<1>3. Piece(r).what \in Expects(f, "head")
  BY <1>1, <1>2, <1>t, <1>u, ReadInOrder
<1>4. Piece(r).what = f
  BY <1>3 DEF Expects
<1> QED
  BY <1>4, <1>t

\* A reader in the body of a response: the framings its loop reads.
LEMMA LoopOf ==
  ASSUME NEW r \in Reqs, NEW f \in Framings, Remains(r, f)
  PROVE  /\ pc[r] \in {"size", "data", "crlf"} => f = "chunked"
         /\ pc[r] = "length" => f \in {"length", "length_close", "bodiless"}
         /\ pc[r] = "stream" => f \in {"until_close", "bare"}
BY DEF Remains, InLoop

LEMMA SizeStep ==
  ASSUME TypeOK, SocksRight, NEW r \in Reqs, FramesRight(r), UserRight(r), ReadSize(r)
  PROVE  InStepStill(r)'
<1> USE LocalPoolAssumption
<1>t. /\ pc \in [Reqs -> Spots] /\ conn[r] \in Sock /\ pc[r] = "size" /\ pc[r] \in Holding
      /\ pc[r] \in Consuming
  BY DEF TypeOK, Spots, ReadSize, SocksRight, Holding, Consuming
<1>u. UNCHANGED <<conn, cut, broken, inbox, answering, svc, keep, left, frames>>
  BY DEF ReadSize, history, svcVars
<1> SUFFICES ASSUME conn[r] \notin cut
             PROVE  InStep(r)' /\ (pc'[r] = "end" /\ conn[r] \notin broken => Whole(r)')
  BY <1>u DEF InStepStill
<1>1. OnlyOf(conn[r], r) /\ \E f \in Framings : Remains(r, f)
  BY <1>t, ReaderKnows
<1>2. PICK f \in Framings : Remains(r, f)
  BY <1>1
<1>3. PICK s \in Sock : s = conn[r]
  BY <1>t
<1>c. f = "chunked"
  BY <1>2, <1>t, LoopOf
<1>k. Count(r, "chunk")' = Count(r, "chunk") /\ Count(r, "chunk") \in Nat
  BY <1>u, CountType DEF Count
<1>r. ASSUME Take(r), wire[conn[r]] # <<>>
      PROVE  /\ Piece(r).what \in {"size", "last"} /\ InOrder(f, Rest(s)')
             /\ Rest(s)' # <<>> => Rest(s)'[1].what \in Behind(f, Piece(r).what)
             /\ Rest(s)' \in Seq(PieceSet) /\ Owed(s, r)' = Owed(s, r) /\ Owed(s, r) \in Nat
             /\ Len(Rest(s)') = Len(Rest(s)) - 1
  <2>1. /\ Piece(r).what \in Expects(f, "size") /\ InOrder(f, Rest(s)')
        /\ Rest(s)' # <<>> => Rest(s)'[1].what \in Behind(f, Piece(r).what)
    BY <1>2, <1>3, <1>t, <1>u, <1>r, ReadInOrder
  <2>2. Piece(r).what \in {"size", "last"}
    BY <2>1 DEF Expects
  <2>3. Piece(r) # DataOf(r)
    BY <2>2 DEF DataOf
  <2>4. /\ Owed(s, r)' = Owed(s, r) /\ Owed(s, r) \in Nat /\ Rest(s)' \in Seq(PieceSet)
        /\ Len(Rest(s)') = Len(Rest(s)) - 1
    BY <1>3, <1>t, <1>u, <1>r, <2>3, ReadPiece
  <2> QED
    BY <2>1, <2>2, <2>4
<1>4. CASE Readable(r, {"size"}) /\ Take(r) /\ Goto(r, "data")
  <2>1. pc'[r] = "data" /\ wire[conn[r]] # <<>> /\ Piece(r).what = "size"
    BY <1>4, <1>t DEF Goto, Readable
  <2>2. Behind(f, "size") \subseteq Expects(f, "data")
    BY DEF Behind, Expects
  <2>3. Remains(r, f)'
    <3>1. inbox'[s] = <<>> /\ keep'[r] = KeepAlive(f)
      BY <1>2, <1>3, <1>t, <1>u DEF Remains
    <3>2. s \notin broken' => Owed(s, r)' + Count(r, "chunk")' = MaxData
      BY <1>2, <1>3, <1>4, <1>c, <1>k, <1>r, <1>u, <2>1 DEF Remains
    <3>3. /\ s = conn'[r] /\ InLoop(f, pc'[r]) /\ InOrder(f, Rest(s)')
          /\ (Rest(s)' # <<>> => Rest(s)'[1].what \in Expects(f, pc'[r]))
      BY <1>3, <1>4, <1>c, <1>r, <1>u, <2>1, <2>2 DEF InLoop
    <3> QED
      BY <1>c, <3>1, <3>2, <3>3, Remained
  <2> QED
    BY <2>1, <2>3 DEF InStep, Consuming
<1>5. CASE Readable(r, {"lf", "last"}) /\ Take(r) /\ Goto(r, "end")
  <2>1. pc'[r] = "end" /\ wire[conn[r]] # <<>> /\ Piece(r).what = "last"
    BY <1>5, <1>r, <1>t DEF Goto, Readable
  <2>2. Behind(f, "last") = {}
    BY DEF Behind
  <2>3. Rest(s)' = <<>>
    BY <1>5, <1>r, <2>1, <2>2
  <2>4. Empty(conn[r])'
    <3>1. wire'[s] = <<>> /\ answering'[s] = <<>>
      BY <1>3, <1>5, <1>t, <1>u, <2>1, <2>3, ReadPiece
    <3>2. inbox'[s] = <<>> /\ s = conn'[r]
      BY <1>2, <1>3, <1>u DEF Remains
    <3> QED
      BY <3>1, <3>2 DEF Empty
  <2>5. conn[r] \notin broken => Count(r, "chunk")' = MaxData
    <3>1. Owed(s, r)' = 0
      BY <1>3, <1>5, <1>t, <1>u, <2>1, <2>3, ReadPiece
    <3> QED
      BY <1>2, <1>3, <1>5, <1>c, <1>k, <1>r, <2>1, <2>3, <3>1 DEF Remains
  <2> QED
    BY <2>1, <2>4, <2>5 DEF InStep, Whole, Consuming
<1>6. CASE EndOfInput(r) /\ UNCHANGED wire /\ Goto(r, "end")
  <2>1. pc'[r] = "end"
    BY <1>6, <1>t DEF Goto
  <2>2. /\ Empty(conn[r])
        /\ conn[r] \notin broken => Count(r, "chunk") = MaxData
    BY <1>2, <1>6, <1>c, <1>t, EndKnows
  <2>3. Empty(conn[r])'
    BY <1>6, <1>u, <2>2 DEF Empty
  <2> QED
    BY <1>k, <2>1, <2>2, <2>3 DEF InStep, Whole, Consuming
<1> QED
  BY <1>4, <1>5, <1>6 DEF ReadSize

\* A piece of data that is read and sent on.
LEMMA DataRead ==
  ASSUME TypeOK, SocksRight, NEW r \in Reqs, pc[r] \in Holding, wire[conn[r]] # <<>>, Take(r),
         UNCHANGED <<answering, conn, broken>>, NEW s \in Sock, s = conn[r], NEW f \in Framings,
         Remains(r, f), OnlyOf(conn[r], r), Piece(r).what = "data", Send(r, "chunk", Piece(r).of)
  PROVE  /\ Owed(s, r)' + Count(r, "chunk")' = Owed(s, r) + Count(r, "chunk")
         /\ Count(r, "chunk")' = Count(r, "chunk") + 1 /\ Count(r, "chunk") \in Nat
<1>1. Piece(r) \in PieceSet /\ Piece(r) = wire[conn[r]][1] /\ Piece(r).of \in Reqs
  BY NextPiece
<1>2. Piece(r).of = r
  <2>1. wire[conn[r]] \in Seq(PieceSet)
    BY NextPiece
  <2>2. 1 \in 1 .. Len(wire[conn[r]])
    BY <2>1, TailOf
  <2> QED
    BY <1>1, <2>2 DEF OnlyOf, AllOf
<1>3. Piece(r) = DataOf(r)
  BY <1>1, <1>2, DataPiece
<1>4. Owed(s, r)' = Owed(s, r) - 1 /\ Owed(s, r) \in Nat
  BY <1>3, ReadPiece
<1>5. Count(r, "chunk")' = Count(r, "chunk") + 1 /\ Count(r, "chunk") \in Nat
  BY <1>1, Counted, CountType DEF Kinds
<1> QED
  BY <1>4, <1>5

LEMMA ChunkStep ==
  ASSUME TypeOK, SocksRight, NEW r \in Reqs, FramesRight(r), UserRight(r), ReadChunk(r)
  PROVE  InStepStill(r)'
<1> USE LocalPoolAssumption
<1>t. /\ pc \in [Reqs -> Spots] /\ conn[r] \in Sock /\ pc[r] = "data" /\ pc[r] \in Holding
      /\ pc[r] \in Consuming
  BY DEF TypeOK, Spots, ReadChunk, SocksRight, Holding, Consuming
<1>u. UNCHANGED <<conn, cut, broken, inbox, answering, svc, keep, left>> /\ pc'[r] = "crlf"
  BY <1>t DEF ReadChunk, history, svcVars, Goto
<1> SUFFICES ASSUME conn[r] \notin cut PROVE InStep(r)'
  BY <1>u DEF InStepStill
<1>1. OnlyOf(conn[r], r) /\ \E f \in Framings : Remains(r, f)
  BY <1>t, ReaderKnows
<1>2. PICK f \in Framings : Remains(r, f)
  BY <1>1
<1>3. PICK s \in Sock : s = conn[r]
  BY <1>t
<1>c. f = "chunked"
  BY <1>2, <1>t, LoopOf
<1>s. SUFFICES /\ InOrder(f, Rest(s)') /\ (Rest(s)' # <<>> => Rest(s)'[1].what \in Expects(f, "crlf"))
               /\ Owed(s, r)' + Count(r, "chunk")' = Owed(s, r) + Count(r, "chunk")
  <2>1. inbox'[s] = <<>> /\ keep'[r] = KeepAlive(f) /\ s = conn'[r] /\ InLoop(f, pc'[r])
    BY <1>2, <1>3, <1>c, <1>t, <1>u DEF Remains, InLoop
  <2>2. s \notin broken' => Owed(s, r)' + Count(r, "chunk")' = MaxData
    BY <1>2, <1>3, <1>c, <1>s, <1>u DEF Remains
  <2>3. Remains(r, f)'
    BY <1>c, <1>s, <1>u, <2>1, <2>2, Remained
  <2> QED
    BY <1>u, <2>3 DEF InStep, Consuming
<1>4. CASE Readable(r, {"data"}) /\ Take(r) /\ Send(r, "chunk", Piece(r).of)
  <2>1. wire[conn[r]] # <<>> /\ Piece(r).what = "data"
    BY <1>4 DEF Readable
  <2>2. /\ InOrder(f, Rest(s)')
        /\ Rest(s)' # <<>> => Rest(s)'[1].what \in Behind(f, Piece(r).what)
    BY <1>2, <1>3, <1>4, <1>t, <1>u, <2>1, ReadInOrder
  <2>3. Behind(f, "data") = Expects(f, "crlf")
    BY <1>c DEF Behind, Expects
  <2>4. Owed(s, r)' + Count(r, "chunk")' = Owed(s, r) + Count(r, "chunk")
    BY <1>1, <1>2, <1>3, <1>4, <1>t, <1>u, <2>1, DataRead
  <2> QED
    BY <2>1, <2>2, <2>3, <2>4
<1>5. CASE EndOfInput(r) /\ UNCHANGED <<wire, frames>>
  <2>1. Rest(s) = <<>>
    BY <1>2, <1>3, <1>5, <1>t, EndKnows
  <2>2. Rest(s)' = Rest(s) /\ Owed(s, r)' = Owed(s, r) /\ Count(r, "chunk")' = Count(r, "chunk")
    BY <1>5, <1>u DEF Rest, Owed, Count, DataOf
  <2> QED
    BY <2>1, <2>2 DEF InOrder
<1> QED
  BY <1>4, <1>5 DEF ReadChunk

LEMMA CrlfStep ==
  ASSUME TypeOK, SocksRight, NEW r \in Reqs, FramesRight(r), UserRight(r), ReadCrlf(r)
  PROVE  InStepStill(r)'
<1> USE LocalPoolAssumption
<1>t. /\ pc \in [Reqs -> Spots] /\ conn[r] \in Sock /\ pc[r] = "crlf" /\ pc[r] \in Holding
      /\ pc[r] \in Consuming
  BY DEF TypeOK, Spots, ReadCrlf, SocksRight, Holding, Consuming
<1>u. UNCHANGED <<conn, broken, inbox, answering, svc, keep, left, frames>> /\ pc'[r] = "size"
  BY <1>t DEF ReadCrlf, svcVars, Goto
<1>v. cut \subseteq cut'
  BY DEF ReadCrlf
<1> SUFFICES ASSUME conn[r] \notin cut' PROVE InStep(r)'
  BY <1>u DEF InStepStill
<1>1. OnlyOf(conn[r], r) /\ \E f \in Framings : Remains(r, f)
  BY <1>t, <1>v, ReaderKnows
<1>2. PICK f \in Framings : Remains(r, f)
  BY <1>1
<1>3. PICK s \in Sock : s = conn[r]
  BY <1>t
<1>c. f = "chunked"
  BY <1>2, <1>t, LoopOf
<1>k. Count(r, "chunk")' = Count(r, "chunk") /\ Count(r, "chunk") \in Nat
  BY <1>u, CountType DEF Count
<1>s. SUFFICES /\ InOrder(f, Rest(s)') /\ (Rest(s)' # <<>> => Rest(s)'[1].what \in Expects(f, "size"))
               /\ Owed(s, r)' = Owed(s, r)
  <2>1. inbox'[s] = <<>> /\ keep'[r] = KeepAlive(f) /\ s = conn'[r] /\ InLoop(f, pc'[r])
    BY <1>2, <1>3, <1>c, <1>t, <1>u DEF Remains, InLoop
  <2>2. s \notin broken' => Owed(s, r)' + Count(r, "chunk")' = MaxData
    BY <1>2, <1>3, <1>c, <1>k, <1>s, <1>u DEF Remains
  <2>3. Remains(r, f)'
    BY <1>c, <1>s, <1>u, <2>1, <2>2, Remained
  <2> QED
    BY <1>u, <2>3 DEF InStep, Consuming
<1>b. /\ Behind(f, "crlf") = Expects(f, "size") /\ Behind(f, "lf") = Expects(f, "size")
      /\ Behind(f, "cr") = {"lf"}
  BY <1>c DEF Behind, Expects
<1>4. CASE Readable(r, {"crlf"}) /\ Take(r)
  <2>1. wire[conn[r]] # <<>> /\ Piece(r).what = "crlf"
    BY <1>4 DEF Readable
  <2>2. /\ InOrder(f, Rest(s)')
        /\ Rest(s)' # <<>> => Rest(s)'[1].what \in Behind(f, Piece(r).what)
    BY <1>2, <1>3, <1>4, <1>t, <1>u, <2>1, ReadInOrder
  <2>3. Owed(s, r)' = Owed(s, r)
    <3>1. Piece(r) # DataOf(r)
      BY <2>1 DEF DataOf
    <3> QED
      BY <1>3, <1>4, <1>t, <1>u, <2>1, <3>1, ReadPiece
  <2> QED
    BY <1>b, <2>1, <2>2, <2>3
<1>5. CASE /\ Readable(r, {"cr"}) /\ Len(wire[conn[r]]) > 1
           /\ wire' = [wire EXCEPT ![conn[r]] = Tail(Tail(@))]
  <2>1. PICK w \in Seq(PieceSet) : w = wire[s] /\ w # <<>> /\ Len(w) > 1 /\ w[1].what = "cr"
    <3>1. wire[s] \in Seq(PieceSet) /\ wire[s] # <<>> /\ Piece(r) = wire[s][1] /\ Piece(r).what = "cr"
      BY <1>3, <1>5, <1>t, NextPiece DEF Readable
    <3> QED
      BY <1>3, <1>5, <3>1
  <2>2. PICK a \in Seq(PieceSet) : a = answering[s]
    BY DEF TypeOK
  <2>3. PICK w1 \in Seq(PieceSet) : w1 = Tail(w) /\ w1 # <<>>
    <3>1. Tail(w) \in Seq(PieceSet) /\ Len(Tail(w)) = Len(w) - 1 /\ Len(w) \in Nat
      BY <2>1, TailOf
    <3>2. PICK t \in Seq(PieceSet) : t = Tail(w)
      BY <3>1
    <3>3. Len(t) > 0
      BY <2>1, <3>1, <3>2
    <3>4. t # <<>>
      BY <3>3
    <3> QED
      BY <3>2, <3>4
  <2>4. PICK w2 \in Seq(PieceSet) : w2 = Tail(w1)
    BY <2>3, TailOf
  <2>5. wire'[s] = w2 /\ answering'[s] = a
    BY <1>3, <1>5, <1>u, <2>1, <2>2, <2>3, <2>4 DEF TypeOK
  <2>6. PICK z \in Seq(PieceSet) : z = w \o a
    BY <2>1, <2>2, CatParts
  <2>7. PICK z1 \in Seq(PieceSet) : z1 = w1 \o a
    BY <2>2, <2>3, CatParts
  <2>8. z1 = Tail(z) /\ z # <<>> /\ z[1] = w[1]
    <3>0. w \in Seq(PieceSet) /\ w # <<>> /\ a \in Seq(PieceSet)
      BY <2>1, <2>2
    <3>1. Tail(w) \o a = Tail(w \o a) /\ w \o a # <<>> /\ (w \o a)[1] = w[1]
      BY <3>0, CatTail, SMTT(30)
    <3> QED
      BY <2>3, <2>6, <2>7, <3>1, Zenon
  <2>9. w2 \o a = Tail(z1) /\ z1 # <<>> /\ z1[1] = w1[1]
    <3>0. w1 \in Seq(PieceSet) /\ w1 # <<>> /\ a \in Seq(PieceSet)
      BY <2>2, <2>3
    <3>1. Tail(w1) \o a = Tail(w1 \o a) /\ w1 \o a # <<>> /\ (w1 \o a)[1] = w1[1]
      BY <3>0, CatTail, SMTT(30)
    <3> QED
      BY <2>4, <2>7, <3>1, Zenon
  <2>10. Rest(s) = z /\ Rest(s)' = Tail(z1)
    BY <2>1, <2>2, <2>5, <2>6, <2>9 DEF Rest
  <2>11. InOrder(f, z)
    BY <1>2, <1>3, <2>10 DEF Remains, Fits
  <2>12. InOrder(f, z1) /\ z1[1].what \in Behind(f, z[1].what)
    BY <2>6, <2>8, <2>9, <2>11, InOrderTail
  <2>13. InOrder(f, Tail(z1)) /\ (Tail(z1) # <<>> => Tail(z1)[1].what \in Behind(f, z1[1].what))
    BY <2>7, <2>9, <2>12, InOrderTail
  <2>14. w1[1].what = "lf"
    BY <1>b, <2>1, <2>8, <2>9, <2>12
  <2>15. Owed(s, r)' = Owed(s, r)
    <3>1. w[1] # DataOf(r) /\ w1[1] # DataOf(r)
      BY <2>1, <2>14 DEF DataOf
    <3>2. Head(w) = w[1] /\ Head(w1) = w1[1]
      BY <2>1, <2>3, TailOf
    <3>3. Occurs(w, DataOf(r)) = Occurs(w1, DataOf(r))
      BY <2>1, <2>3, <3>1, <3>2, OccursInTail
    <3>4. Occurs(w1, DataOf(r)) = Occurs(w2, DataOf(r))
      BY <2>3, <2>4, <3>1, <3>2, OccursInTail
    <3> QED
      BY <2>1, <2>2, <2>5, <3>3, <3>4 DEF Owed, DataOf
  <2> QED
    BY <1>b, <2>9, <2>10, <2>13, <2>14, <2>15
<1>6. CASE cut' = cut \cup {conn[r]}
  BY <1>6
<1>7. CASE EndOfInput(r) /\ UNCHANGED wire
  <2>1. Rest(s) = <<>>
    BY <1>2, <1>3, <1>7, <1>t, EndKnows
  <2>2. Rest(s)' = Rest(s) /\ Owed(s, r)' = Owed(s, r)
    BY <1>7, <1>u DEF Rest, Owed, DataOf
  <2> QED
    BY <2>1, <2>2 DEF InOrder
<1> QED
  BY <1>4, <1>5, <1>6, <1>7 DEF ReadCrlf

LEMMA LengthStep ==
  ASSUME TypeOK, SocksRight, NEW r \in Reqs, FramesRight(r), UserRight(r), ReadLength(r)
  PROVE  InStepStill(r)'
<1> USE LocalPoolAssumption
<1>t. /\ pc \in [Reqs -> Spots] /\ conn[r] \in Sock /\ pc[r] = "length" /\ pc[r] \in Holding
      /\ pc[r] \in Consuming /\ left \in [Reqs -> 0 .. MaxData] /\ keep \in [Reqs -> BOOLEAN]
  BY DEF TypeOK, Spots, ReadLength, SocksRight, Holding, Consuming
<1>u. UNCHANGED <<conn, cut, broken, inbox, answering, svc>>
  BY DEF ReadLength, history, svcVars
<1> SUFFICES ASSUME conn[r] \notin cut
             PROVE  InStep(r)' /\ (pc'[r] = "end" /\ conn[r] \notin broken => Whole(r)')
  BY <1>u DEF InStepStill
<1>1. OnlyOf(conn[r], r) /\ \E f \in Framings : Remains(r, f)
  BY <1>t, ReaderKnows
<1>2. PICK f \in Framings : Remains(r, f)
  BY <1>1
<1>3. PICK s \in Sock : s = conn[r]
  BY <1>t
<1>c. f \in {"length", "length_close", "bodiless"}
  BY <1>2, <1>t, LoopOf
<1>l. left[r] + Count(r, "chunk") = MaxData /\ left[r] \in 1 .. MaxData /\ Count(r, "chunk") \in Nat
  BY <1>t, CountType DEF FramesRight
<1>4. CASE /\ Readable(r, {"data"}) /\ Take(r) /\ Send(r, "chunk", Piece(r).of)
           /\ left' = [left EXCEPT ![r] = @ - 1]
           /\ Goto(r, IF left[r] = 1 THEN "end" ELSE "length") /\ UNCHANGED keep
  <2>1. wire[conn[r]] # <<>> /\ Piece(r).what = "data"
    BY <1>4 DEF Readable
  <2>2. /\ Piece(r).what \in Expects(f, "length") /\ InOrder(f, Rest(s)')
        /\ Rest(s)' # <<>> => Rest(s)'[1].what \in Behind(f, Piece(r).what)
    BY <1>2, <1>3, <1>4, <1>t, <1>u, <2>1, ReadInOrder
  <2>3. f \in {"length", "length_close"} /\ Behind(f, "data") = Expects(f, "length")
    BY <1>c, <2>1, <2>2 DEF Behind, Expects
  <2>4. /\ Owed(s, r)' + Count(r, "chunk")' = Owed(s, r) + Count(r, "chunk")
        /\ Count(r, "chunk")' = Count(r, "chunk") + 1
    BY <1>1, <1>2, <1>3, <1>4, <1>t, <1>u, <2>1, DataRead
  <2>5. /\ Len(Rest(s)') = Len(Rest(s)) - 1 /\ Len(Rest(s)) \in Nat \ {0} /\ Rest(s)' \in Seq(PieceSet)
        /\ Rest(s)' = <<>> => wire'[s] = <<>> /\ answering'[s] = <<>>
    BY <1>3, <1>4, <1>t, <1>u, <2>1, ReadPiece
  <2>6. left'[r] = left[r] - 1 /\ pc'[r] = IF left[r] = 1 THEN "end" ELSE "length"
    BY <1>4, <1>t DEF Goto
  <2>7. inbox'[s] = <<>> /\ keep'[r] = KeepAlive(f) /\ s = conn'[r]
    BY <1>2, <1>3, <1>4, <1>t, <1>u DEF Remains
  <2>8. f = "length" => Len(Rest(s)) <= left[r]
    BY <1>2, <1>3, <1>t DEF Remains
  <2>9. CASE left[r] = 1
    <3>1. pc'[r] = "end"
      BY <2>6, <2>9
    <3>2. keep'[r] => Empty(conn[r])'
      <4> SUFFICES ASSUME keep'[r] PROVE Empty(conn[r])'
        OBVIOUS
      <4>1. f = "length"
        BY <2>3, <2>7 DEF KeepAlive
      <4>2. Len(Rest(s)') = 0
        BY <2>5, <2>8, <2>9, <4>1
      <4>3. Rest(s)' = <<>>
        BY <2>5, <4>2
      <4> QED
        BY <2>5, <2>7, <4>3 DEF Empty
    <3>3. Count(r, "chunk")' = MaxData
      BY <1>l, <2>4, <2>9
    <3> QED
      BY <3>1, <3>2, <3>3 DEF InStep, Consuming, Whole
  <2>10. CASE left[r] # 1
    <3>1. pc'[r] = "length"
      BY <2>6, <2>10
    <3>2. f = "length" => Len(Rest(s)') <= left'[r]
      BY <1>l, <2>5, <2>6, <2>8
    <3>3. s \notin broken' => Owed(s, r)' + Count(r, "chunk")' = MaxData
      BY <1>2, <1>3, <1>u, <2>3, <2>4 DEF Remains
    <3>4. Remains(r, f)'
      <4>1. InLoop(f, pc'[r]) /\ pc'[r] # "head" /\ f \notin {"bodiless", "bare"}
        BY <2>3, <3>1 DEF InLoop
      <4>2. Rest(s)' # <<>> => Rest(s)'[1].what \in Expects(f, pc'[r])
        BY <2>1, <2>2, <2>3, <3>1
      <4> QED
        BY <2>2, <2>7, <3>2, <3>3, <4>1, <4>2, Remained
    <3> QED
      BY <3>1, <3>4 DEF InStep, Consuming
  <2> QED
    BY <2>9, <2>10
<1>5. CASE /\ EndOfInput(r) /\ keep' = [keep EXCEPT ![r] = FALSE] /\ Goto(r, "end")
           /\ UNCHANGED <<wire, left, frames>>
  <2>1. pc'[r] = "end" /\ ~keep'[r] /\ svc'[conn'[r]] = "closed"
    BY <1>5, <1>t, <1>u DEF Goto, EndOfInput
  <2>2. conn[r] \notin broken => Count(r, "chunk") = IF f \in {"bodiless", "bare"} THEN 0 ELSE MaxData
    BY <1>2, <1>5, <1>t, EndKnows
  <2>3. Count(r, "chunk")' = Count(r, "chunk") /\ left'[r] = left[r]
    BY <1>5 DEF Count
  <2>4. conn[r] \notin broken => Count(r, "chunk")' \in {0, MaxData}
    BY <2>2, <2>3
  <2> QED
    BY <2>1, <2>4 DEF InStep, Consuming, Whole
<1> QED
  BY <1>4, <1>5 DEF ReadLength

LEMMA StreamStep ==
  ASSUME TypeOK, SocksRight, NEW r \in Reqs, FramesRight(r), UserRight(r), ReadStream(r),
         \A i \in 1 .. Len(wire[conn[r]]) : wire[conn[r]][i].what # "fin"
  PROVE  InStepStill(r)'
<1> USE LocalPoolAssumption
<1>t. /\ pc \in [Reqs -> Spots] /\ conn[r] \in Sock /\ pc[r] = "stream" /\ pc[r] \in Holding
      /\ pc[r] \in Consuming /\ keep \in [Reqs -> BOOLEAN]
  BY DEF TypeOK, Spots, ReadStream, SocksRight, Holding, Consuming
<1>u. UNCHANGED <<conn, cut, broken, inbox, answering, svc, left>>
  BY DEF ReadStream, history, svcVars
<1> SUFFICES ASSUME conn[r] \notin cut
             PROVE  InStep(r)' /\ (pc'[r] = "end" /\ conn[r] \notin broken => Whole(r)')
  BY <1>u DEF InStepStill
<1>1. OnlyOf(conn[r], r) /\ \E f \in Framings : Remains(r, f)
  BY <1>t, ReaderKnows
<1>2. PICK f \in Framings : Remains(r, f)
  BY <1>1
<1>3. PICK s \in Sock : s = conn[r]
  BY <1>t
<1>c. f \in {"until_close", "bare"}
  BY <1>2, <1>t, LoopOf
<1>4. CASE /\ wire[conn[r]] # <<>> /\ Take(r) /\ Send(r, "chunk", Piece(r).of)
           /\ UNCHANGED <<pc, keep>>
  <2>1. Piece(r).what # "fin"
    <3>1. Piece(r) = wire[conn[r]][1] /\ wire[conn[r]] \in Seq(PieceSet)
      BY <1>4, <1>t, NextPiece
    <3>2. 1 \in 1 .. Len(wire[conn[r]])
      BY <1>4, <3>1, TailOf
    <3> QED
      BY <3>1, <3>2
  <2>2. /\ Piece(r).what \in Expects(f, "stream") /\ InOrder(f, Rest(s)')
        /\ Rest(s)' # <<>> => Rest(s)'[1].what \in Behind(f, Piece(r).what)
    BY <1>2, <1>3, <1>4, <1>t, <1>u, ReadInOrder
  <2>3. f = "until_close" /\ Piece(r).what = "data" /\ Behind(f, "data") = Expects(f, "stream")
    BY <1>c, <2>1, <2>2 DEF Behind, Expects
  <2>4. Owed(s, r)' + Count(r, "chunk")' = Owed(s, r) + Count(r, "chunk")
    BY <1>1, <1>2, <1>3, <1>4, <1>t, <1>u, <2>3, DataRead
  <2>5. inbox'[s] = <<>> /\ keep'[r] = KeepAlive(f) /\ s = conn'[r] /\ pc'[r] = "stream"
    BY <1>2, <1>3, <1>4, <1>t, <1>u DEF Remains
  <2>6. s \notin broken' => Owed(s, r)' + Count(r, "chunk")' = MaxData
    BY <1>2, <1>3, <1>u, <2>3, <2>4 DEF Remains
  <2>7. Remains(r, f)'
    <3>1. InLoop(f, pc'[r]) /\ pc'[r] # "head" /\ f \notin {"bodiless", "bare"} /\ f # "length"
      BY <2>3, <2>5 DEF InLoop
    <3>2. Rest(s)' # <<>> => Rest(s)'[1].what \in Expects(f, pc'[r])
      BY <2>2, <2>3, <2>5
    <3> QED
      BY <2>2, <2>5, <2>6, <3>1, <3>2, Remained
  <2> QED
    BY <2>5, <2>7 DEF InStep, Consuming
<1>5. CASE /\ EndOfInput(r) /\ keep' = [keep EXCEPT ![r] = FALSE] /\ Goto(r, "end")
           /\ UNCHANGED <<wire, frames>>
  <2>1. pc'[r] = "end" /\ ~keep'[r] /\ svc'[conn'[r]] = "closed"
    BY <1>5, <1>t, <1>u DEF Goto, EndOfInput
  <2>2. conn[r] \notin broken => Count(r, "chunk") \in {0, MaxData}
    BY <1>2, <1>5, <1>t, EndKnows
  <2>3. Count(r, "chunk")' = Count(r, "chunk")
    BY <1>5 DEF Count
  <2> QED
    BY <2>1, <2>2, <2>3 DEF InStep, Consuming, Whole
<1> QED
  BY <1>4, <1>5 DEF ReadStream

\* A connection that is empty is right for whoever takes it.
LEMMA FreshConn ==
  ASSUME NEW r \in Reqs, pc'[r] = "write", Empty(conn[r])'
  PROVE  UserRight(r)'
<1>1. OnlyOf(conn[r], r)'
  BY DEF OnlyOf, AllOf, Empty
<1>2. InStep(r)'
  BY DEF InStep, Consuming
<1> QED
  BY <1>1, <1>2 DEF UserRight

\* What is read stays of the request it was of.
LEMMA OnlyOfTail ==
  ASSUME TypeOK, SocksRight, NEW r \in Reqs, pc[r] \in Holding, OnlyOf(conn[r], r),
         UNCHANGED <<conn, inbox, answering>>,
         \/ UNCHANGED wire
         \/ wire[conn[r]] # <<>> /\ Take(r)
         \/ /\ Len(wire[conn[r]]) > 1
            /\ wire' = [wire EXCEPT ![conn[r]] = Tail(Tail(@))]
  PROVE  OnlyOf(conn[r], r)'
<1>t. conn[r] \in Sock /\ wire[conn[r]] \in Seq(PieceSet) /\ wire \in [Sock -> Seq(PieceSet)]
  BY DEF TypeOK, SocksRight
<1>1. PICK w \in Seq(PieceSet) : w = wire[conn[r]]
  BY <1>t
<1>2. \A i \in 1 .. Len(w) : w[i].of = r
  BY <1>1 DEF OnlyOf, AllOf
<1>3. ASSUME NEW z \in Seq(PieceSet), z # <<>>, \A i \in 1 .. Len(z) : z[i].of = r
      PROVE  Tail(z) \in Seq(PieceSet) /\ \A i \in 1 .. Len(Tail(z)) : Tail(z)[i].of = r
  <2>1. /\ Tail(z) \in Seq(PieceSet) /\ Len(Tail(z)) = Len(z) - 1 /\ Len(z) \in Nat \ {0}
        /\ \A i \in 1 .. Len(z) - 1 : Tail(z)[i] = z[i + 1]
    BY <1>3, TailOf
  <2>2. \A i \in 1 .. Len(Tail(z)) : i + 1 \in 1 .. Len(z) /\ Tail(z)[i] = z[i + 1]
    BY <2>1
  <2> QED
    BY <1>3, <2>1, <2>2
<1>4. \A i \in 1 .. Len(wire'[conn[r]]) : wire'[conn[r]][i].of = r
  <2>1. CASE UNCHANGED wire
    BY <1>1, <1>2, <2>1
  <2>2. CASE wire[conn[r]] # <<>> /\ Take(r)
    <3>1. wire'[conn[r]] = Tail(w) /\ w # <<>>
      BY <1>1, <2>2, Taken
    <3> QED
      BY <1>1, <1>2, <1>3, <3>1
  <2>3. CASE /\ Len(wire[conn[r]]) > 1
             /\ wire' = [wire EXCEPT ![conn[r]] = Tail(Tail(@))]
    <3>1. w # <<>> /\ Len(w) > 1
      BY <1>1, <2>3
    <3>2. PICK x \in Seq(PieceSet) : x = Tail(w)
      BY <1>1, <3>1, TailOf
    <3>3. Len(x) = Len(w) - 1 /\ Len(w) \in Nat
      BY <1>1, <3>1, <3>2, TailOf
    <3>4. Len(x) > 0
      BY <3>1, <3>3
    <3>5. x # <<>>
      BY <3>4
    <3>6. \A i \in 1 .. Len(x) : x[i].of = r
      BY <1>1, <1>2, <1>3, <3>1, <3>2
    <3>7. wire'[conn[r]] = Tail(x)
      BY <1>1, <1>t, <2>3, <3>2
    <3> QED
      BY <1>3, <3>2, <3>5, <3>6, <3>7
  <2> QED
    BY <2>1, <2>2, <2>3
<1> QED
  BY <1>4 DEF OnlyOf, AllOf

Reads(r) ==
  \/ ReadHead(r) \/ ReadJunkHead(r) \/ ReadSize(r) \/ ReadChunk(r) \/ ReadCrlf(r)
  \/ ReadLength(r) \/ ReadStream(r)

\* What all reading steps have in common.
LEMMA ReadsAlike ==
  ASSUME NEW r \in Reqs, Reads(r)
  PROVE  /\ pc[r] \in Holding /\ pc[r] \in Consuming \cup {"head"}
         /\ UNCHANGED <<idle, conn, inbox, answering, reused, svc, broken>>
         /\ cut \subseteq cut'
         /\ \/ UNCHANGED wire
            \/ wire[conn[r]] # <<>> /\ Take(r)
            \/ /\ Len(wire[conn[r]]) > 1
               /\ wire' = [wire EXCEPT ![conn[r]] = Tail(Tail(@))]
<1>1. pc[r] \in Holding /\ pc[r] \in Consuming \cup {"head"}
  BY DEF Reads, ReadHead, ReadJunkHead, ReadSize, ReadChunk, ReadCrlf, ReadLength, ReadStream, Holding, Consuming
<1>2. UNCHANGED <<idle, conn, inbox, answering, reused, svc, broken>>
  BY DEF Reads, ReadHead, ReadJunkHead, ReadSize, ReadChunk, ReadCrlf, ReadLength, ReadStream, poolVars, svcVars, history
<1>3. cut \subseteq cut'
  BY DEF Reads, ReadHead, ReadJunkHead, ReadSize, ReadChunk, ReadCrlf, ReadLength, ReadStream, history
<1>4. \/ UNCHANGED wire
      \/ wire[conn[r]] # <<>> /\ Take(r)
      \/ /\ Len(wire[conn[r]]) > 1
         /\ wire' = [wire EXCEPT ![conn[r]] = Tail(Tail(@))]
  BY DEF Reads, ReadHead, ReadJunkHead, ReadSize, ReadChunk, ReadCrlf, ReadLength, ReadStream, Readable
<1> QED
  BY <1>1, <1>2, <1>3, <1>4

LEMMA ReadsRight ==
  ASSUME TypeOK, SocksRight, NEW r \in Reqs, FramesRight(r), UserRight(r), Reads(r),
         \A i \in 1 .. Len(wire[conn[r]]) : wire[conn[r]][i].what # "fin"
  PROVE  UserRight(r)' /\ InStepStill(r)'
<1>1. InStepStill(r)'
  BY HeadStep, JunkStep, SizeStep, ChunkStep, CrlfStep, LengthStep, StreamStep DEF Reads
<1>2. OnlyOf(conn[r], r) => OnlyOf(conn[r], r)'
  BY ReadsAlike, OnlyOfTail
<1>3. OnlyOf(conn[r], r) \/ (reused[r] /\ conn[r] \in cut)
  BY ReadsAlike DEF UserRight
<1>4. UNCHANGED <<conn, reused>> /\ cut \subseteq cut'
  BY ReadsAlike
<1> QED
  BY <1>1, <1>2, <1>3, <1>4 DEF UserRight, InStepStill

\* The other steps of a worker.
LEMMA UserStep ==
  ASSUME TypeOK, SocksRight, NEW r \in Reqs, FramesRight(r), WireRight, Worker(r)
  PROVE  UserRight(r)'
<1>t. /\ pc \in [Reqs -> Spots] /\ idle \in Seq(Sock) /\ Len(idle) \in Nat
      /\ conn \in [Reqs -> Sock \cup {NoSock}] /\ reused \in [Reqs -> BOOLEAN]
      /\ svc \in [Sock -> {"none", "open", "closed"}] /\ inbox \in [Sock -> Seq(Reqs)]
  BY DEF TypeOK, Spots
<1>n. pc'[r] \notin Holding => UserRight(r)'
  BY DEF UserRight
<1>u. UserRight(r)
  BY DEF WireRight
<1>1. CASE Acquire(r)
  <2>1. /\ idle # <<>> /\ pc'[r] = "write" /\ conn'[r] = idle[Len(idle)] /\ reused'[r]
        /\ UNCHANGED <<inbox, answering, wire, cut>>
    BY <1>1, <1>t DEF Acquire, Goto, svcVars, history
  <2>2. Len(idle) \in 1 .. Len(idle)
    BY <1>t, <2>1
  <2>3. conn'[r] \notin cut => Empty(conn'[r])
    BY <2>1, <2>2 DEF WireRight
  <2>4. conn'[r] \notin cut => Empty(conn[r])'
    BY <2>1, <2>3 DEF Empty
  <2>5. CASE conn'[r] \notin cut
    BY <2>1, <2>4, <2>5, FreshConn
  <2>6. CASE conn'[r] \in cut
    BY <2>1, <2>6 DEF UserRight
  <2> QED
    BY <2>5, <2>6
<1>2. CASE AcquireNone(r) \/ ConnectFails(r) \/ Fail(r) \/ Release(r)
  <2>1. pc'[r] \notin Holding
    BY <1>2, <1>t DEF AcquireNone, ConnectFails, Fail, Release, Goto, Holding
  <2> QED
    BY <1>n, <2>1
<1>3. CASE Connect(r)
  <2>1. PICK s \in Sock : svc[s] = "none" /\ conn' = [conn EXCEPT ![r] = s]
    BY <1>3 DEF Connect
  <2>2. conn'[r] = s /\ pc'[r] = "write" /\ UNCHANGED <<inbox, answering, wire>>
    BY <1>3, <1>t, <2>1 DEF Connect, Goto
  <2>3. Empty(s)
    BY <2>1 DEF SocksRight, Empty
  <2>4. Empty(conn[r])'
    BY <2>2, <2>3 DEF Empty
  <2> QED
    BY <2>2, <2>4, FreshConn
<1>4. CASE Write(r)
  <2>1. PICK s \in Sock : s = conn[r]
    BY <1>4 DEF Write, SocksRight, Holding
  <2>2. /\ pc[r] = "write" /\ pc'[r] = "head" /\ UNCHANGED <<conn, answering, wire, cut, reused>>
        /\ inbox' = IF svc[s] = "open" THEN [inbox EXCEPT ![s] = Append(@, r)] ELSE inbox
    BY <1>4, <1>t, <2>1 DEF Write, Goto, history
  <2>3. PICK b \in Seq(Reqs) : b = inbox[s]
    BY <1>t
  <2>4. inbox'[s] = Append(b, r) \/ inbox'[s] = b
    BY <1>t, <2>2, <2>3
  <2>5. ASSUME OnlyOf(s, r) PROVE OnlyOf(s, r)'
    <3>1. \A i \in 1 .. Len(b) : b[i] = r
      BY <2>3, <2>5 DEF OnlyOf
    <3>2. \A i \in 1 .. Len(inbox'[s]) : inbox'[s][i] = r
      BY <2>4, <3>1
    <3> QED
      BY <2>2, <2>5, <3>2 DEF OnlyOf, AllOf
  <2>6. ASSUME s \notin cut PROVE InStep(r)'
    <3>1. wire'[s] = <<>> /\ answering'[s] = <<>> /\ b = <<>>
      BY <1>u, <2>1, <2>2, <2>3, <2>6 DEF UserRight, InStep, Empty, Holding
    <3>2. inbox'[s] = <<r>> \/ inbox'[s] = <<>>
      BY <2>4, <3>1
    <3> QED
      BY <2>1, <2>2, <3>1, <3>2 DEF InStep, Empty, Consuming
  <2>7. OnlyOf(s, r) \/ (reused[r] /\ s \in cut)
    BY <1>u, <2>1, <2>2 DEF UserRight, Holding
  <2>8. OnlyOf(s, r)' => OnlyOf(conn[r], r)'
    BY <2>1, <2>2
  <2> QED
    BY <2>1, <2>2, <2>5, <2>6, <2>7, <2>8 DEF UserRight
<1>5. CASE End(r)
  <2>1. /\ pc[r] = "end" /\ pc'[r] = "release"
        /\ UNCHANGED <<conn, keep, inbox, answering, wire, cut, reused>>
    BY <1>5, <1>t DEF End, Goto, svcVars, history
  <2>2. /\ OnlyOf(conn[r], r) \/ (reused[r] /\ conn[r] \in cut)
        /\ conn[r] \notin cut => InStep(r)
    BY <1>u, <2>1 DEF UserRight, Holding
  <2>3. OnlyOf(conn[r], r) => OnlyOf(conn[r], r)'
    BY <2>1 DEF OnlyOf
  <2>4. InStep(r) => InStep(r)'
    BY <2>1 DEF InStep, Empty, Consuming
  <2> QED
    BY <2>1, <2>2, <2>3, <2>4 DEF UserRight
<1>6. CASE Reads(r)
  <2>1. conn[r] \in Sock
    BY <1>6, ReadsAlike DEF SocksRight
  <2>2. \A i \in 1 .. Len(wire[conn[r]]) : wire[conn[r]][i].what # "fin"
    BY <2>1 DEF WireRight
  <2> QED
    BY <1>6, <1>u, <2>2, ReadsRight
<1> QED
  BY <1>1, <1>2, <1>3, <1>4, <1>5, <1>6 DEF Worker, Reads

\* Steps that leave a request and its connection alone.
LEMMA Untouched ==
  ASSUME NEW r \in Reqs, UserRight(r), pc'[r] = pc[r], frames'[r] = frames[r], left'[r] = left[r],
         reused'[r] = reused[r], conn'[r] = conn[r], keep'[r] = keep[r],
         pc[r] \in Holding => /\ wire'[conn[r]] = wire[conn[r]] /\ inbox'[conn[r]] = inbox[conn[r]]
                              /\ answering'[conn[r]] = answering[conn[r]],
         cut \subseteq cut', broken \subseteq broken'
  PROVE  UserRight(r)'
<1> SUFFICES ASSUME pc[r] \in Holding PROVE UserRight(r)'
  BY DEF UserRight
<1>1. OnlyOf(conn[r], r) => OnlyOf(conn[r], r)'
  BY DEF OnlyOf, AllOf
<1>2. Empty(conn[r])' <=> Empty(conn[r])
  BY DEF Empty
<1>3. ASSUME NEW f \in Framings, Remains(r, f) PROVE Remains(r, f)'
  <2>1. Rest(conn[r])' = Rest(conn[r]) /\ Owed(conn[r], r)' = Owed(conn[r], r)
    BY DEF Rest, Owed
  <2>2. Count(r, "chunk")' = Count(r, "chunk")
    BY DEF Count
  <2> QED
    BY <1>3, <2>1, <2>2 DEF Remains, Fits
<1>4. InStep(r) => InStep(r)'
  BY <1>2, <1>3 DEF InStep
<1> QED
  BY <1>1, <1>4 DEF UserRight

\* A worker leaves the other requests alone.
LEMMA OthersKept ==
  ASSUME TypeOK, SocksRight, NEW r \in Reqs, Worker(r), NEW u \in Reqs, u # r, UserRight(u)
  PROVE  UserRight(u)'
<1>t. inbox \in [Sock -> Seq(Reqs)] /\ wire \in [Sock -> Seq(PieceSet)]
  BY DEF TypeOK
<1>1. /\ pc'[u] = pc[u] /\ frames'[u] = frames[u] /\ left'[u] = left[u]
      /\ reused'[u] = reused[u] /\ conn'[u] = conn[u] /\ keep'[u] = keep[u]
  BY WorkerAlone
<1>2. cut \subseteq cut' /\ broken \subseteq broken'
  <2>1. CASE Reads(r)
    BY <2>1, ReadsAlike
  <2>2. CASE ~Reads(r)
    BY <2>2 DEF Worker, Reads, Acquire, AcquireNone, Connect, ConnectFails, Write, Fail, End, Release, history
  <2> QED
    BY <2>1, <2>2
<1>3. ASSUME pc[u] \in Holding
      PROVE  /\ wire'[conn[u]] = wire[conn[u]] /\ inbox'[conn[u]] = inbox[conn[u]]
             /\ answering'[conn[u]] = answering[conn[u]]
  <2>1. conn[u] \in Sock /\ (pc[r] \in Holding => conn[r] # conn[u] /\ conn[r] \in Sock)
    BY <1>3 DEF SocksRight
  <2>2. CASE Reads(r)
    <3>1. conn[r] # conn[u] /\ UNCHANGED <<inbox, answering>>
      BY <2>1, <2>2, ReadsAlike
    <3>2. wire' = wire \/ wire' = [wire EXCEPT ![conn[r]] = Tail(@)]
            \/ wire' = [wire EXCEPT ![conn[r]] = Tail(Tail(@))]
      BY <2>2, ReadsAlike DEF Take
    <3> QED
      BY <1>t, <2>1, <3>1, <3>2
  <2>3. CASE Write(r)
    <3>1. pc[r] \in Holding /\ UNCHANGED <<wire, answering>>
      BY <2>3 DEF Write, Holding
    <3>2. inbox' = inbox \/ inbox' = [inbox EXCEPT ![conn[r]] = Append(@, r)]
      BY <2>3 DEF Write
    <3> QED
      BY <1>t, <2>1, <3>1, <3>2
  <2>4. CASE ~Reads(r) /\ ~Write(r)
    BY <2>4 DEF Worker, Reads, Acquire, AcquireNone, Connect, ConnectFails, Fail, End, Release, svcVars
  <2> QED
    BY <2>2, <2>3, <2>4
<1> QED
  BY <1>1, <1>2, <1>3, Untouched

-----------------------------------------------------------------------------
(* The service.                                                            *)

Serves(s) == SvcTake(s) \/ SvcWrite(s) \/ SvcClose(s)

\* The service has nothing to do on an empty connection but to close it.
LEMMA EmptyStays ==
  ASSUME TypeOK, NEW s \in Sock, Empty(s), Serves(s) PROVE Empty(s)'
<1>1. inbox \in [Sock -> Seq(Reqs)] /\ answering \in [Sock -> Seq(PieceSet)]
  BY DEF TypeOK
<1>2. SvcClose(s)
  BY DEF Serves, SvcTake, SvcWrite, Empty
<1> QED
  BY <1>1, <1>2 DEF SvcClose, Shut, Empty

\* What the service does to a connection.
LEMMA Served ==
  ASSUME TypeOK, NEW s \in Sock, Serves(s)
  PROVE  /\ \A t \in Sock : t # s =>
              wire'[t] = wire[t] /\ inbox'[t] = inbox[t] /\ answering'[t] = answering[t]
         /\ \/ /\ SvcTake(s) /\ inbox[s] # <<>> /\ answering[s] = <<>> /\ wire'[s] = wire[s]
               /\ inbox'[s] = Tail(inbox[s]) /\ broken' = broken
               /\ \E f \in Framings : answering'[s] = Response(Head(inbox[s]), f)
            \/ /\ answering[s] # <<>> /\ Head(answering[s]).what = "fin" /\ broken' = broken
               /\ wire'[s] = wire[s] /\ inbox'[s] = <<>> /\ answering'[s] = <<>>
            \/ /\ answering[s] # <<>> /\ Head(answering[s]).what # "fin" /\ broken' = broken
               /\ wire'[s] = Append(wire[s], Head(answering[s]))
               /\ answering'[s] = Tail(answering[s]) /\ inbox'[s] = inbox[s]
            \/ /\ answering[s] # <<>> /\ Head(answering[s]).what = "crlf" /\ broken' = broken
               /\ wire'[s] = Append(wire[s], [what |-> "cr", of |-> Head(answering[s]).of])
               /\ answering'[s] = <<[what |-> "lf", of |-> Head(answering[s]).of]>> \o Tail(answering[s])
               /\ inbox'[s] = inbox[s]
            \/ /\ wire'[s] = wire[s] /\ inbox'[s] = <<>> /\ answering'[s] = <<>>
               /\ (answering[s] = <<>> /\ broken' = broken) \/ broken' = broken \cup {s}
<1>t. /\ inbox \in [Sock -> Seq(Reqs)] /\ answering \in [Sock -> Seq(PieceSet)]
      /\ wire \in [Sock -> Seq(PieceSet)]
  BY DEF TypeOK
<1>1. \A t \in Sock : t # s =>
        wire'[t] = wire[t] /\ inbox'[t] = inbox[t] /\ answering'[t] = answering[t]
  <2>1. CASE SvcTake(s)
    BY <1>t, <2>1 DEF SvcTake
  <2>2. CASE SvcWrite(s)
    BY <1>t, <2>2 DEF SvcWrite, Shut
  <2>3. CASE SvcClose(s)
    BY <1>t, <2>3 DEF SvcClose, Shut
  <2> QED
    BY <2>1, <2>2, <2>3 DEF Serves
<1>2. CASE SvcTake(s)
  <2>1. /\ SvcTake(s) /\ inbox[s] # <<>> /\ answering[s] = <<>> /\ wire'[s] = wire[s]
        /\ inbox'[s] = Tail(inbox[s]) /\ broken' = broken
    BY <1>2, <1>t DEF SvcTake, history
  <2>2. \E f \in Framings : answering'[s] = Response(Head(inbox[s]), f)
    BY <1>2, <1>t DEF SvcTake
  <2> QED
    BY <1>1, <2>1, <2>2
<1>3. CASE SvcWrite(s)
  <2>0. answering[s] # <<>> /\ broken' = broken
    BY <1>3 DEF SvcWrite, history
  <2>1. CASE Head(answering[s]).what = "fin" /\ Shut(s) /\ UNCHANGED wire
    BY <1>1, <1>t, <2>0, <2>1 DEF Shut
  <2>2. CASE /\ Head(answering[s]).what # "fin"
             /\ wire' = [wire EXCEPT ![s] = Append(@, Head(answering[s]))]
             /\ answering' = [answering EXCEPT ![s] = Tail(@)]
             /\ UNCHANGED <<svc, inbox>>
    BY <1>1, <1>t, <2>0, <2>2
  <2>3. CASE /\ Head(answering[s]).what = "crlf"
             /\ wire' = [wire EXCEPT ![s] = Append(@, [what |-> "cr", of |-> Head(answering[s]).of])]
             /\ answering' = [answering EXCEPT
                               ![s] = <<[what |-> "lf", of |-> Head(answering[s]).of]>> \o Tail(@)]
             /\ UNCHANGED <<svc, inbox>>
    BY <1>1, <1>t, <2>0, <2>3
  <2> QED
    BY <1>3, <2>1, <2>2, <2>3 DEF SvcWrite
<1>4. CASE SvcClose(s)
  BY <1>1, <1>4, <1>t DEF SvcClose, Shut
<1> QED
  BY <1>2, <1>3, <1>4 DEF Serves

LEMMA ResponseOf ==
  ASSUME NEW r \in Reqs, NEW f \in Framings, NEW R, R = Response(r, f) PROVE AllOf(R, r)
<1>1. /\ R \in Seq(PieceSet) /\ R # <<>> /\ R[1] = [what |-> f, of |-> r] /\ ShapeOf(R, f)
      /\ \A i \in 1 .. Len(R) : R[i].of = r
  BY Shape
<1> QED
  BY <1>1 DEF AllOf

\* A response is its request's, and so is what arrives of it.
LEMMA OnlyOfServed ==
  ASSUME TypeOK, NEW s \in Sock, Serves(s), NEW r \in Reqs, OnlyOf(s, r)
  PROVE  OnlyOf(s, r)'
<1>t. inbox[s] \in Seq(Reqs) /\ answering[s] \in Seq(PieceSet) /\ wire[s] \in Seq(PieceSet)
  BY DEF TypeOK
<1>1. PICK w \in Seq(PieceSet) : w = wire[s] /\ AllOf(w, r)
  BY <1>t DEF OnlyOf
<1>2. PICK a \in Seq(PieceSet) : a = answering[s] /\ AllOf(a, r)
  BY <1>t DEF OnlyOf
<1>3. PICK b \in Seq(Reqs) : b = inbox[s] /\ \A i \in 1 .. Len(b) : b[i] = r
  BY <1>t DEF OnlyOf
<1>e. AllOf(<<>>, r)
  BY DEF AllOf
<1>a. ASSUME NEW z \in Seq(PieceSet), AllOf(z, r), NEW p \in PieceSet, p.of = r
      PROVE  AllOf(Append(z, p), r)
  BY <1>a, Appended DEF AllOf
<1>b. a # <<>> => /\ Head(a) \in PieceSet /\ Head(a).of = r
                  /\ Tail(a) \in Seq(PieceSet) /\ AllOf(Tail(a), r)
  <2> SUFFICES ASSUME a # <<>>
               PROVE  /\ Head(a) \in PieceSet /\ Head(a).of = r
                      /\ Tail(a) \in Seq(PieceSet) /\ AllOf(Tail(a), r)
    OBVIOUS
  <2>1. /\ Tail(a) \in Seq(PieceSet) /\ Len(Tail(a)) = Len(a) - 1 /\ Len(a) \in Nat \ {0}
        /\ \A i \in 1 .. Len(a) - 1 : Tail(a)[i] = a[i + 1]
        /\ Head(a) = a[1] /\ Head(a) \in PieceSet
    BY TailOf
  <2>2. 1 \in 1 .. Len(a) /\ \A i \in 1 .. Len(Tail(a)) : i + 1 \in 1 .. Len(a) /\ Tail(a)[i] = a[i + 1]
    BY <2>1
  <2> QED
    BY <1>2, <2>1, <2>2 DEF AllOf
<1>c. ASSUME NEW z \in Seq(PieceSet), AllOf(z, r), NEW l \in PieceSet, l.of = r
      PROVE  AllOf(<<l>> \o z, r)
  <2>1. /\ Len(<<l>> \o z) = Len(z) + 1 /\ Len(z) \in Nat /\ (<<l>> \o z)[1] = l
        /\ \A i \in 1 .. Len(z) : (<<l>> \o z)[i + 1] = z[i]
    OBVIOUS
  <2>2. \A i \in 1 .. Len(z) + 1 : i = 1 \/ (i - 1 \in 1 .. Len(z) /\ (i - 1) + 1 = i)
    BY <2>1
  <2> QED
    BY <1>c, <2>1, <2>2 DEF AllOf
<1>4. CASE /\ b # <<>> /\ a = <<>> /\ wire'[s] = wire[s] /\ inbox'[s] = Tail(b)
           /\ \E f \in Framings : answering'[s] = Response(Head(b), f)
  <2>1. /\ Tail(b) \in Seq(Reqs) /\ Len(Tail(b)) = Len(b) - 1 /\ Len(b) \in Nat \ {0}
        /\ \A i \in 1 .. Len(b) - 1 : Tail(b)[i] = b[i + 1]
        /\ Head(b) = b[1]
    BY <1>4, TailOf
  <2>2. 1 \in 1 .. Len(b) /\ \A i \in 1 .. Len(Tail(b)) : i + 1 \in 1 .. Len(b) /\ Tail(b)[i] = b[i + 1]
    BY <2>1
  <2>3. Head(b) = r /\ \A i \in 1 .. Len(Tail(b)) : Tail(b)[i] = r
    BY <1>3, <2>1, <2>2
  <2>4. PICK f \in Framings : answering'[s] = Response(r, f)
    BY <1>4, <2>3
  <2>5. PICK R : R = answering'[s]
    OBVIOUS
  <2>6. AllOf(R, r)
    <3>1. R = Response(r, f)
      BY <2>4, <2>5
    <3> QED
      BY <3>1, ResponseOf
  <2> QED
    BY <1>1, <1>4, <2>3, <2>5, <2>6 DEF OnlyOf, AllOf
<1>5. CASE wire'[s] = wire[s] /\ inbox'[s] = <<>> /\ answering'[s] = <<>>
  BY <1>1, <1>5 DEF OnlyOf, AllOf
<1>6. CASE a # <<>> /\ wire'[s] = Append(w, Head(a)) /\ answering'[s] = Tail(a) /\ inbox'[s] = inbox[s]
  <2>1. AllOf(wire'[s], r) /\ AllOf(answering'[s], r)
    BY <1>1, <1>a, <1>b, <1>6
  <2> QED
    BY <1>3, <1>6, <2>1 DEF OnlyOf, AllOf
<1>7. CASE /\ a # <<>> /\ Head(a).what = "crlf" /\ inbox'[s] = inbox[s]
           /\ wire'[s] = Append(w, [what |-> "cr", of |-> Head(a).of])
           /\ answering'[s] = <<[what |-> "lf", of |-> Head(a).of]>> \o Tail(a)
  <2>1. Head(a).of = r
    BY <1>7, <1>b
  <2>h. /\ [what |-> "cr", of |-> Head(a).of] \in PieceSet
        /\ [what |-> "lf", of |-> Head(a).of] \in PieceSet
    BY <2>1 DEF PieceSet
  <2>2. PICK c \in PieceSet : c = [what |-> "cr", of |-> Head(a).of] /\ c.of = r
    BY <2>1, <2>h
  <2>3. PICK l \in PieceSet : l = [what |-> "lf", of |-> Head(a).of] /\ l.of = r
    BY <2>1, <2>h
  <2>4. wire'[s] = Append(w, c) /\ answering'[s] = <<l>> \o Tail(a)
    BY <1>7, <2>2, <2>3
  <2>5. AllOf(wire'[s], r) /\ AllOf(answering'[s], r)
    BY <1>1, <1>a, <1>b, <1>c, <1>7, <2>2, <2>3, <2>4
  <2> QED
    BY <1>3, <1>7, <2>5 DEF OnlyOf, AllOf
<1> QED
  BY <1>1, <1>2, <1>3, <1>4, <1>5, <1>6, <1>7, Served

\* What the service may do to the rest of a response.
LEMMA StillRemains ==
  ASSUME NEW r \in Reqs, NEW f \in Framings, Remains(r, f), NEW s \in Sock, s = conn[r],
         UNCHANGED <<pc, conn, keep, left, frames>>, inbox'[s] = <<>>,
         InOrder(f, Rest(s)'),
         Rest(s)' # <<>> => Rest(s)'[1].what \in Expects(f, pc[r]),
         f = "length" => Len(Rest(s)') <= IF pc[r] = "head" THEN MaxData + 1 ELSE left[r],
         s \in broken => s \in broken',
         s \notin broken' => Owed(s, r)' = Owed(s, r)
  PROVE  Remains(r, f)'
<1>1. Count(r, "chunk")' = Count(r, "chunk")
  BY DEF Count
<1>2. /\ InLoop(f, pc'[r]) /\ s = conn'[r]
      /\ Rest(s)' # <<>> => Rest(s)'[1].what \in Expects(f, pc'[r])
      /\ pc'[r] \in Consuming => keep'[r] = KeepAlive(f)
  BY DEF Remains
<1>3. f = "length" => Len(Rest(s)') <= IF pc'[r] = "head" THEN MaxData + 1 ELSE left'[r]
  OBVIOUS
<1>4. s \notin broken' => IF f \in {"bodiless", "bare"} THEN Owed(s, r)' = 0 /\ Count(r, "chunk")' = 0
                                            ELSE Owed(s, r)' + Count(r, "chunk")' = MaxData
  BY <1>1 DEF Remains
<1> QED
  BY <1>2, <1>3, <1>4, Remained

LEMMA CatNone ==
  ASSUME NEW S, NEW w \in Seq(S), NEW a \in Seq(S), a = <<>> PROVE w \o a = w
<1>1. PICK z \in Seq(S) : z = w \o a
  BY CatParts
<1>2. Len(z) = Len(w) + Len(a) /\ Len(w) \in Nat /\ \A i \in 1 .. Len(w) : z[i] = w[i]
  BY <1>1, CatParts
<1>3. Len(a) = 0
  OBVIOUS
<1>4. Len(z) = Len(w) /\ \A i \in 1 .. Len(z) : z[i] = w[i]
  BY <1>2, <1>3
<1> QED
  BY <1>1, <1>4, SameSeq

\* Nothing comes behind what closes the connection.
LEMMA FinLast ==
  ASSUME NEW f \in Framings, NEW w \in Seq(PieceSet), NEW a \in Seq(PieceSet), a # <<>>,
         InOrder(f, w \o a), Head(a).what = "fin"
  PROVE  Tail(a) = <<>>
<1>1. PICK z \in Seq(PieceSet) : z = w \o a
  BY CatParts
<1>2. /\ Len(z) = Len(w) + Len(a) /\ Len(w) \in Nat /\ Len(a) \in Nat
      /\ \A i \in 1 .. Len(a) : z[Len(w) + i] = a[i]
  BY <1>1, CatParts
<1>3. PICK t \in Seq(PieceSet) : t = Tail(a) /\ Len(t) = Len(a) - 1 /\ Len(a) # 0 /\ Head(a) = a[1]
  BY TailOf
<1>4. ~(Len(a) > 1)
  <2> SUFFICES ASSUME Len(a) > 1 PROVE FALSE
    OBVIOUS
  <2>1. /\ Len(w) + 1 \in 1 .. Len(z) - 1 /\ z[Len(w) + 1] = a[1]
    BY <1>2
  <2>2. z[(Len(w) + 1) + 1].what \in Behind(f, z[Len(w) + 1].what)
    BY <1>1, <2>1 DEF InOrder
  <2>3. z[Len(w) + 1].what = "fin"
    BY <1>3, <2>1
  <2>4. Behind(f, "fin") = {}
    BY LocalPoolAssumption DEF Behind
  <2> QED
    BY <2>2, <2>3, <2>4
<1>5. Len(t) = 0
  BY <1>2, <1>3, <1>4
<1>6. t = <<>>
  BY <1>5
<1> QED
  BY <1>3, <1>6

\* A piece that arrives is still owed, a CRLF in halves too.
LEMMA StillOwed ==
  ASSUME NEW r \in Reqs, NEW w \in Seq(PieceSet), NEW a \in Seq(PieceSet), a # <<>>,
         NEW D, D = DataOf(r)
  PROVE  /\ Occurs(Append(w, Head(a)), D) + Occurs(Tail(a), D) = Occurs(w, D) + Occurs(a, D)
         /\ Occurs(w, D) \in Nat /\ Occurs(Tail(a), D) \in Nat
         /\ Head(a) # D => Occurs(a, D) = Occurs(Tail(a), D)
<1>1. Head(a) \in PieceSet /\ Tail(a) \in Seq(PieceSet)
  BY TailOf
<1>2. PICK h \in PieceSet : h = Head(a)
  BY <1>1
<1>3. Occurs(Append(w, h), D) = IF h = D THEN Occurs(w, D) + 1 ELSE Occurs(w, D)
  BY OccursAppended
<1>4. Occurs(a, D) = IF h = D THEN Occurs(Tail(a), D) + 1 ELSE Occurs(Tail(a), D)
  BY <1>2, OccursInTail
<1>5. Occurs(w, D) \in Nat /\ Occurs(Tail(a), D) \in Nat
  BY <1>1, OccursType
<1> QED
  BY <1>2, <1>3, <1>4, <1>5

LEMMA SplitOwed ==
  ASSUME NEW r \in Reqs, NEW w \in Seq(PieceSet), NEW a \in Seq(PieceSet), a # <<>>,
         Head(a).what = "crlf", NEW c \in PieceSet, NEW l \in PieceSet,
         c.what = "cr", l.what = "lf", NEW D, D = DataOf(r)
  PROVE  Occurs(Append(w, c), D) + Occurs(<<l>> \o Tail(a), D) = Occurs(w, D) + Occurs(a, D)
<1>1. c # D /\ l # D /\ Head(a) # D
  BY DEF DataOf
<1>2. Tail(a) \in Seq(PieceSet)
  BY TailOf
<1>3. Occurs(Append(w, c), D) = Occurs(w, D)
  BY <1>1, OccursAppended
<1>4. Occurs(a, D) = Occurs(Tail(a), D)
  BY <1>1, OccursInTail
<1>t. PICK t \in Seq(PieceSet) : t = Tail(a)
  BY <1>2
<1>5. PICK y \in Seq(PieceSet) : y = <<l>> \o Tail(a)
  <2>1. <<l>> \in Seq(PieceSet)
    OBVIOUS
  <2> QED
    BY <1>t, <2>1, CatParts
<1>6. y # <<>> /\ Head(y) = l /\ Tail(y) = Tail(a)
  <2>2. /\ Len(y) = Len(t) + 1 /\ Len(t) \in Nat /\ y[1] = l
        /\ \A i \in 1 .. Len(t) : y[i + 1] = t[i]
    BY <1>5, <1>t
  <2>3. y # <<>>
    BY <2>2
  <2>1. PICK x \in Seq(PieceSet) : x = Tail(y)
    BY <2>3, TailOf
  <2>4. Len(x) = Len(y) - 1 /\ Head(y) = y[1] /\ \A i \in 1 .. Len(y) - 1 : x[i] = y[i + 1]
    BY <2>1, <2>3, TailOf
  <2>5. Len(x) = Len(t) /\ \A i \in 1 .. Len(x) : x[i] = t[i]
    BY <2>2, <2>4
  <2>6. x = t
    BY <2>5, SameSeq
  <2> QED
    BY <1>t, <2>1, <2>2, <2>3, <2>4, <2>6
<1>7. Occurs(y, D) = Occurs(Tail(a), D)
  BY <1>1, <1>6, OccursInTail
<1> QED
  BY <1>3, <1>4, <1>5, <1>7

\* Where a CRLF may be.
LEMMA CrlfExpected ==
  ASSUME NEW f \in Framings, NEW at, InLoop(f, at), "crlf" \in Expects(f, at)
  PROVE  at = "crlf" /\ f = "chunked"
BY LocalPoolAssumption DEF InLoop, Expects

LEMMA CrlfBehind ==
  ASSUME NEW f \in Framings, NEW x, "crlf" \in Behind(f, x) PROVE f = "chunked"
BY LocalPoolAssumption DEF Behind

\* The rest of a response stays one, whatever the service does next.
LEMMA RemainsServed ==
  ASSUME TypeOK, NEW s \in Sock, Serves(s), NEW r \in Reqs, s = conn[r],
         NEW f \in Framings, Remains(r, f)
  PROVE  Remains(r, f)'
<1>1. PICK w \in Seq(PieceSet) : w = wire[s]
  BY DEF TypeOK
<1>2. PICK a \in Seq(PieceSet) : a = answering[s]
  BY DEF TypeOK
<1>3. PICK z \in Seq(PieceSet) : z = w \o a
  BY CatParts
<1>4. /\ InOrder(f, z) /\ inbox[s] = <<>>
      /\ z # <<>> => z[1].what \in Expects(f, pc[r])
      /\ f = "length" => Len(z) <= IF pc[r] = "head" THEN MaxData + 1 ELSE left[r]
  BY <1>1, <1>2, <1>3 DEF Remains, Fits, Rest
<1>5. UNCHANGED <<pc, conn, keep, left, frames>>
  BY ServiceAlone DEF Serves
<1>l. /\ Len(z) \in Nat /\ Len(w) \in Nat /\ Len(a) \in Nat /\ Len(z) = Len(w) + Len(a)
      /\ MaxData \in Nat /\ left[r] \in Nat
  <2>1. left[r] \in Nat
    BY LocalPoolAssumption DEF TypeOK
  <2> QED
    BY <1>3, <2>1, CatParts, LocalPoolAssumption
<1> DEFINE D == DataOf(r)
<1>d. PICK d : d = DataOf(r)
  OBVIOUS
<1>6. /\ Owed(s, r) = Occurs(w, d) + Occurs(a, d)
      /\ Owed(s, r)' = Occurs(wire'[s], d) + Occurs(answering'[s], d)
      /\ Rest(s)' = wire'[s] \o answering'[s]
  BY <1>1, <1>2, <1>d DEF Owed, Rest, DataOf
<1>7. ASSUME wire'[s] = w, inbox'[s] = <<>>, answering'[s] = <<>>, s \in broken => s \in broken',
             s \notin broken' => Occurs(a, d) = 0
      PROVE  Remains(r, f)'
  <2>0. <<>> \in Seq(PieceSet)
    OBVIOUS
  <2>1. PICK e \in Seq(PieceSet) : e = <<>>
    BY <2>0
  <2>2. Rest(s)' = w
    BY <1>6, <1>7, <2>1, CatNone
  <2>3. InOrder(f, w) /\ (w # <<>> => z[1] = w[1])
    BY <1>3, <1>4, InOrderFirst
  <2>4. w # <<>> => w[1].what \in Expects(f, pc[r])
    <3>1. w # <<>> => z # <<>>
      BY <1>3, CatParts
    <3> QED
      BY <1>4, <2>3, <3>1
  <2>5. f = "length" => Len(w) <= IF pc[r] = "head" THEN MaxData + 1 ELSE left[r]
    BY <1>4, <1>l
  <2>6. s \notin broken' => Owed(s, r)' = Owed(s, r)
    <3>1. Occurs(e, d) = 0
      BY <2>1, OccursEmpty
    <3> QED
      BY <1>6, <1>7, <2>1, <3>1
  <2>7. inbox'[s] = <<>>
    BY <1>7
  <2> QED
    BY <1>5, <1>7, <2>2, <2>3, <2>4, <2>5, <2>6, <2>7, StillRemains
<1>8. CASE /\ a # <<>> /\ Head(a).what = "fin" /\ broken' = broken
           /\ wire'[s] = w /\ inbox'[s] = <<>> /\ answering'[s] = <<>>
  <2>1. PICK t \in Seq(PieceSet) : t = Tail(a)
    BY <1>8, TailOf
  <2>2. t = <<>>
    BY <1>3, <1>4, <1>8, <2>1, FinLast
  <2>3. Head(a) # d
    BY <1>8, <1>d DEF DataOf
  <2>4. Occurs(a, d) = Occurs(t, d) /\ Occurs(t, d) = 0
    BY <1>8, <2>1, <2>2, <2>3, OccursInTail, OccursEmpty
  <2> QED
    BY <1>7, <1>8, <2>4
<1>9. CASE /\ a # <<>> /\ Head(a).what # "fin" /\ broken' = broken /\ inbox'[s] = inbox[s]
           /\ wire'[s] = Append(w, Head(a)) /\ answering'[s] = Tail(a)
  <2>1. Rest(s)' = z
    BY <1>3, <1>6, <1>9, CatShift
  <2>2. Owed(s, r)' = Owed(s, r)
    BY <1>6, <1>9, <1>d, StillOwed
  <2> QED
    BY <1>4, <1>5, <1>9, <2>1, <2>2, StillRemains
<1>10. CASE /\ a # <<>> /\ Head(a).what = "crlf" /\ broken' = broken /\ inbox'[s] = inbox[s]
            /\ wire'[s] = Append(w, [what |-> "cr", of |-> Head(a).of])
            /\ answering'[s] = <<[what |-> "lf", of |-> Head(a).of]>> \o Tail(a)
  <2>h. /\ [what |-> "cr", of |-> Head(a).of] \in PieceSet
        /\ [what |-> "lf", of |-> Head(a).of] \in PieceSet
    <3>0. Head(a) \in PieceSet
      BY <1>10, TailOf
    <3>1. Head(a).of \in Reqs
      BY <3>0 DEF PieceSet
    <3> QED
      BY <3>1 DEF PieceSet
  <2>1. PICK c \in PieceSet : c = [what |-> "cr", of |-> Head(a).of] /\ c.what = "cr"
    BY <2>h
  <2>2. PICK l \in PieceSet : l = [what |-> "lf", of |-> Head(a).of] /\ l.what = "lf"
    BY <2>h
  <2>3. wire'[s] = Append(w, c) /\ answering'[s] = <<l>> \o Tail(a)
    BY <1>10, <2>1, <2>2
  <2>4. Owed(s, r)' = Owed(s, r)
    <3>0. a # <<>> /\ Head(a).what = "crlf" /\ c.what = "cr" /\ l.what = "lf" /\ d = DataOf(r)
      BY <1>10, <1>d, <2>1, <2>2
    <3>1. Occurs(Append(w, c), d) + Occurs(<<l>> \o Tail(a), d) = Occurs(w, d) + Occurs(a, d)
      BY <3>0, SplitOwed
    <3> QED
      BY <1>6, <2>3, <3>1
  <2>5. PICK y : y = Append(w, c) \o (<<l>> \o Tail(a))
    OBVIOUS
  <2>6. Rest(s)' = y
    BY <1>6, <2>3, <2>5
  <2>7. /\ InOrder(f, y) /\ y # <<>>
        /\ w # <<>> => y[1] = w[1] /\ z[1] = w[1]
        /\ w = <<>> => y[1] = c /\ z[1] = Head(a)
    <3>0. a # <<>> /\ Halves(Head(a), c, l) /\ InOrder(f, z)
      BY <1>3, <1>4, <1>10, <2>1, <2>2 DEF Halves
    <3>1. SplitAs(f, w, z, y, Head(a), c)
      BY <1>3, <2>5, <3>0, CatSplit
    <3> QED
      BY <3>1 DEF SplitAs
  <2>8. z # <<>> /\ z[1].what \in Expects(f, pc[r])
    BY <1>3, <1>4, <1>10, CatParts
  <2>i. InLoop(f, pc[r])
    BY DEF Remains
  <2>c. f = "chunked"
    <3>1. CASE w = <<>>
      BY <1>10, <2>7, <2>8, <2>i, <3>1, CrlfExpected
    <3>2. CASE w # <<>>
      <4>1. Len(w) \in Nat \ {0} /\ Len(a) \in Nat \ {0} /\ Head(a) = a[1]
        BY <1>10, <3>2, TailOf
      <4>2. Len(w) \in 1 .. Len(z) - 1 /\ z[Len(w) + 1] = Head(a)
        BY <1>3, <4>1, CatParts
      <4>3. "crlf" \in Behind(f, z[Len(w)].what)
        BY <1>4, <1>10, <4>2 DEF InOrder
      <4> QED
        BY <4>3, CrlfBehind
    <3> QED
      BY <3>1, <3>2
  <2>9. y[1].what \in Expects(f, pc[r])
    <3>1. CASE w = <<>>
      <4>1. pc[r] = "crlf"
        BY <1>10, <2>7, <2>8, <2>i, <3>1, CrlfExpected
      <4>2. y[1].what = "cr"
        BY <2>1, <2>7, <3>1
      <4> QED
        BY <4>1, <4>2 DEF Expects
    <3>2. CASE w # <<>>
      BY <2>7, <2>8, <3>2
    <3> QED
      BY <3>1, <3>2
  <2> QED
    BY <1>4, <1>5, <1>10, <2>4, <2>6, <2>7, <2>9, <2>c, StillRemains
<1>11. CASE /\ wire'[s] = w /\ inbox'[s] = <<>> /\ answering'[s] = <<>>
            /\ (a = <<>> /\ broken' = broken) \/ broken' = broken \cup {s}
  <2>1. a = <<>> => Occurs(a, d) = 0
    BY OccursEmpty
  <2> QED
    BY <1>7, <1>11, <2>1
<1> QED
  BY <1>1, <1>2, <1>4, <1>8, <1>9, <1>10, <1>11, Served

\* A response begins whole.
LEMMA Begun ==
  ASSUME TypeOK, NEW s \in Sock, SvcTake(s), NEW r \in Reqs, s = conn[r], pc[r] = "head",
         FramesRight(r), inbox[s] = <<r>>, wire[s] = <<>>
  PROVE  \E f \in Framings : Remains(r, f)'
<1>t. inbox \in [Sock -> Seq(Reqs)] /\ answering \in [Sock -> Seq(PieceSet)] /\ wire \in [Sock -> Seq(PieceSet)]
  BY DEF TypeOK
<1>1. /\ UNCHANGED <<pc, conn, wire, broken>> /\ inbox'[s] = Tail(inbox[s])
      /\ \E f \in Framings : answering'[s] = Response(Head(inbox[s]), f)
  BY <1>t DEF SvcTake, workerVars, history
<1>2. Head(inbox[s]) = r /\ inbox'[s] = <<>>
  BY <1>1
<1>3. PICK f \in Framings : answering'[s] = Response(r, f)
  BY <1>1, <1>2
<1>4. PICK R : R = Response(r, f)
  OBVIOUS
<1>5. /\ R \in Seq(PieceSet) /\ R # <<>> /\ R[1] = [what |-> f, of |-> r] /\ ShapeOf(R, f)
      /\ \A i \in 1 .. Len(R) : R[i].of = r
  BY <1>4, Shape
<1>6. PICK e \in Seq(PieceSet) : e = <<>>
  <2>1. <<>> \in Seq(PieceSet)
    OBVIOUS
  <2> QED
    BY <2>1
<1>7. e \o R = R
  <2>1. PICK z \in Seq(PieceSet) : z = e \o R
    BY <1>5, CatParts
  <2>2. PICK n \in Nat : n = Len(R)
    BY <1>5
  <2>3. Len(e) = 0
    BY <1>6
  <2>4. Len(z) = n /\ \A i \in 1 .. n : z[0 + i] = R[i]
    BY <1>5, <2>1, <2>2, <2>3, CatParts
  <2>5. Len(z) = Len(R) /\ \A i \in 1 .. Len(z) : z[i] = R[i]
    BY <2>2, <2>4
  <2> QED
    BY <1>5, <2>1, <2>5, SameSeq
<1>8. Rest(s)' = R
  BY <1>1, <1>3, <1>4, <1>6, <1>7 DEF Rest
<1>9. Owed(s, r)' = IF f \in {"bodiless", "bare"} THEN 0 ELSE MaxData
  <2>1. PICK d : d = DataOf(r)
    OBVIOUS
  <2>2. Owed(s, r)' = Occurs(e, d) + Occurs(R, d)
    BY <1>1, <1>3, <1>4, <1>6, <2>1 DEF Owed, DataOf
  <2>3. Occurs(e, d) = 0
    BY <1>6, OccursEmpty
  <2>4. Occurs(R, d) = IF f \in {"bodiless", "bare"} THEN 0 ELSE MaxData
    BY <1>4, <2>1, ResponseData
  <2> QED
    BY <2>2, <2>3, <2>4, LocalPoolAssumption
<1>10. Count(r, "chunk")' = 0
  <2>1. frames[r] = <<>>
    BY DEF FramesRight, Early
  <2>2. Count(r, "chunk") = 0 /\ UNCHANGED frames
    BY <2>1, CountType, ServiceAlone
  <2> QED
    BY <2>2 DEF Count
<1>11. InOrder(f, R)
  BY <1>4, ResponseInOrder
<1>12. R[1].what \in Expects(f, "head")
  BY <1>5 DEF Expects
<1>13. f = "length" => Len(R) <= MaxData + 1
  BY <1>5, LocalPoolAssumption DEF ShapeOf
<1>14. /\ InLoop(f, pc'[r]) /\ s = conn'[r] /\ pc'[r] = "head" /\ pc'[r] \notin Consuming
       /\ Rest(s)' # <<>> => Rest(s)'[1].what \in Expects(f, pc'[r])
  BY <1>1, <1>8, <1>12 DEF InLoop, Consuming
<1>15. f = "length" => Len(Rest(s)') <= IF pc'[r] = "head" THEN MaxData + 1 ELSE left'[r]
  BY <1>8, <1>13, <1>14
<1>16. s \notin broken' => IF f \in {"bodiless", "bare"} THEN Owed(s, r)' = 0 /\ Count(r, "chunk")' = 0
                                             ELSE Owed(s, r)' + Count(r, "chunk")' = MaxData
  BY <1>9, <1>10, LocalPoolAssumption
<1>17. InOrder(f, Rest(s)')
  BY <1>8, <1>11
<1>18. Remains(r, f)'
  BY <1>2, <1>14, <1>15, <1>16, <1>17, Remained
<1> QED
  BY <1>18

LEMMA UserServed ==
  ASSUME TypeOK, SocksRight, NEW s \in Sock, Serves(s), NEW r \in Reqs, FramesRight(r), UserRight(r)
  PROVE  UserRight(r)'
<1>1. UNCHANGED <<pc, reused, conn, keep, left, frames, cut>>
  BY ServiceAlone DEF Serves
<1>2. broken \subseteq broken'
  BY DEF Serves, SvcTake, SvcWrite, SvcClose, history
<1>3. CASE pc[r] \in Holding => conn[r] # s
  <2>1. pc[r] \in Holding =>
          /\ wire'[conn[r]] = wire[conn[r]] /\ inbox'[conn[r]] = inbox[conn[r]]
          /\ answering'[conn[r]] = answering[conn[r]]
    BY <1>3, Served, ZenonT(60) DEF SocksRight
  <2> QED
    BY <1>1, <1>2, <2>1, Untouched
<1>4. CASE pc[r] \in Holding /\ conn[r] = s
  <2>1. OnlyOf(s, r) \/ (reused[r] /\ s \in cut)
    BY <1>4 DEF UserRight
  <2>2. OnlyOf(s, r) => OnlyOf(conn[r], r)'
    <3>1. OnlyOf(s, r) => OnlyOf(s, r)'
      BY OnlyOfServed
    <3> QED
      BY <1>1, <1>4, <3>1
  <2>3. ASSUME s \notin cut PROVE InStep(r)'
    <3>1. InStep(r)
      BY <1>4, <2>3 DEF UserRight
    <3>2. Empty(s) => Empty(conn[r])'
      <4>1. Empty(s) => Empty(s)'
        BY EmptyStays
      <4> QED
        BY <1>1, <1>4, <4>1
    <3>3. CASE pc[r] = "head"
      <4>1. CASE inbox[s] = <<r>> /\ wire[s] = <<>> /\ answering[s] = <<>>
        <5>1. CASE SvcTake(s)
          BY <1>1, <1>4, <3>3, <4>1, <5>1, Begun DEF InStep, Consuming
        <5>2. CASE SvcClose(s)
          <6>1. wire'[s] = <<>> /\ inbox'[s] = <<>> /\ answering'[s] = <<>>
            BY <4>1, <5>2 DEF SvcClose, Shut, TypeOK
          <6> QED
            BY <1>1, <1>4, <3>3, <6>1 DEF InStep, Consuming, Empty
        <5>3. CASE SvcWrite(s)
          BY <4>1, <5>3 DEF SvcWrite
        <5> QED
          BY <5>1, <5>2, <5>3 DEF Serves
      <4>2. CASE Empty(s)
        BY <1>1, <3>2, <3>3, <4>2 DEF InStep, Consuming
      <4>3. CASE \E f \in Framings : Remains(r, f)
        BY <1>1, <1>4, <3>3, <4>3, RemainsServed DEF InStep, Consuming
      <4> QED
        BY <1>4, <3>1, <3>3, <4>1, <4>2, <4>3 DEF InStep
    <3>4. CASE pc[r] \in Consuming
      <4>1. \E f \in Framings : Remains(r, f)
        BY <3>1, <3>4 DEF InStep
      <4>2. \E f \in Framings : Remains(r, f)'
        BY <1>4, <4>1, RemainsServed
      <4> QED
        BY <1>1, <3>4, <4>2 DEF InStep, Consuming
    <3>5. CASE pc[r] \notin Consuming \cup {"head"}
      BY <1>1, <1>4, <3>1, <3>2, <3>5 DEF InStep
    <3> QED
      BY <3>3, <3>4, <3>5
  <2> QED
    BY <1>1, <1>4, <2>1, <2>2, <2>3 DEF UserRight
<1> QED
  BY <1>3, <1>4

\* The three parts of WireRight, after each step.
LEMMA UsersStep ==
  ASSUME TypeOK, QueueRight, SocksRight, \A r \in Reqs : FramesRight(r), WireRight, Next
  PROVE  \A r \in Reqs : UserRight(r)'
<1>t. pc \in [Reqs -> Spots] /\ q \in Seq(Reqs)
  BY DEF TypeOK, Spots
<1>u. \A r \in Reqs : UserRight(r)
  BY DEF WireRight
<1>0. ASSUME UNCHANGED <<reused, conn, keep, left, frames, inbox, answering, wire, cut, broken>>,
             NEW r \in Reqs, pc'[r] \notin Holding, \A u \in Reqs : u # r => pc'[u] = pc[u]
      PROVE  \A u \in Reqs : UserRight(u)'
  <2>1. UserRight(r)'
    BY <1>0 DEF UserRight
  <2>2. ASSUME NEW u \in Reqs, u # r PROVE UserRight(u)'
    BY <1>0, <1>u, <2>2, Untouched
  <2> QED
    BY <2>1, <2>2
<1>e. ASSUME UNCHANGED <<pc, reused, conn, keep, left, frames, inbox, answering, wire, cut, broken>>,
             NEW u \in Reqs
      PROVE  UserRight(u)'
  BY <1>e, <1>u, Untouched
<1>1. CASE Stop
  BY <1>1, <1>e DEF Stop, workerVars, svcVars, history
<1>2. ASSUME NEW w \in Workers, Fetch(w) PROVE \A r \in Reqs : UserRight(r)'
  <2>0. UNCHANGED <<reused, conn, keep, left, frames, inbox, answering, wire, cut, broken>>
    BY <1>2 DEF Fetch, svcVars, history
  <2>1. CASE q # <<>>
    <3>1. PICK r \in Reqs : r = Head(q)
      BY <1>t, <2>1, TailOf
    <3>2. pc'[r] = "new" /\ \A u \in Reqs : u # r => pc'[u] = pc[u]
      BY <1>2, <1>t, <2>1, <3>1 DEF Fetch, Goto
    <3>3. pc'[r] \notin Holding
      BY <3>2 DEF Holding
    <3> QED
      BY <1>0, <2>0, <3>2, <3>3
  <2>2. CASE q = <<>>
    BY <1>2, <1>e, <2>0, <2>2 DEF Fetch
  <2> QED
    BY <2>1, <2>2
<1>3. ASSUME NEW r \in Reqs, Submit(r) PROVE \A u \in Reqs : UserRight(u)'
  <2>1. UNCHANGED <<reused, conn, keep, left, frames, inbox, answering, wire, cut, broken>>
    BY <1>3 DEF Submit, svcVars, history
  <2>2. pc'[r] \notin Holding /\ \A u \in Reqs : u # r => pc'[u] = pc[u]
    BY <1>3, <1>t DEF Submit, Goto, Holding
  <2> QED
    BY <1>0, <2>1, <2>2
<1>4. ASSUME NEW r \in Reqs, Worker(r) PROVE \A u \in Reqs : UserRight(u)'
  BY <1>4, <1>u, UserStep, OthersKept
<1>5. ASSUME NEW s \in Sock, SvcTake(s) \/ SvcWrite(s) \/ SvcClose(s)
      PROVE  \A u \in Reqs : UserRight(u)'
  BY <1>5, <1>u, UserServed DEF Serves
<1> QED
  BY <1>1, <1>2, <1>3, <1>4, <1>5 DEF Next

IdleRight == \A i \in 1 .. Len(idle) : idle[i] \notin cut => Empty(idle[i])

LEMMA IdleStep ==
  ASSUME TypeOK, SocksRight, WireRight, Next PROVE IdleRight'
<1>t. /\ idle \in Seq(Sock) /\ Len(idle) \in Nat /\ inbox \in [Sock -> Seq(Reqs)]
      /\ wire \in [Sock -> Seq(PieceSet)] /\ conn \in [Reqs -> Sock \cup {NoSock}]
      /\ \A i \in 1 .. Len(idle) : idle[i] \in Sock
  BY DEF TypeOK
<1>i. \A i \in 1 .. Len(idle) : idle[i] \notin cut => Empty(idle[i])
  BY DEF WireRight
<1>0. ASSUME idle' = idle, cut \subseteq cut',
             \A i \in 1 .. Len(idle) : Empty(idle[i]) => Empty(idle[i])'
      PROVE  IdleRight'
  <2>1. ASSUME NEW i \in 1 .. Len(idle), idle[i] \notin cut' PROVE Empty(idle[i])'
    BY <1>0, <1>i, <2>1
  <2> QED
    BY <1>0, <2>1 DEF IdleRight
<1>e. ASSUME UNCHANGED <<idle, inbox, answering, wire, cut>> PROVE IdleRight'
  BY <1>0, <1>e DEF Empty
<1>1. CASE Stop
  BY <1>1, <1>e DEF Stop, svcVars, history
<1>2. ASSUME NEW w \in Workers, Fetch(w) PROVE IdleRight'
  BY <1>2, <1>e DEF Fetch, svcVars, history
<1>3. ASSUME NEW r \in Reqs, Submit(r) PROVE IdleRight'
  BY <1>3, <1>e DEF Submit, svcVars, history
<1>4. ASSUME NEW r \in Reqs, Worker(r) PROVE IdleRight'
  <2>1. CASE Acquire(r)
    <3>1. /\ idle' = SubSeq(idle, 1, Len(idle) - 1) /\ idle # <<>>
          /\ UNCHANGED <<inbox, answering, wire, cut>>
      BY <2>1 DEF Acquire, svcVars, history
    <3>2. \A i \in 1 .. Len(idle') : i \in 1 .. Len(idle) /\ idle'[i] = idle[i]
      BY <1>t, <3>1
    <3>3. \A i \in 1 .. Len(idle') : idle'[i] \notin cut => Empty(idle'[i])
      BY <1>i, <3>2
    <3> QED
      BY <3>1, <3>3 DEF IdleRight, Empty
  <2>2. CASE AcquireNone(r)
    BY <2>2 DEF AcquireNone, IdleRight
  <2>3. CASE Release(r)
    <3>1. UNCHANGED <<inbox, answering, wire, cut>> /\ pc[r] = "release"
      BY <2>3 DEF Release, svcVars, history
    <3>2. conn[r] \in Sock
      BY <3>1 DEF SocksRight, Holding
    <3>3. CASE idle' = idle
      BY <1>e, <3>1, <3>3
    <3>4. CASE idle' = Append(idle, conn[r]) /\ keep[r]
      <4>1. conn[r] \notin cut => Empty(conn[r])
        <5>1. UserRight(r)
          BY DEF WireRight
        <5>2. conn[r] \notin cut => InStep(r)
          BY <3>1, <5>1 DEF UserRight, Holding
        <5> QED
          BY <3>1, <3>4, <5>2 DEF InStep
      <4>2. \A i \in 1 .. Len(idle') : (i \in 1 .. Len(idle) /\ idle'[i] = idle[i]) \/ idle'[i] = conn[r]
        BY <1>t, <3>2, <3>4
      <4>3. \A i \in 1 .. Len(idle') : idle'[i] \notin cut => Empty(idle'[i])
        BY <1>i, <4>1, <4>2
      <4> QED
        BY <3>1, <4>3 DEF IdleRight, Empty
    <3> QED
      BY <2>3, <3>3, <3>4 DEF Release
  <2>4. CASE Connect(r) \/ ConnectFails(r) \/ Fail(r) \/ End(r)
    BY <1>e, <2>4 DEF Connect, ConnectFails, Fail, End, poolVars, svcVars, history
  <2>5. CASE Write(r) \/ Reads(r)
    <3>1. /\ pc[r] \in Holding /\ idle' = idle /\ cut \subseteq cut'
          /\ answering' = answering
          /\ wire' = wire \/ wire' = [wire EXCEPT ![conn[r]] = Tail(@)]
               \/ wire' = [wire EXCEPT ![conn[r]] = Tail(Tail(@))]
          /\ inbox' = inbox \/ inbox' = [inbox EXCEPT ![conn[r]] = Append(@, r)]
      <4>1. CASE Write(r)
        BY <4>1 DEF Write, Holding, poolVars, history
      <4>2. CASE Reads(r)
        BY <4>2, ReadsAlike DEF Take
      <4> QED
        BY <2>5, <4>1, <4>2
    <3>2. \A i \in 1 .. Len(idle) : idle[i] # conn[r] /\ idle[i] \in Sock
      BY <1>t, <3>1 DEF SocksRight
    <3>3. \A i \in 1 .. Len(idle) : wire'[idle[i]] = wire[idle[i]] /\ inbox'[idle[i]] = inbox[idle[i]]
      BY <1>t, <3>1, <3>2
    <3>4. \A i \in 1 .. Len(idle) : Empty(idle[i]) => Empty(idle[i])'
      BY <3>1, <3>3 DEF Empty
    <3> QED
      BY <1>0, <3>1, <3>4
  <2> QED
    BY <1>4, <2>1, <2>2, <2>3, <2>4, <2>5 DEF Worker, Reads
<1>5. ASSUME NEW s \in Sock, SvcTake(s) \/ SvcWrite(s) \/ SvcClose(s) PROVE IdleRight'
  <2>1. UNCHANGED <<idle, cut>> /\ Serves(s)
    BY <1>5, ServiceAlone DEF Serves
  <2>2. ASSUME NEW i \in 1 .. Len(idle), Empty(idle[i]) PROVE Empty(idle[i])'
    <3>1. CASE idle[i] = s
      <4>1. Empty(s)
        BY <2>2, <3>1
      <4>2. Empty(s)'
        BY <2>1, <4>1, EmptyStays
      <4> QED
        BY <2>1, <3>1, <4>2 DEF Empty
    <3>2. CASE idle[i] # s
      <4>1. /\ wire'[idle[i]] = wire[idle[i]] /\ inbox'[idle[i]] = inbox[idle[i]]
            /\ answering'[idle[i]] = answering[idle[i]]
        BY <1>t, <2>1, <3>2, Served
      <4> QED
        BY <2>1, <2>2, <4>1 DEF Empty
    <3> QED
      BY <3>1, <3>2
  <2> QED
    BY <1>0, <2>1, <2>2
<1> QED
  BY <1>1, <1>2, <1>3, <1>4, <1>5 DEF Next

NoFin(z) == \A i \in 1 .. Len(z) : z[i].what # "fin"

LEMMA NoFinTail ==
  ASSUME NEW z \in Seq(PieceSet), z # <<>>, NoFin(z)
  PROVE  Tail(z) \in Seq(PieceSet) /\ NoFin(Tail(z))
<1>1. /\ Tail(z) \in Seq(PieceSet) /\ Len(Tail(z)) = Len(z) - 1 /\ Len(z) \in Nat \ {0}
      /\ \A i \in 1 .. Len(z) - 1 : Tail(z)[i] = z[i + 1]
  BY TailOf
<1>2. \A i \in 1 .. Len(Tail(z)) : i + 1 \in 1 .. Len(z) /\ Tail(z)[i] = z[i + 1]
  BY <1>1
<1> QED
  BY <1>1, <1>2 DEF NoFin

LEMMA NoFinAppended ==
  ASSUME NEW z \in Seq(PieceSet), NoFin(z), NEW p \in PieceSet, p.what # "fin"
  PROVE  NoFin(Append(z, p))
BY Appended DEF NoFin

LEMMA FinStep ==
  ASSUME TypeOK, SocksRight, WireRight, Next PROVE \A s \in Sock : NoFin(wire'[s])
<1>t. wire \in [Sock -> Seq(PieceSet)] /\ answering \in [Sock -> Seq(PieceSet)]
  BY DEF TypeOK
<1>i. \A s \in Sock : NoFin(wire[s])
  BY DEF WireRight, NoFin
<1>1. CASE UNCHANGED wire
  BY <1>1, <1>i
<1>2. ASSUME NEW r \in Reqs, Reads(r) PROVE \A s \in Sock : NoFin(wire'[s])
  <2>1. conn[r] \in Sock
    BY <1>2, ReadsAlike DEF SocksRight
  <2>2. PICK w \in Seq(PieceSet) : w = wire[conn[r]] /\ NoFin(w)
    BY <1>t, <1>i, <2>1
  <2>3. CASE wire[conn[r]] # <<>> /\ Take(r)
    <3>1. NoFin(Tail(w))
      BY <2>2, <2>3, NoFinTail
    <3>2. \A s \in Sock : wire'[s] = IF s = conn[r] THEN Tail(w) ELSE wire[s]
      BY <1>t, <2>1, <2>2, <2>3 DEF Take
    <3> QED
      BY <1>i, <3>1, <3>2
  <2>4. CASE /\ Len(wire[conn[r]]) > 1
             /\ wire' = [wire EXCEPT ![conn[r]] = Tail(Tail(@))]
    <3>1. w # <<>> /\ Len(w) > 1
      BY <2>2, <2>4
    <3>2. PICK x \in Seq(PieceSet) : x = Tail(w) /\ NoFin(x)
      BY <2>2, <3>1, NoFinTail
    <3>3. Len(x) = Len(w) - 1 /\ Len(w) \in Nat
      BY <2>2, <3>1, <3>2, TailOf
    <3>4. Len(x) > 0
      BY <3>1, <3>3
    <3>5. x # <<>>
      BY <3>4
    <3>6. NoFin(Tail(x))
      BY <3>2, <3>5, NoFinTail
    <3>7. \A s \in Sock : wire'[s] = IF s = conn[r] THEN Tail(x) ELSE wire[s]
      BY <1>t, <2>1, <2>2, <2>4, <3>2
    <3> QED
      BY <1>i, <3>6, <3>7
  <2> QED
    BY <1>1, <1>2, <2>3, <2>4, ReadsAlike
<1>3. ASSUME NEW r \in Reqs, Worker(r), ~Reads(r) PROVE UNCHANGED wire
  BY <1>3 DEF Worker, Reads, Acquire, AcquireNone, Connect, ConnectFails, Write, Fail, End, Release
<1>4. ASSUME NEW s \in Sock, Serves(s) PROVE \A u \in Sock : NoFin(wire'[u])
  <2>1. \A u \in Sock : u # s => wire'[u] = wire[u]
    BY <1>4, Served
  <2>2. PICK w \in Seq(PieceSet) : w = wire[s] /\ NoFin(w)
    BY <1>t, <1>i
  <2>3. \/ wire'[s] = w
        \/ /\ answering[s] # <<>> /\ Head(answering[s]).what # "fin"
           /\ wire'[s] = Append(w, Head(answering[s]))
        \/ /\ answering[s] # <<>>
           /\ wire'[s] = Append(w, [what |-> "cr", of |-> Head(answering[s]).of])
    BY <1>4, <2>2, Served
  <2>4. PICK a \in Seq(PieceSet) : a = answering[s]
    BY <1>t
  <2>5. NoFin(wire'[s])
    <3>1. CASE answering[s] # <<>>
      <4>1. PICK h \in PieceSet : h = Head(a)
        BY <2>4, <3>1, TailOf
      <4>2. [what |-> "cr", of |-> h.of] \in PieceSet
        BY <4>1 DEF PieceSet
      <4>3. PICK c \in PieceSet : c = [what |-> "cr", of |-> h.of] /\ c.what # "fin"
        BY <4>2
      <4>4. wire'[s] = w \/ (h.what # "fin" /\ wire'[s] = Append(w, h)) \/ wire'[s] = Append(w, c)
        BY <2>3, <2>4, <4>1, <4>3
      <4> QED
        BY <2>2, <4>3, <4>4, NoFinAppended
    <3>2. CASE answering[s] = <<>>
      BY <2>2, <2>3, <3>2
    <3> QED
      BY <3>1, <3>2
  <2> QED
    BY <1>i, <2>1, <2>5
<1> QED
  <2>1. CASE Stop
    BY <1>1, <2>1 DEF Stop
  <2>2. ASSUME NEW w \in Workers, Fetch(w) PROVE UNCHANGED wire
    BY <2>2 DEF Fetch
  <2>3. ASSUME NEW r \in Reqs, Submit(r) PROVE UNCHANGED wire
    BY <2>3 DEF Submit
  <2> QED
    BY <1>1, <1>2, <1>3, <1>4, <2>1, <2>2, <2>3 DEF Next, Serves

LEMMA WireStep ==
  ASSUME TypeOK, QueueRight, SocksRight, \A r \in Reqs : FramesRight(r), WireRight, Next
  PROVE  WireRight'
<1>1. \A s \in Sock : \A i \in 1 .. Len(wire'[s]) : wire'[s][i].what # "fin"
  BY FinStep DEF NoFin
<1>2. IdleRight'
  BY IdleStep
<1>3. \A r \in Reqs : UserRight(r)'
  BY UsersStep
<1> QED
  BY <1>1, <1>2, <1>3 DEF WireRight, IdleRight

-----------------------------------------------------------------------------
(* What the visitor gets.                                                  *)

\* A stream is ended only when nothing is left to do but to release the connection.
LEMMA EndedAt ==
  ASSUME TypeOK, NEW r \in Reqs, FramesRight(r), Ended(r)
  PROVE  pc[r] \in {"release", "done"}
<1>1. Count(r, "end") > 0
  BY DEF Ended
<1>2. pc[r] \in Spots
  BY DEF TypeOK, Spots
<1>3. Count(r, "end") \in Nat /\ (frames[r] = <<>> => Count(r, "end") = 0)
  BY CountType
<1>4. pc[r] \notin Early
  BY <1>1, <1>3 DEF FramesRight
<1>5. pc[r] \notin Consuming \cup {"end"}
  BY <1>1 DEF FramesRight
<1> QED
  BY <1>2, <1>4, <1>5 DEF Spots, Holding, Early, Consuming

WholeOf(r) ==
  pc[r] = "end" \/ Ended(r) =>
    conn[r] \in Sock /\ (conn[r] \notin cut \cup broken => Whole(r))

LEMMA WholeKept ==
  ASSUME NEW r \in Reqs, WholeOf(r), frames'[r] = frames[r], left'[r] = left[r],
         keep'[r] = keep[r], conn'[r] = conn[r], pc'[r] = "end" => pc[r] = "end",
         \A s \in Sock : svc[s] = "closed" => svc'[s] = "closed",
         cut \subseteq cut', broken \subseteq broken'
  PROVE  WholeOf(r)'
<1>1. Ended(r)' <=> Ended(r)
  BY DEF Ended, Count
<1>2. conn[r] \in Sock /\ Whole(r) => Whole(r)'
  BY DEF Whole, Count
<1> QED
  BY <1>1, <1>2 DEF WholeOf

\* No step takes back a close, or forgets that a connection is not to be trusted.
LEMMA ClosedStays ==
  ASSUME TypeOK, Next
  PROVE  /\ \A s \in Sock : svc[s] = "closed" => svc'[s] = "closed"
         /\ cut \subseteq cut' /\ broken \subseteq broken'
<1>t. svc \in [Sock -> {"none", "open", "closed"}]
  BY DEF TypeOK
<1>0. ASSUME UNCHANGED <<svc, cut, broken>>
      PROVE  /\ \A s \in Sock : svc[s] = "closed" => svc'[s] = "closed"
             /\ cut \subseteq cut' /\ broken \subseteq broken'
  BY <1>0
<1>1. CASE Stop
  BY <1>0, <1>1 DEF Stop, svcVars, history
<1>2. ASSUME NEW w \in Workers, Fetch(w) PROVE UNCHANGED <<svc, cut, broken>>
  BY <1>2 DEF Fetch, svcVars, history
<1>3. ASSUME NEW r \in Reqs, Submit(r) PROVE UNCHANGED <<svc, cut, broken>>
  BY <1>3 DEF Submit, svcVars, history
<1>4. ASSUME NEW r \in Reqs, Worker(r)
      PROVE  /\ \A s \in Sock : svc[s] = "closed" => svc'[s] = "closed"
             /\ cut \subseteq cut' /\ broken \subseteq broken'
  <2>1. CASE Reads(r)
    BY <2>1, ReadsAlike
  <2>2. CASE Connect(r)
    BY <1>t, <2>2 DEF Connect, history
  <2>3. CASE ~Reads(r) /\ ~Connect(r)
    <3>1. UNCHANGED <<svc, cut, broken>>
      BY <1>4, <2>3 DEF Worker, Reads, Acquire, AcquireNone, ConnectFails, Write, Fail, End, Release,
                        svcVars, history
    <3> QED
      BY <1>0, <3>1
  <2> QED
    BY <2>1, <2>2, <2>3
<1>5. ASSUME NEW s \in Sock, SvcTake(s) \/ SvcWrite(s) \/ SvcClose(s)
      PROVE  /\ \A t \in Sock : svc[t] = "closed" => svc'[t] = "closed"
             /\ cut \subseteq cut' /\ broken \subseteq broken'
  <2>1. svc' = svc \/ svc' = [svc EXCEPT ![s] = "closed"]
    BY <1>5 DEF SvcTake, SvcWrite, SvcClose, Shut
  <2>2. broken \subseteq broken'
    BY <1>5 DEF SvcTake, SvcWrite, SvcClose, history
  <2> QED
    BY <1>5, <1>t, <2>1, <2>2, ServiceAlone
<1> QED
  BY <1>0, <1>1, <1>2, <1>3, <1>4, <1>5 DEF Next

LEMMA WholeStep ==
  ASSUME TypeOK, QueueRight, SocksRight, \A r \in Reqs : FramesRight(r), WireRight, WholeRight, Next
  PROVE  WholeRight'
<1>t. pc \in [Reqs -> Spots] /\ q \in Seq(Reqs) /\ conn \in [Reqs -> Sock \cup {NoSock}]
  BY DEF TypeOK, Spots
<1>w. \A r \in Reqs : WholeOf(r)
  BY DEF WholeRight, WholeOf
<1>f. \A r \in Reqs : FramesRight(r)'
  BY FramesStep
<1>c. /\ \A s \in Sock : svc[s] = "closed" => svc'[s] = "closed"
      /\ cut \subseteq cut' /\ broken \subseteq broken'
  BY ClosedStays
<1>s. SocksRight'
  BY SocksStep
<1>0. ASSUME UNCHANGED <<frames, left, keep, conn>>, \A r \in Reqs : pc'[r] = "end" => pc[r] = "end"
      PROVE  \A r \in Reqs : WholeOf(r)'
  BY <1>0, <1>c, <1>w, WholeKept
<1>1. ASSUME Stop PROVE \A r \in Reqs : WholeOf(r)'
  BY <1>0, <1>1 DEF Stop, workerVars
<1>2. ASSUME NEW w \in Workers, Fetch(w) PROVE \A r \in Reqs : WholeOf(r)'
  <2>1. pc' = pc \/ pc' = [pc EXCEPT ![Head(q)] = "new"]
    BY <1>2 DEF Fetch, Goto
  <2>2. \A r \in Reqs : pc'[r] = "end" => pc[r] = "end"
    BY <1>t, <2>1
  <2> QED
    BY <1>0, <1>2, <2>2 DEF Fetch
<1>3. ASSUME NEW r \in Reqs, Submit(r) PROVE \A u \in Reqs : WholeOf(u)'
  BY <1>0, <1>3, <1>t DEF Submit, Goto
<1>4. ASSUME NEW r \in Reqs, Worker(r) PROVE WholeOf(r)'
  <2>r. FramesRight(r)' /\ UserRight(r) /\ FramesRight(r)
    BY <1>f DEF WireRight
  <2>c. Count(r, "end") \in Nat /\ (frames[r] = <<>> => Count(r, "end") = 0)
    BY CountType
  <2>1. CASE Reads(r)
    <3>1. pc'[r] \in Consuming \cup {"head", "end"}
      <4>1. CASE ReadHead(r)
        BY <1>t, <4>1 DEF ReadHead, Goto, Body, Consuming
      <4>2. CASE ~ReadHead(r)
        BY <1>t, <2>1, <4>2 DEF Reads, ReadJunkHead, ReadSize, ReadChunk, ReadCrlf, ReadLength, ReadStream,
                                Goto, Consuming
      <4> QED
        BY <4>1, <4>2
    <3>2. ~Ended(r)'
      <4>1. CASE pc'[r] = "head"
        <5>1. frames'[r] = <<>> /\ pc[r] = "head"
          <6>1. pc[r] = "head"
            <7>1. CASE ReadHead(r) \/ ReadJunkHead(r)
              BY <7>1 DEF ReadHead, ReadJunkHead
            <7>2. CASE ~ReadHead(r) /\ ~ReadJunkHead(r)
              BY <1>t, <2>1, <4>1, <7>2 DEF Reads, ReadSize, ReadChunk, ReadCrlf, ReadLength, ReadStream, Goto
            <7> QED
              BY <7>1, <7>2
          <6> QED
            BY <2>r, <4>1, <6>1 DEF FramesRight, Early
        <5>2. frames[r] = <<>>
          BY <2>r, <5>1 DEF FramesRight, Early
        <5>3. Count(r, "end")' = 0
          BY <2>c, <5>1, <5>2 DEF Count
        <5> QED
          BY <5>3 DEF Ended
      <4>2. CASE pc'[r] # "head"
        <5>1. Count(r, "end")' = 0
          BY <2>r, <3>1, <4>2 DEF FramesRight
        <5> QED
          BY <5>1 DEF Ended
      <4> QED
        BY <4>1, <4>2
    <3>3. pc'[r] \in Holding
      BY <3>1 DEF Holding, Consuming
    <3>4. conn'[r] \in Sock
      BY <1>s, <3>3 DEF SocksRight
    <3>5. InStepStill(r)'
      <4>1. conn[r] \in Sock
        BY <2>1, ReadsAlike DEF SocksRight
      <4>2. \A i \in 1 .. Len(wire[conn[r]]) : wire[conn[r]][i].what # "fin"
        BY <4>1 DEF WireRight
      <4> QED
        BY <2>1, <2>r, <4>2, ReadsRight
    <3> QED
      BY <3>2, <3>4, <3>5 DEF WholeOf, InStepStill
  <2>2. CASE Acquire(r) \/ AcquireNone(r) \/ Connect(r) \/ Write(r)
    <3>1. pc[r] \in Early /\ UNCHANGED frames /\ pc'[r] \in {"write", "connect", "head"}
      BY <1>t, <2>2 DEF Acquire, AcquireNone, Connect, Write, Early, Goto
    <3>2. Count(r, "end")' = 0
      BY <2>c, <2>r, <3>1 DEF FramesRight, Count
    <3> QED
      BY <3>1, <3>2 DEF WholeOf, Ended
  <2>3. CASE ConnectFails(r) \/ Fail(r)
    <3>1. /\ pc[r] \in Early /\ pc'[r] \in {"done", "new"}
          /\ UNCHANGED frames \/ Send(r, "abort", r)
      BY <1>t, <2>3 DEF ConnectFails, Fail, Early, Goto
    <3>2. Count(r, "end") = 0
      BY <2>c, <2>r, <3>1 DEF FramesRight
    <3>3. Count(r, "end")' = 0
      <4>1. CASE UNCHANGED frames
        BY <3>2, <4>1 DEF Count
      <4>2. CASE Send(r, "abort", r)
        BY <3>2, <4>2, Counted DEF Kinds
      <4> QED
        BY <3>1, <4>1, <4>2
    <3> QED
      BY <3>1, <3>3 DEF WholeOf, Ended
  <2>4. CASE End(r)
    <3>1. /\ pc[r] = "end" /\ Send(r, "end", r) /\ UNCHANGED <<left, keep, conn, svc, cut, broken>>
      BY <2>4 DEF End, svcVars, history
    <3>2. Count(r, "chunk")' = Count(r, "chunk")
      BY <3>1, Counted DEF Kinds
    <3>3. conn[r] \in Sock /\ (conn[r] \notin cut \cup broken => Whole(r))
      BY <1>w, <3>1 DEF WholeOf
    <3> QED
      BY <3>1, <3>2, <3>3 DEF WholeOf, Whole
  <2>5. CASE Release(r)
    <3>1. UNCHANGED <<frames, left, keep, conn>> /\ pc'[r] = "done"
      BY <1>t, <2>5 DEF Release, Goto
    <3> QED
      BY <1>c, <1>w, <3>1, WholeKept
  <2> QED
    BY <1>4, <2>1, <2>2, <2>3, <2>4, <2>5 DEF Worker, Reads
<1>5. ASSUME NEW r \in Reqs, Worker(r) PROVE \A u \in Reqs : WholeOf(u)'
  <2>1. ASSUME NEW u \in Reqs, u # r PROVE WholeOf(u)'
    BY <1>5, <1>c, <1>w, <2>1, WorkerAlone, WholeKept
  <2> QED
    BY <1>4, <1>5, <2>1
<1>6. ASSUME NEW s \in Sock, SvcTake(s) \/ SvcWrite(s) \/ SvcClose(s)
      PROVE  \A u \in Reqs : WholeOf(u)'
  BY <1>0, <1>6, ServiceAlone
<1>7. \A r \in Reqs : WholeOf(r)'
  BY <1>1, <1>2, <1>3, <1>5, <1>6 DEF Next
<1> QED
  BY <1>7 DEF WholeRight, WholeOf

Own(r) == (\A f \in FrameAt(r) : f.of = r) \/ (reused[r] /\ conn[r] \in cut)

LEMMA OwnStep ==
  ASSUME TypeOK, SocksRight, \A r \in Reqs : FramesRight(r), WireRight, OwnAnswer, Next
  PROVE  OwnAnswer'
<1>t. pc \in [Reqs -> Spots]
  BY DEF TypeOK, Spots
<1>w. \A r \in Reqs : Own(r)
  BY DEF OwnAnswer, Own
<1>c. cut \subseteq cut'
  BY ClosedStays
<1>0. ASSUME NEW r \in Reqs, frames'[r] = frames[r], reused'[r] = reused[r], conn'[r] = conn[r]
      PROVE  Own(r)'
  <2>1. FrameAt(r)' = FrameAt(r)
    BY <1>0 DEF FrameAt
  <2> QED
    BY <1>0, <1>c, <1>w, <2>1 DEF Own
<1>1. ASSUME Stop PROVE \A r \in Reqs : Own(r)'
  BY <1>0, <1>1 DEF Stop, workerVars
<1>2. ASSUME NEW w \in Workers, Fetch(w) PROVE \A r \in Reqs : Own(r)'
  BY <1>0, <1>2 DEF Fetch
<1>3. ASSUME NEW r \in Reqs, Submit(r) PROVE \A u \in Reqs : Own(u)'
  BY <1>0, <1>3 DEF Submit
<1>4. ASSUME NEW r \in Reqs, Worker(r) PROVE Own(r)'
  <2>a. ASSUME frames[r] = <<>>, UNCHANGED frames PROVE Own(r)'
    <3>1. FrameAt(r)' = {}
      BY <2>a DEF FrameAt
    <3> QED
      BY <3>1 DEF Own
  <2>b. ASSUME NEW k \in Kinds, NEW o \in Reqs, Send(r, k, o),
               o = r \/ (reused'[r] /\ conn'[r] \in cut'),
               (\A f \in FrameAt(r) : f.of = r) \/ (reused'[r] /\ conn'[r] \in cut')
        PROVE  Own(r)'
    <3>1. FrameAt(r)' = FrameAt(r) \cup {[kind |-> k, of |-> o]}
      BY <2>b, Counted
    <3> QED
      BY <2>b, <3>1 DEF Own
  <2>1. CASE Reads(r)
    <3>1. pc[r] \in Holding /\ UNCHANGED <<conn, reused>>
      BY <2>1, ReadsAlike
    <3>2. OnlyOf(conn[r], r) \/ (reused'[r] /\ conn'[r] \in cut')
      BY <1>c, <3>1 DEF WireRight, UserRight
    <3>3. (\A f \in FrameAt(r) : f.of = r) \/ (reused'[r] /\ conn'[r] \in cut')
      BY <1>c, <1>w, <3>1 DEF Own
    <3>4. UNCHANGED frames \/ (wire[conn[r]] # <<>> /\ \E k \in Kinds : Send(r, k, Piece(r).of))
      BY <2>1 DEF Reads, ReadHead, ReadJunkHead, ReadSize, ReadChunk, ReadCrlf, ReadLength, ReadStream,
                  Readable, Kinds
    <3>5. CASE UNCHANGED frames
      BY <1>0, <3>1, <3>5
    <3>6. CASE wire[conn[r]] # <<>> /\ \E k \in Kinds : Send(r, k, Piece(r).of)
      <4>1. PICK k \in Kinds : Send(r, k, Piece(r).of)
        BY <3>6
      <4>2. /\ wire[conn[r]] \in Seq(PieceSet) /\ Piece(r) = wire[conn[r]][1] /\ Piece(r).of \in Reqs
        BY <3>1, <3>6, NextPiece
      <4>3. 1 \in 1 .. Len(wire[conn[r]])
        BY <3>6, <4>2, TailOf
      <4>4. Piece(r).of = r \/ (reused'[r] /\ conn'[r] \in cut')
        BY <3>2, <4>2, <4>3 DEF OnlyOf, AllOf
      <4> QED
        BY <2>b, <3>3, <4>1, <4>2, <4>4
    <3> QED
      BY <3>4, <3>5, <3>6
  <2>2. CASE Acquire(r) \/ AcquireNone(r) \/ Connect(r) \/ Write(r)
    <3>1. pc[r] \in Early /\ UNCHANGED frames
      BY <2>2 DEF Acquire, AcquireNone, Connect, Write, Early
    <3> QED
      BY <2>a, <3>1 DEF FramesRight
  <2>3. CASE ConnectFails(r) \/ Fail(r) \/ End(r)
    <3>1. /\ UNCHANGED <<conn, reused>>
          /\ UNCHANGED frames \/ \E k \in Kinds : Send(r, k, r)
      BY <2>3 DEF ConnectFails, Fail, End, Kinds
    <3>2. (\A f \in FrameAt(r) : f.of = r) \/ (reused'[r] /\ conn'[r] \in cut')
      BY <1>c, <1>w, <3>1 DEF Own
    <3> QED
      BY <1>0, <2>b, <3>1, <3>2
  <2>4. CASE Release(r)
    BY <1>0, <2>4 DEF Release
  <2> QED
    BY <1>4, <2>1, <2>2, <2>3, <2>4 DEF Worker, Reads
<1>5. ASSUME NEW r \in Reqs, Worker(r) PROVE \A u \in Reqs : Own(u)'
  <2>1. ASSUME NEW u \in Reqs, u # r PROVE Own(u)'
    BY <1>0, <1>5, <2>1, WorkerAlone
  <2> QED
    BY <1>4, <1>5, <2>1
<1>6. ASSUME NEW s \in Sock, SvcTake(s) \/ SvcWrite(s) \/ SvcClose(s) PROVE \A u \in Reqs : Own(u)'
  BY <1>0, <1>6, ServiceAlone
<1>7. \A r \in Reqs : Own(r)'
  BY <1>1, <1>2, <1>3, <1>5, <1>6 DEF Next
<1> QED
  BY <1>7 DEF OwnAnswer, Own

-----------------------------------------------------------------------------
(* The refinement.                                                         *)

\* The variables of StreamFrames.
PhaseNow(r) == IF Count(r, "head") > 1 THEN "two heads" ELSE Phase(r)
PhaseMap    == [r \in Reqs |-> PhaseNow(r)]
ChunkMap    == [r \in Reqs |-> Count(r, "chunk")]

LEMMA PhaseBefore ==
  ASSUME TypeOK, NEW r \in Reqs, FramesRight(r)
  PROVE  /\ pc[r] \in Early => PhaseNow(r) = "silent" /\ Count(r, "head") = 0
         /\ pc[r] \in Consuming \cup {"end"} => PhaseNow(r) = "head" /\ Count(r, "head") = 1
<1>1. pc[r] \in Early => frames[r] = <<>> /\ Count(r, "head") = 0
  BY CountType DEF FramesRight
<1>2. pc[r] \in Early => PhaseNow(r) = "silent"
  BY <1>1 DEF PhaseNow, Phase
<1>3. pc[r] \in Consuming \cup {"end"} =>
        frames[r] # <<>> /\ Last(r) \in {"head", "chunk"} /\ Count(r, "head") = 1
  BY DEF FramesRight
<1>4. pc[r] \in Consuming \cup {"end"} => PhaseNow(r) = "head"
  BY <1>3 DEF PhaseNow, Phase
<1> QED
  BY <1>1, <1>2, <1>3, <1>4

\* Who sends what, and when.
LEMMA Sends ==
  ASSUME TypeOK, SocksRight, Next
  PROVE  \/ UNCHANGED frames
         \/ \E r \in Reqs : \E k \in Kinds : \E o \in Reqs :
              /\ Send(r, k, o)
              /\ \/ k \in {"head", "abort"} /\ pc[r] \in Early
                 \/ k = "chunk" /\ pc[r] \in Consuming
                 \/ k = "end" /\ pc[r] = "end"
<1> DEFINE Sending == \E r \in Reqs : \E k \in Kinds : \E o \in Reqs :
                        /\ Send(r, k, o)
                        /\ \/ k \in {"head", "abort"} /\ pc[r] \in Early
                           \/ k = "chunk" /\ pc[r] \in Consuming
                           \/ k = "end" /\ pc[r] = "end"
<1>1. ASSUME NEW r \in Reqs, Worker(r) PROVE UNCHANGED frames \/ Sending
  <2>1. CASE Reads(r)
    <3>1. \/ UNCHANGED frames
          \/ wire[conn[r]] # <<>> /\ Send(r, "head", Piece(r).of) /\ pc[r] \in Early
          \/ wire[conn[r]] # <<>> /\ Send(r, "chunk", Piece(r).of) /\ pc[r] \in Consuming
      BY <2>1 DEF Reads, ReadHead, ReadJunkHead, ReadSize, ReadChunk, ReadCrlf, ReadLength, ReadStream,
                  Readable, Early, Consuming
    <3>2. pc[r] \in Holding
      BY <2>1, ReadsAlike
    <3>3. wire[conn[r]] # <<>> => Piece(r).of \in Reqs
      BY <3>2, NextPiece
    <3>4. "head" \in Kinds /\ "chunk" \in Kinds
      BY DEF Kinds
    <3> QED
      BY <3>1, <3>3, <3>4
  <2>2. CASE ConnectFails(r) \/ Fail(r) \/ End(r)
    BY <2>2 DEF ConnectFails, Fail, End, Early, Kinds
  <2>3. CASE Acquire(r) \/ AcquireNone(r) \/ Connect(r) \/ Write(r) \/ Release(r)
    BY <2>3 DEF Acquire, AcquireNone, Connect, Write, Release
  <2> QED
    BY <1>1, <2>1, <2>2, <2>3 DEF Worker, Reads
<1>2. CASE Stop
  BY <1>2 DEF Stop, workerVars
<1>3. ASSUME NEW w \in Workers, Fetch(w) PROVE UNCHANGED frames
  BY <1>3 DEF Fetch
<1>4. ASSUME NEW r \in Reqs, Submit(r) PROVE UNCHANGED frames
  BY <1>4 DEF Submit
<1>5. ASSUME NEW s \in Sock, SvcTake(s) \/ SvcWrite(s) \/ SvcClose(s) PROVE UNCHANGED frames
  BY <1>5, ServiceAlone
<1>6. UNCHANGED frames \/ Sending
  BY <1>1, <1>2, <1>3, <1>4, <1>5 DEF Next
<1> QED
  BY <1>6

LEMMA FramesMap ==
  ASSUME TypeOK, SocksRight, \A r \in Reqs : FramesRight(r), Next
  PROVE  \/ UNCHANGED <<PhaseMap, ChunkMap>>
         \/ \E r \in Reqs :
              \/ Frames!Answer(r) \/ Frames!Chunk(r) \/ Frames!End(r) \/ Frames!Abort(r)
<1>p. /\ \A r \in Reqs : PhaseMap[r] = PhaseNow(r) /\ ChunkMap[r] = Count(r, "chunk")
      /\ PhaseMap \in [Reqs -> {PhaseNow(r) : r \in Reqs}]
      /\ ChunkMap \in [Reqs -> {Count(r, "chunk") : r \in Reqs}]
  BY DEF PhaseMap, ChunkMap
<1>q. /\ \A r \in Reqs : PhaseMap'[r] = PhaseNow(r)' /\ ChunkMap'[r] = Count(r, "chunk")'
      /\ PhaseMap' = [r \in Reqs |-> PhaseMap'[r]] /\ ChunkMap' = [r \in Reqs |-> ChunkMap'[r]]
  BY DEF PhaseMap, ChunkMap
<1>s. ASSUME NEW u \in Reqs, frames'[u] = frames[u]
      PROVE  PhaseMap'[u] = PhaseMap[u] /\ ChunkMap'[u] = ChunkMap[u]
  <2>1. PhaseNow(u)' = PhaseNow(u) /\ Count(u, "chunk")' = Count(u, "chunk")
    BY <1>s DEF PhaseNow, Phase, Last, Count
  <2> QED
    BY <1>p, <1>q, <2>1
<1>1. CASE UNCHANGED frames
  BY <1>1 DEF PhaseMap, ChunkMap, PhaseNow, Phase, Last, Count
<1>2. ASSUME NEW r \in Reqs, NEW k \in Kinds, NEW o \in Reqs, Send(r, k, o),
             \/ k \in {"head", "abort"} /\ pc[r] \in Early
             \/ k = "chunk" /\ pc[r] \in Consuming
             \/ k = "end" /\ pc[r] = "end"
      PROVE  Frames!Answer(r) \/ Frames!Chunk(r) \/ Frames!End(r) \/ Frames!Abort(r)
  <2>1. \A u \in Reqs : u # r => frames'[u] = frames[u]
    BY <1>2, Sent
  <2>2. /\ Count(r, k)' = Count(r, k) + 1 /\ \A c : c # k => Count(r, c)' = Count(r, c)
        /\ frames'[r] # <<>> /\ Last(r)' = k
    BY <1>2, Counted
  <2>3. ASSUME NEW to, PhaseNow(r)' = to
        PROVE  PhaseMap' = [PhaseMap EXCEPT ![r] = to]
    BY <1>p, <1>q, <1>s, <2>1, <2>3
  <2>4. ASSUME NEW n, Count(r, "chunk")' = n
        PROVE  ChunkMap' = [ChunkMap EXCEPT ![r] = n]
    BY <1>p, <1>q, <1>s, <2>1, <2>4
  <2>5. ASSUME Count(r, "chunk")' = Count(r, "chunk") PROVE ChunkMap' = ChunkMap
    BY <1>p, <1>q, <1>s, <2>1, <2>5
  <2>6. CASE k = "head"
    <3>1. PhaseNow(r) = "silent" /\ Count(r, "head") = 0
      BY <1>2, <2>6, PhaseBefore
    <3>2. PhaseNow(r)' = "head"
      BY <2>2, <2>6, <3>1 DEF PhaseNow, Phase
    <3>3. PhaseMap[r] = "silent" /\ PhaseMap' = [PhaseMap EXCEPT ![r] = "head"] /\ ChunkMap' = ChunkMap
      BY <1>p, <2>2, <2>3, <2>5, <2>6, <3>1, <3>2
    <3>4. Frames!Answer(r)
      BY <3>3 DEF Frames!Answer, Frames!Moves, PhaseMap, ChunkMap, PhaseNow
    <3> QED
      BY <3>4
  <2>7. CASE k = "abort"
    <3>1. PhaseNow(r) = "silent" /\ Count(r, "head") = 0
      BY <1>2, <2>7, PhaseBefore
    <3>2. PhaseNow(r)' = "aborted"
      BY <2>2, <2>7, <3>1 DEF PhaseNow, Phase
    <3>3. PhaseMap[r] = "silent" /\ PhaseMap' = [PhaseMap EXCEPT ![r] = "aborted"] /\ ChunkMap' = ChunkMap
      BY <1>p, <2>2, <2>3, <2>5, <2>7, <3>1, <3>2
    <3>4. Frames!Abort(r)
      BY <3>3 DEF Frames!Abort, Frames!Moves, PhaseMap, ChunkMap, PhaseNow
    <3> QED
      BY <3>4
  <2>8. CASE k = "end"
    <3>1. PhaseNow(r) = "head" /\ Count(r, "head") = 1
      BY <1>2, <2>8, PhaseBefore
    <3>2. PhaseNow(r)' = "ended"
      BY <2>2, <2>8, <3>1 DEF PhaseNow, Phase
    <3>3. PhaseMap[r] = "head" /\ PhaseMap' = [PhaseMap EXCEPT ![r] = "ended"] /\ ChunkMap' = ChunkMap
      BY <1>p, <2>2, <2>3, <2>5, <2>8, <3>1, <3>2
    <3>4. Frames!End(r)
      BY <3>3 DEF Frames!End, Frames!Moves, PhaseMap, ChunkMap, PhaseNow
    <3> QED
      BY <3>4
  <2>9. CASE k = "chunk"
    <3>1. PhaseNow(r) = "head" /\ Count(r, "head") = 1
      BY <1>2, <2>9, PhaseBefore
    <3>2. PhaseNow(r)' = "head"
      BY <2>2, <2>9, <3>1 DEF PhaseNow, Phase
    <3>3. PhaseMap[r] = "head" /\ PhaseMap' = PhaseMap
      BY <1>p, <1>q, <1>s, <2>1, <3>1, <3>2
    <3>4. ChunkMap' = [ChunkMap EXCEPT ![r] = @ + 1]
      BY <1>p, <2>2, <2>4, <2>9
    <3>5. Frames!Chunk(r)
      BY <3>3, <3>4 DEF Frames!Chunk, PhaseMap, ChunkMap, PhaseNow
    <3> QED
      BY <3>5
  <2> QED
    BY <1>2, <2>6, <2>7, <2>8, <2>9
<1> QED
  BY <1>1, <1>2, Sends

-----------------------------------------------------------------------------
(* The theorems.                                                           *)

LEMMA Initially == ASSUME Init PROVE IInv
<1> USE LocalPoolAssumption DEF Init
<1>n. /\ \A r \in Reqs : /\ pc[r] = "none" /\ frames[r] = <<>> /\ ~reused[r]
                         /\ left[r] = 0 /\ conn[r] = NoSock
      /\ \A s \in Sock : svc[s] = "none" /\ Empty(s)
      /\ idle = <<>> /\ q = <<>> /\ \A w \in Workers : worker[w] = "check"
  BY DEF Empty
<1>1. TypeOK
  <2>0. stop_ \in BOOLEAN /\ cut \subseteq Sock /\ broken \subseteq Sock
    OBVIOUS
  <2>1. q \in Seq(Reqs) /\ idle \in Seq(Sock)
    OBVIOUS
  <2>2. worker \in [Workers -> Reqs \cup {"check", "wait", "exited"}]
    OBVIOUS
  <2>3. /\ pc \in [Reqs -> Holding \cup Early \cup {"done"}] /\ attempt \in [Reqs -> {0, 1}]
        /\ reused \in [Reqs -> BOOLEAN] /\ keep \in [Reqs -> BOOLEAN]
        /\ conn \in [Reqs -> Sock \cup {NoSock}]
    BY DEF Early
  <2>4. left \in [Reqs -> 0 .. MaxData] /\ frames \in [Reqs -> Seq(FrameSet)]
    OBVIOUS
  <2>5. /\ svc \in [Sock -> {"none", "open", "closed"}] /\ inbox \in [Sock -> Seq(Reqs)]
        /\ answering \in [Sock -> Seq(PieceSet)] /\ wire \in [Sock -> Seq(PieceSet)]
    OBVIOUS
  <2> QED
    BY <2>0, <2>1, <2>2, <2>3, <2>4, <2>5 DEF TypeOK
<1>2. QueueRight
  BY DEF QueueRight
<1>3. SocksRight
  BY <1>n DEF SocksRight, Holding, Empty
<1> HIDE DEF Init
<1> HIDE LocalPoolAssumption
<1>4. WireRight
  BY <1>n DEF WireRight, UserRight, Holding, Empty
<1>5. \A r \in Reqs : FramesRight(r)
  BY <1>n DEF FramesRight, Early, Consuming
<1>6. \A r \in Reqs : \A c : Count(r, c) = 0
  BY <1>1, <1>n, CountType
<1>7. WholeRight
  BY <1>n, <1>6 DEF WholeRight, Ended
<1>8. OwnAnswer
  BY <1>n DEF OwnAnswer, FrameAt
<1>9. NobodySleepsOnWork
  BY <1>n DEF NobodySleepsOnWork, Waiting
<1> QED
  BY <1>1, <1>2, <1>3, <1>4, <1>5, <1>7, <1>8, <1>9 DEF IInv

LEMMA Inductive == ASSUME IInv, Next PROVE IInv'
<1>1. /\ TypeOK /\ QueueRight /\ SocksRight /\ WireRight /\ \A r \in Reqs : FramesRight(r)
      /\ WholeRight /\ OwnAnswer /\ NobodySleepsOnWork
  BY DEF IInv
<1>2. TypeOK'
  BY <1>1, TypeStep
<1>3. QueueRight' /\ NobodySleepsOnWork'
  BY <1>1, QueueStep, SleepStep
<1>4. SocksRight' /\ WireRight'
  BY <1>1, SocksStep, WireStep
<1>5. \A r \in Reqs : FramesRight(r)'
  BY <1>1, FramesStep
<1>6. WholeRight' /\ OwnAnswer'
  BY <1>1, WholeStep, OwnStep
<1> QED
  BY <1>2, <1>3, <1>4, <1>5, <1>6 DEF IInv

LEMMA Unmoved == ASSUME IInv, UNCHANGED vars PROVE IInv'
<1>1. UNCHANGED <<q, worker, stop_, idle, pc, attempt, reused, conn, keep, left, frames,
                  svc, inbox, answering, wire, cut, broken>>
  BY DEF vars, poolVars, jobVars, workerVars, svcVars, history
<1>2. TypeOK' /\ QueueRight' /\ SocksRight'
  BY <1>1 DEF IInv, TypeOK, QueueRight, SocksRight
<1>3. ASSUME NEW r \in Reqs PROVE UserRight(r)' /\ FramesRight(r)' /\ WholeOf(r)'
  <2>1. UserRight(r) /\ FramesRight(r) /\ WholeOf(r)
    BY DEF IInv, WireRight, WholeRight, WholeOf
  <2> QED
    BY <1>1, <2>1, Untouched, SameFrames, WholeKept
<1>4. WireRight' /\ WholeRight'
  BY <1>1, <1>3 DEF IInv, WireRight, WholeRight, WholeOf, Empty
<1>5. OwnAnswer' /\ NobodySleepsOnWork'
  BY <1>1 DEF IInv, OwnAnswer, FrameAt, NobodySleepsOnWork, Waiting
<1> QED
  BY <1>2, <1>3, <1>4, <1>5 DEF IInv

LEMMA Always == Spec => []IInv
<1>1. IInv /\ [Next]_vars => IInv'
  BY Inductive, Unmoved
<1> QED
  BY <1>1, Initially, PTL DEF Spec

\* While a worker sleeps, as many others are awake to look at the queue as there are jobs
\* in it, and the pool is not to stop (Pool::submit, Pool::run).
THEOREM NobodySleeps == Spec => []NobodySleepsOnWork
<1>1. IInv => NobodySleepsOnWork
  BY DEF IInv
<1> QED
  BY <1>1, Always, PTL

\* No visitor is sent what the service answered to another one, though connections pass
\* from request to request, unless the connection came from the pool and a CRLF was read
\* half on it (LocalPool, runHttpOnce).
THEOREM OwnAnswersOnly == Spec => []OwnAnswer
<1>1. IInv => OwnAnswer
  BY DEF IInv
<1> QED
  BY <1>1, Always, PTL

\* A stream that is ended, not aborted, brought the whole body, unless the connection
\* broke inside the response or a CRLF was read half; one without a body is ended when
\* the service closes the connection (runHttpOnce).
THEOREM WholeAnswersOnly == Spec => []WholeAnswer
<1>1. IInv => WholeAnswer
  BY DEF IInv, WholeRight, Whole, WholeAnswer
<1> QED
  BY <1>1, Always, PTL

\* What is sent for a request is one head, then chunks, then one End, or one Abort and
\* nothing else: the worker implements StreamFrames (handleHttpStream).
THEOREM FramesAsPromised == Spec => ImplementsFrames
<1>1. ASSUME Init PROVE Frames!Init
  <2>1. \A r \in Reqs : frames[r] = <<>> /\ \A c : Count(r, c) = 0
    <3>1. TypeOK
      BY <1>1, Initially DEF IInv
    <3> QED
      BY <1>1, <3>1, CountType DEF Init
  <2>2. \A r \in Reqs : PhaseNow(r) = "silent"
    BY <2>1 DEF PhaseNow, Phase
  <2> QED
    BY <2>1, <2>2 DEF Frames!Init, PhaseNow
<1>2. ASSUME IInv, [Next]_vars PROVE [Frames!Next]_(<<PhaseMap, ChunkMap>>)
  <2>1. CASE UNCHANGED vars
    BY <2>1 DEF vars, workerVars, PhaseMap, ChunkMap, PhaseNow, Phase, Last, Count
  <2>2. CASE Next
    BY <1>2, <2>2, FramesMap DEF IInv, Frames!Next
  <2> QED
    BY <1>2, <2>1, <2>2
<1>3. IInv /\ [Next]_vars => [Frames!Next]_(<<PhaseMap, ChunkMap>>)
  BY <1>2
<1>4. Init => Frames!Init
  BY <1>1
<1> QED
  BY <1>3, <1>4, Always, PTL DEF Spec, ImplementsFrames, Frames!Spec, PhaseMap, ChunkMap, PhaseNow

-----------------------------------------------------------------------------
(* A reader is never stranded: what stays to be read.                      *)

\* What is read over as the head of a response that an earlier one left behind, and
\* the line that ends such a head.
Junk == {"size", "data", "crlf", "cr", "lf", "last"}

EndsIn(z, w) == z # <<>> /\ z[Len(z)].what = w
Brings(z, w) == \E i \in 1 .. Len(z) : z[i].what = w

\* Up to the first last chunk, all that comes is read over.
JunkFirst(z) ==
  \A i \in 1 .. Len(z) : z[i].what \in Junk \/ \E j \in 1 .. i - 1 : z[j].what = "last"

\* What is left by a response on which a CRLF was read half.
HeldUp(s) == JunkFirst(Rest(s)) /\ (svc[s] = "open" => Brings(Rest(s), "last"))

\* What a service that is still open brings to a reader in step with it.
Coming(at, z) ==
  /\ at = "head" =>
       /\ z # <<>> /\ z[1].what \in Framings
       /\ z[1].what = "chunked" => EndsIn(z, "last")
       /\ z[1].what = "until_close" => EndsIn(z, "fin")
  /\ at \in {"size", "data", "crlf"} => EndsIn(z, "last")
  /\ at = "stream" => EndsIn(z, "fin")

\* The reader of a response that has no body and is not known to have none.
AtNothing(r) == pc[r] = "stream" /\ Rest(conn[r]) = <<>> /\ Count(r, "chunk") = 0

\* While the service keeps the connection open, more comes for the reader.
GoesOn(r) ==
  conn[r] \notin cut /\ svc[conn[r]] = "open" =>
    (pc[r] = "head" /\ inbox[conn[r]] # <<>>) \/ Coming(pc[r], Rest(conn[r])) \/ AtNothing(r)

\* Where a reader can be on a connection on which a CRLF was read half.
CutRight(r) ==
  conn[r] \in cut =>
    /\ pc[r] \in {"write", "head", "size", "stream", "end", "release"}
    /\ pc[r] \in {"write", "head", "stream"} => reused[r]
    /\ pc[r] # "stream" => HeldUp(conn[r])
    /\ pc[r] = "size" /\ Rest(conn[r]) # <<>> => Rest(conn[r])[1].what = "lf"

\* What a worker with a connection can count on.
OnRight(r) == pc[r] \in Holding => GoesOn(r) /\ CutRight(r)

\* The part of the invariant that keeps readers going.
GoingRight ==
  /\ \A r \in Reqs : OnRight(r)
  /\ \A i \in 1 .. Len(idle) : idle[i] \in cut => HeldUp(idle[i])
  /\ \A s \in broken : svc[s] = "closed"
  /\ \A s \in cut : svc[s] # "none"

LEMMA EndsTail ==
  ASSUME NEW z \in Seq(PieceSet), NEW w, EndsIn(z, w), z[1].what # w
  PROVE  EndsIn(Tail(z), w)
<1>1. z # <<>> /\ z[Len(z)].what = w
  BY DEF EndsIn
<1>2. /\ Len(z) \in Nat \ {0} /\ Len(Tail(z)) = Len(z) - 1 /\ Tail(z) \in Seq(PieceSet)
      /\ \A i \in 1 .. Len(z) - 1 : Tail(z)[i] = z[i + 1]
  BY <1>1, TailOf
<1>3. Len(z) # 1
  BY <1>1
<1>4. Len(z) - 1 \in 1 .. Len(z) - 1 /\ (Len(z) - 1) + 1 = Len(z)
  BY <1>2, <1>3
<1>t. PICK t \in Seq(PieceSet) : t = Tail(z)
  BY <1>2
<1>5. Tail(z)[Len(z) - 1] = z[Len(z)]
  BY <1>2, <1>4
<1>6. t # <<>>
  <2>1. Len(t) > 0
    BY <1>2, <1>4, <1>t
  <2> QED
    BY <2>1
<1> QED
  BY <1>1, <1>2, <1>5, <1>6, <1>t DEF EndsIn

LEMMA JunkTail ==
  ASSUME NEW z \in Seq(PieceSet), z # <<>>, JunkFirst(z), z[1].what # "last"
  PROVE  JunkFirst(Tail(z)) /\ (Brings(z, "last") => Brings(Tail(z), "last"))
<1>1. /\ Len(z) \in Nat \ {0} /\ Len(Tail(z)) = Len(z) - 1
      /\ \A i \in 1 .. Len(z) - 1 : Tail(z)[i] = z[i + 1]
  BY TailOf
<1>2. ASSUME NEW i \in 1 .. Len(Tail(z))
      PROVE  Tail(z)[i].what \in Junk \/ \E j \in 1 .. i - 1 : Tail(z)[j].what = "last"
  <2>1. i + 1 \in 1 .. Len(z) /\ Tail(z)[i] = z[i + 1]
    BY <1>1
  <2>2. z[i + 1].what \in Junk \/ \E j \in 1 .. i : z[j].what = "last"
    <3>1. z[i + 1].what \in Junk \/ \E j \in 1 .. (i + 1) - 1 : z[j].what = "last"
      BY <2>1 DEF JunkFirst
    <3>2. (i + 1) - 1 = i
      OBVIOUS
    <3> QED
      BY <3>1, <3>2
  <2>3. ASSUME NEW j \in 1 .. i, z[j].what = "last"
        PROVE  \E k \in 1 .. i - 1 : Tail(z)[k].what = "last"
    <3>1. j # 1
      BY <2>3
    <3>2. j - 1 \in 1 .. i - 1 /\ j - 1 \in 1 .. Len(z) - 1 /\ (j - 1) + 1 = j
      BY <1>1, <3>1
    <3>3. Tail(z)[j - 1] = z[j]
      BY <1>1, <3>2
    <3> QED
      BY <2>3, <3>2, <3>3
  <2> QED
    BY <2>1, <2>2, <2>3
<1>3. ASSUME NEW i \in 1 .. Len(z), z[i].what = "last" PROVE Brings(Tail(z), "last")
  <2>1. i # 1
    BY <1>3
  <2>2. i - 1 \in 1 .. Len(z) - 1 /\ (i - 1) + 1 = i
    BY <1>1, <2>1
  <2>3. Tail(z)[i - 1] = z[i]
    BY <1>1, <2>2
  <2> QED
    BY <1>1, <1>3, <2>2, <2>3 DEF Brings
<1> QED
  BY <1>2, <1>3 DEF JunkFirst, Brings

\* The service closes the connection: what it had not written is gone.
LEMMA JunkCut ==
  ASSUME NEW w \in Seq(PieceSet), NEW a \in Seq(PieceSet), NEW z, z = w \o a, JunkFirst(z)
  PROVE  JunkFirst(w)
<1>1. /\ Len(z) = Len(w) + Len(a) /\ Len(w) \in Nat /\ Len(a) \in Nat
      /\ \A i \in 1 .. Len(w) : z[i] = w[i]
  BY CatParts
<1>2. ASSUME NEW i \in 1 .. Len(w)
      PROVE  w[i].what \in Junk \/ \E j \in 1 .. i - 1 : w[j].what = "last"
  <2>1. i \in 1 .. Len(z) /\ z[i] = w[i] /\ \A j \in 1 .. i - 1 : z[j] = w[j]
    BY <1>1
  <2> QED
    BY <1>1, <2>1 DEF JunkFirst
<1> QED
  BY <1>2 DEF JunkFirst

\* It answers another request.
LEMMA JunkGrows ==
  ASSUME NEW w \in Seq(PieceSet), NEW a \in Seq(PieceSet), NEW z, z = w \o a,
         JunkFirst(w), Brings(w, "last")
  PROVE  JunkFirst(z) /\ Brings(z, "last")
<1>1. /\ Len(z) = Len(w) + Len(a) /\ Len(w) \in Nat /\ Len(a) \in Nat
      /\ \A i \in 1 .. Len(w) : z[i] = w[i]
  BY CatParts
<1>2. PICK k \in 1 .. Len(w) : w[k].what = "last"
  BY DEF Brings
<1>3. k \in 1 .. Len(z) /\ z[k].what = "last"
  BY <1>1, <1>2
<1>4. ASSUME NEW i \in 1 .. Len(z)
      PROVE  z[i].what \in Junk \/ \E j \in 1 .. i - 1 : z[j].what = "last"
  <2>1. CASE i <= Len(w)
    <3>1. i \in 1 .. Len(w) /\ z[i] = w[i] /\ \A j \in 1 .. i - 1 : z[j] = w[j]
      BY <1>1, <2>1
    <3> QED
      BY <3>1 DEF JunkFirst
  <2>2. CASE i > Len(w)
    <3>1. k \in 1 .. i - 1
      BY <1>1, <1>2, <2>2
    <3> QED
      BY <1>3, <3>1
  <2> QED
    BY <1>1, <2>1, <2>2
<1> QED
  BY <1>1, <1>3, <1>4 DEF JunkFirst, Brings

\* A CRLF arrives in two segments: y is z with the CRLF behind the first n pieces split.
SplitBehind(z, y, n) ==
  /\ Len(y) = Len(z) + 1 /\ n < Len(z)
  /\ z[n + 1].what = "crlf" /\ y[n + 1].what = "cr" /\ y[n + 2].what = "lf"
  /\ \A i \in 1 .. n : y[i] = z[i]
  /\ \A i \in Nat : i > n + 2 /\ i <= Len(y) => y[i] = z[i - 1]

LEMMA SplitLeaves ==
  ASSUME NEW z \in Seq(PieceSet), NEW y \in Seq(PieceSet), NEW n \in Nat, SplitBehind(z, y, n)
  PROVE  /\ y # <<>> /\ z # <<>>
         /\ JunkFirst(z) => JunkFirst(y)
         /\ \A x \in {"last", "fin"} : (Brings(z, x) => Brings(y, x)) /\ (EndsIn(z, x) => EndsIn(y, x))
         /\ z[1].what # "crlf" => y[1] = z[1]
<1>1. /\ Len(y) \in Nat /\ Len(z) \in Nat /\ Len(y) = Len(z) + 1 /\ n < Len(z)
      /\ y[n + 1].what = "cr" /\ y[n + 2].what = "lf"
      /\ \A i \in 1 .. n : y[i] = z[i]
      /\ \A i \in Nat : i > n + 2 /\ i <= Len(y) => y[i] = z[i - 1]
  BY DEF SplitBehind
<1>2. z[n + 1].what = "crlf"
  BY DEF SplitBehind
\* Where a piece of the one goes in the other.
<1>3. ASSUME NEW i \in 1 .. Len(z), z[i].what # "crlf"
      PROVE  \E k \in 1 .. Len(y) : y[k] = z[i] /\ k >= i /\ k <= i + 1 /\ (i <= n => k = i)
                                    /\ (i > n => k = i + 1)
  <2>1. CASE i <= n
    <3>1. i \in 1 .. n /\ i \in 1 .. Len(y)
      BY <1>1, <2>1
    <3> QED
      BY <1>1, <2>1, <3>1
  <2>2. CASE i > n
    <3>1. i # n + 1
      BY <1>2, <1>3
    <3>2. i + 1 \in 1 .. Len(y) /\ i + 1 > n + 2 /\ i + 1 \in Nat /\ i + 1 <= Len(y) /\ (i + 1) - 1 = i
      BY <1>1, <2>2, <3>1
    <3>3. y[i + 1] = z[(i + 1) - 1]
      BY <1>1, <3>2
    <3> QED
      BY <1>1, <2>2, <3>2, <3>3
  <2> QED
    BY <1>1, <2>1, <2>2
<1>4. ASSUME JunkFirst(z), NEW i \in 1 .. Len(y)
      PROVE  y[i].what \in Junk \/ \E j \in 1 .. i - 1 : y[j].what = "last"
  <2>1. CASE i <= n
    <3>1. i \in 1 .. Len(z) /\ i \in 1 .. n /\ y[i] = z[i] /\ \A j \in 1 .. i - 1 : y[j] = z[j]
      BY <1>1, <2>1
    <3> QED
      BY <1>4, <3>1 DEF JunkFirst
  <2>2. CASE i \in {n + 1, n + 2}
    BY <1>1, <2>2 DEF Junk
  <2>3. CASE i > n + 2
    <3>1. y[i] = z[i - 1] /\ i - 1 \in 1 .. Len(z) /\ i - 1 \in Nat
      BY <1>1, <2>3
    <3>2. ASSUME NEW j \in 1 .. (i - 1) - 1, z[j].what = "last"
          PROVE  \E k \in 1 .. i - 1 : y[k].what = "last"
      <4>1. j \in 1 .. Len(z)
        BY <3>1
      <4>2. PICK k \in 1 .. Len(y) : y[k] = z[j] /\ k >= j /\ k <= j + 1
        BY <1>3, <3>2, <4>1
      <4>3. k \in 1 .. i - 1
        BY <4>2
      <4> QED
        BY <3>2, <4>2, <4>3
    <3>3. z[i - 1].what \in Junk \/ \E j \in 1 .. (i - 1) - 1 : z[j].what = "last"
      BY <1>4, <3>1 DEF JunkFirst
    <3> QED
      BY <3>1, <3>2, <3>3
  <2> QED
    BY <1>1, <2>1, <2>2, <2>3
<1>5. ASSUME NEW x \in {"last", "fin"}, Brings(z, x) PROVE Brings(y, x)
  <2>1. PICK i \in 1 .. Len(z) : z[i].what = x
    BY <1>5 DEF Brings
  <2>2. \E k \in 1 .. Len(y) : y[k] = z[i]
    BY <1>3, <1>5, <2>1
  <2> QED
    BY <2>1, <2>2 DEF Brings
<1>6. ASSUME NEW x \in {"last", "fin"}, EndsIn(z, x) PROVE EndsIn(y, x)
  <2>1. Len(z) \in 1 .. Len(z) /\ z[Len(z)].what = x
    BY <1>1, <1>6 DEF EndsIn
  <2>2. PICK k \in 1 .. Len(y) : y[k] = z[Len(z)] /\ (Len(z) > n => k = Len(z) + 1)
    BY <1>3, <1>6, <2>1
  <2>3. k = Len(y)
    BY <1>1, <2>2
  <2>4. y # <<>>
    BY <1>1
  <2> QED
    BY <2>1, <2>2, <2>3, <2>4 DEF EndsIn
<1>7. y # <<>> /\ z # <<>>
  BY <1>1
<1>8. ASSUME z[1].what # "crlf" PROVE y[1] = z[1]
  <2>1. n # 0
    BY <1>2, <1>8
  <2>2. 1 \in 1 .. n
    BY <1>1, <2>1
  <2> QED
    BY <1>1, <2>2
<1> QED
  BY <1>1, <1>4, <1>5, <1>6, <1>7, <1>8 DEF JunkFirst

\* Behind the first piece of a chunked response comes only what can be read over.
LEMMA ChunkedJunk ==
  ASSUME NEW z \in Seq(PieceSet), z # <<>>, InOrder("chunked", z)
  PROVE  JunkFirst(Tail(z))
<1>1. /\ Len(z) \in Nat \ {0} /\ Len(Tail(z)) = Len(z) - 1
      /\ \A i \in 1 .. Len(z) - 1 : Tail(z)[i] = z[i + 1]
  BY TailOf
<1>2. ASSUME NEW i \in 1 .. Len(Tail(z)) PROVE Tail(z)[i].what \in Junk
  <2>1. i \in 1 .. Len(z) - 1 /\ Tail(z)[i] = z[i + 1]
    BY <1>1
  <2>2. z[i + 1].what \in Behind("chunked", z[i].what)
    BY <2>1 DEF InOrder
  <2>3. \A x : Behind("chunked", x) \subseteq Junk
    BY DEF Behind, Junk
  <2> QED
    BY <2>1, <2>2, <2>3
<1> QED
  BY <1>2 DEF JunkFirst

-----------------------------------------------------------------------------
(* A reader is never stranded: the steps.                                  *)

\* A step of somebody else.
LEMMA OnKept ==
  ASSUME NEW r \in Reqs, OnRight(r), pc'[r] = pc[r], reused'[r] = reused[r], conn'[r] = conn[r],
         frames'[r] = frames[r],
         pc[r] \in Holding =>
           /\ wire'[conn[r]] = wire[conn[r]] /\ inbox'[conn[r]] = inbox[conn[r]]
           /\ answering'[conn[r]] = answering[conn[r]] /\ svc'[conn[r]] = svc[conn[r]]
           /\ conn[r] \in cut' <=> conn[r] \in cut
  PROVE  OnRight(r)'
<1> SUFFICES ASSUME pc[r] \in Holding PROVE GoesOn(r)' /\ CutRight(r)'
  BY DEF OnRight
<1>1. GoesOn(r) /\ CutRight(r)
  BY DEF OnRight
<1>2. PICK s : s = conn[r]
  OBVIOUS
<1>3. Rest(s)' = Rest(s) /\ svc'[s] = svc[s] /\ inbox'[s] = inbox[s] /\ (s \in cut' <=> s \in cut)
  BY <1>2 DEF Rest
<1>4. conn'[r] = s
  BY <1>2
<1>c. Count(r, "chunk")' = Count(r, "chunk") /\ Rest(conn[r])' = Rest(conn[r])
  BY <1>2, <1>3, <1>4 DEF Count, Rest
<1>e. AtNothing(r) => AtNothing(r)'
  BY <1>c DEF AtNothing
<1>5. GoesOn(r)'
  BY <1>1, <1>2, <1>3, <1>4, <1>c, <1>e DEF GoesOn, Coming
<1>6. CutRight(r)'
  BY <1>1, <1>2, <1>3, <1>4 DEF CutRight, HeldUp, Rest
<1> QED
  BY <1>5, <1>6

LEMMA HeldKept ==
  ASSUME NEW s, HeldUp(s), wire'[s] = wire[s], answering'[s] = answering[s],
         svc'[s] = "open" => svc[s] = "open"
  PROVE  HeldUp(s)'
BY DEF HeldUp, Rest

\* What is left when the next piece is read.
LEMMA OnTaken ==
  ASSUME TypeOK, SocksRight, NEW r \in Reqs, pc[r] \in Holding, wire[conn[r]] # <<>>, Take(r),
         UNCHANGED <<conn, answering>>
  PROVE  \E z \in Seq(PieceSet) :
           /\ z = Rest(conn[r]) /\ z # <<>> /\ z[1] = Piece(r) /\ Rest(conn[r])' = Tail(z)
<1>1. PICK s \in Sock : s = conn[r]
  BY DEF SocksRight
<1>2. /\ Rest(s)' = Tail(Rest(s)) /\ Rest(s) # <<>> /\ Rest(s)[1] = Piece(r)
      /\ Rest(s) \in Seq(PieceSet)
  BY <1>1, ReadPiece
<1>3. Rest(conn[r])' = Rest(s)'
  BY <1>1 DEF Rest
<1> QED
  BY <1>1, <1>2, <1>3

LEMMA JunkHere ==
  ASSUME NEW z \in Seq(PieceSet), z # <<>>, JunkFirst(z)
  PROVE  z[1].what \in Junk
<1>1. 1 \in 1 .. Len(z) /\ 1 .. 1 - 1 = {}
  BY TailOf
<1> QED
  BY <1>1 DEF JunkFirst

LEMMA HeadGoesOn ==
  ASSUME TypeOK, SocksRight, NEW r \in Reqs, FramesRight(r), UserRight(r), OnRight(r), ReadHead(r)
  PROVE  OnRight(r)'
<1>t. /\ pc \in [Reqs -> Spots] /\ pc[r] = "head" /\ pc[r] \in Holding /\ conn[r] \in Sock
  BY DEF TypeOK, Spots, ReadHead, SocksRight, Holding
<1>u. /\ UNCHANGED <<conn, reused, inbox, answering, svc, cut>> /\ Take(r)
      /\ wire[conn[r]] # <<>> /\ Piece(r).what \in Framings /\ pc'[r] = Body(Piece(r).what)
  BY <1>t DEF ReadHead, svcVars, history, Goto, Readable
<1>1. PICK z \in Seq(PieceSet) :
        z = Rest(conn[r]) /\ z # <<>> /\ z[1] = Piece(r) /\ Rest(conn[r])' = Tail(z)
  BY <1>t, <1>u, OnTaken
<1>a. GoesOn(r) /\ CutRight(r)
  BY <1>t DEF OnRight
<1>2. conn[r] \notin cut
  <2>1. conn[r] \in cut => JunkFirst(z)
    BY <1>1, <1>a, <1>t DEF CutRight, HeldUp
  <2>2. conn[r] \in cut => z[1].what \in Junk
    BY <1>1, <2>1, JunkHere
  <2> QED
    BY <1>1, <1>u, <2>2, LocalPoolAssumption DEF Junk
<1>f. PICK f \in Framings : Remains(r, f)
  BY <1>2, <1>t, <1>u, ReaderKnows
<1>3. inbox[conn[r]] = <<>>
  BY <1>f DEF Remains
<1>b. z[1].what = "bare" => AtNothing(r)'
  <2> SUFFICES ASSUME z[1].what = "bare" PROVE AtNothing(r)'
    OBVIOUS
  <2>1. InOrder(f, z) /\ z[1].what \in Expects(f, "head")
    BY <1>1, <1>f, <1>t DEF Remains, Fits
  <2>2. f = "bare" /\ Behind(f, z[1].what) = {}
    BY <2>1 DEF Expects, Behind
  <2>3. Tail(z) = <<>>
    BY <1>1, <2>1, <2>2, InOrderTail
  <2>4. Count(r, "chunk") = 0
    BY <1>t, CountType DEF FramesRight, Early
  <2>5. Count(r, "chunk")' = 0
    <3>1. Piece(r).of \in Reqs /\ Send(r, "head", Piece(r).of)
      BY <1>t, <1>u, NextPiece DEF ReadHead
    <3> QED
      BY <2>4, <3>1, Counted DEF Kinds
  <2>6. pc'[r] = "stream"
    BY <1>1, <1>u DEF Body
  <2> QED
    BY <1>1, <2>3, <2>5, <2>6 DEF AtNothing
<1>4. CutRight(r)'
  BY <1>2, <1>u DEF CutRight
<1>5. ASSUME svc[conn[r]] = "open", z[1].what # "bare" PROVE Coming(pc'[r], Tail(z))
  <2>1. Coming("head", z)
    BY <1>1, <1>2, <1>3, <1>5, <1>a, <1>t DEF GoesOn, AtNothing
  <2>2. CASE z[1].what = "chunked"
    <3>1. EndsIn(z, "last") /\ z[1].what # "last" /\ pc'[r] = "size"
      BY <1>1, <1>u, <2>1, <2>2 DEF Coming, Body
    <3> QED
      BY <3>1, EndsTail DEF Coming
  <2>3. CASE z[1].what = "until_close"
    <3>1. EndsIn(z, "fin") /\ z[1].what # "fin" /\ pc'[r] = "stream"
      BY <1>1, <1>u, <2>1, <2>3 DEF Coming, Body
    <3> QED
      BY <3>1, EndsTail DEF Coming
  <2>4. CASE z[1].what \notin {"chunked", "until_close"}
    <3>1. pc'[r] = "length"
      BY <1>1, <1>5, <1>u, <2>4 DEF Body
    <3> QED
      BY <3>1 DEF Coming
  <2> QED
    BY <2>2, <2>3, <2>4
<1>6. GoesOn(r)'
  BY <1>1, <1>5, <1>b, <1>u DEF GoesOn, Coming
<1> QED
  BY <1>4, <1>6 DEF OnRight

LEMMA JunkGoesOn ==
  ASSUME TypeOK, SocksRight, NEW r \in Reqs, UserRight(r), OnRight(r), ReadJunkHead(r)
  PROVE  OnRight(r)'
<1>t. /\ pc \in [Reqs -> Spots] /\ pc[r] = "head" /\ pc[r] \in Holding /\ conn[r] \in Sock
  BY DEF TypeOK, Spots, ReadJunkHead, SocksRight, Holding
<1>u. /\ UNCHANGED <<conn, reused, inbox, answering, svc, cut>> /\ Take(r)
      /\ wire[conn[r]] # <<>> /\ Piece(r).what \in Junk
      /\ pc'[r] = IF Piece(r).what = "last" THEN "stream" ELSE "head"
  BY <1>t DEF ReadJunkHead, svcVars, history, Goto, Readable, Junk
<1>1. PICK z \in Seq(PieceSet) :
        z = Rest(conn[r]) /\ z # <<>> /\ z[1] = Piece(r) /\ Rest(conn[r])' = Tail(z)
  BY <1>t, <1>u, OnTaken
<1>2. conn[r] \in cut
  <2>1. ASSUME conn[r] \notin cut PROVE FALSE
    <3>1. PICK f \in Framings : Remains(r, f)
      BY <1>t, <1>u, <2>1, ReaderKnows
    <3>2. z[1].what \in Expects(f, "head")
      BY <1>1, <1>t, <3>1 DEF Remains, Fits
    <3>3. z[1].what = f
      BY <3>2 DEF Expects
    <3> QED
      BY <1>1, <1>u, <3>3, LocalPoolAssumption DEF Junk
  <2> QED
    BY <2>1
<1>3. /\ reused[r] /\ JunkFirst(z) /\ (svc[conn[r]] = "open" => Brings(z, "last"))
  BY <1>1, <1>2, <1>t DEF OnRight, CutRight, HeldUp
<1>4. Piece(r).what # "last" => HeldUp(conn[r])'
  <2>1. z[1].what # "last" => JunkFirst(Tail(z)) /\ (Brings(z, "last") => Brings(Tail(z), "last"))
    BY <1>1, <1>3, JunkTail
  <2> QED
    BY <1>1, <1>3, <1>u, <2>1 DEF HeldUp
<1>5. CutRight(r)'
  BY <1>3, <1>4, <1>u DEF CutRight, HeldUp
<1>6. GoesOn(r)'
  BY <1>2, <1>u DEF GoesOn
<1> QED
  BY <1>5, <1>6 DEF OnRight

LEMMA SizeGoesOn ==
  ASSUME TypeOK, SocksRight, NEW r \in Reqs, UserRight(r), OnRight(r), ReadSize(r)
  PROVE  OnRight(r)'
<1>t. /\ pc \in [Reqs -> Spots] /\ pc[r] = "size" /\ pc[r] \in Holding /\ conn[r] \in Sock
  BY DEF TypeOK, Spots, ReadSize, SocksRight, Holding
<1>u. UNCHANGED <<conn, reused, inbox, answering, svc, cut>>
  BY DEF ReadSize, svcVars, history
<1>a. GoesOn(r) /\ CutRight(r)
  BY <1>t DEF OnRight
<1>1. CASE Readable(r, {"size"}) /\ Take(r) /\ Goto(r, "data")
  <2>1. PICK z \in Seq(PieceSet) :
          z = Rest(conn[r]) /\ z # <<>> /\ z[1] = Piece(r) /\ Rest(conn[r])' = Tail(z)
    BY <1>1, <1>t, <1>u, OnTaken DEF Readable
  <2>2. z[1].what = "size" /\ pc'[r] = "data"
    BY <1>1, <1>t, <2>1 DEF Readable, Goto
  <2>3. conn[r] \notin cut
    BY <1>a, <1>t, <2>1, <2>2 DEF CutRight
  <2>4. svc[conn[r]] = "open" => EndsIn(z, "last")
    BY <1>a, <1>t, <2>1, <2>3 DEF GoesOn, Coming, AtNothing
  <2>5. svc[conn[r]] = "open" => EndsIn(Tail(z), "last")
    BY <2>2, <2>4, EndsTail
  <2>6. GoesOn(r)'
    BY <1>u, <2>1, <2>2, <2>5 DEF GoesOn, Coming
  <2> QED
    BY <1>u, <2>3, <2>6 DEF OnRight, CutRight
<1>2. CASE Readable(r, {"lf", "last"}) /\ Take(r) /\ Goto(r, "end")
  <2>1. PICK z \in Seq(PieceSet) :
          z = Rest(conn[r]) /\ z # <<>> /\ z[1] = Piece(r) /\ Rest(conn[r])' = Tail(z)
    BY <1>2, <1>t, <1>u, OnTaken DEF Readable
  <2>2. pc'[r] = "end"
    BY <1>2, <1>t DEF Goto
  <2>3. ASSUME conn[r] \in cut PROVE HeldUp(conn[r])'
    <3>1. z[1].what = "lf" /\ JunkFirst(z) /\ (svc[conn[r]] = "open" => Brings(z, "last"))
      BY <1>a, <1>t, <2>1, <2>3 DEF CutRight, HeldUp
    <3>2. JunkFirst(Tail(z)) /\ (Brings(z, "last") => Brings(Tail(z), "last"))
      BY <2>1, <3>1, JunkTail
    <3> QED
      BY <1>u, <2>1, <3>1, <3>2 DEF HeldUp
  <2>4. CutRight(r)'
    BY <1>u, <2>2, <2>3 DEF CutRight, HeldUp
  <2> QED
    BY <2>2, <2>4 DEF OnRight, GoesOn, Coming
<1>3. CASE EndOfInput(r) /\ UNCHANGED wire /\ Goto(r, "end")
  <2>1. pc'[r] = "end" /\ UNCHANGED wire
    BY <1>3, <1>t DEF Goto
  <2>2. CutRight(r)'
    BY <1>a, <1>t, <1>u, <2>1 DEF CutRight, HeldUp, Rest
  <2> QED
    BY <2>1, <2>2 DEF OnRight, GoesOn, Coming
<1> QED
  BY <1>1, <1>2, <1>3 DEF ReadSize

LEMMA ChunkGoesOn ==
  ASSUME TypeOK, SocksRight, NEW r \in Reqs, UserRight(r), OnRight(r), ReadChunk(r)
  PROVE  OnRight(r)'
<1>t. /\ pc \in [Reqs -> Spots] /\ pc[r] = "data" /\ pc[r] \in Holding /\ conn[r] \in Sock
  BY DEF TypeOK, Spots, ReadChunk, SocksRight, Holding
<1>u. UNCHANGED <<conn, reused, inbox, answering, svc, cut>> /\ pc'[r] = "crlf"
  BY <1>t DEF ReadChunk, svcVars, history, Goto
<1>a. GoesOn(r) /\ CutRight(r)
  BY <1>t DEF OnRight
<1>1. conn[r] \notin cut
  BY <1>a, <1>t DEF CutRight
<1>2. CASE Readable(r, {"data"}) /\ Take(r)
  <2>1. PICK z \in Seq(PieceSet) :
          z = Rest(conn[r]) /\ z # <<>> /\ z[1] = Piece(r) /\ Rest(conn[r])' = Tail(z)
    BY <1>2, <1>t, <1>u, OnTaken DEF Readable
  <2>2. z[1].what = "data"
    BY <1>2, <2>1 DEF Readable
  <2>3. svc[conn[r]] = "open" => EndsIn(z, "last")
    BY <1>1, <1>a, <1>t, <2>1 DEF GoesOn, Coming, AtNothing
  <2>4. svc[conn[r]] = "open" => EndsIn(Tail(z), "last")
    BY <2>2, <2>3, EndsTail
  <2>5. GoesOn(r)'
    BY <1>u, <2>1, <2>4 DEF GoesOn, Coming
  <2> QED
    BY <1>1, <1>u, <2>5 DEF OnRight, CutRight
<1>3. CASE EndOfInput(r)
  BY <1>1, <1>3, <1>u DEF OnRight, CutRight, GoesOn, EndOfInput
<1> QED
  BY <1>2, <1>3 DEF ReadChunk

\* What is left by half a CRLF.
LEMMA HalfCrlf ==
  ASSUME NEW z \in Seq(PieceSet), z # <<>>, InOrder("chunked", z), z[1].what = "cr"
  PROVE  /\ JunkFirst(Tail(z)) /\ (Tail(z) # <<>> => Tail(z)[1].what = "lf")
         /\ EndsIn(z, "last") => EndsIn(Tail(z), "last") /\ Brings(Tail(z), "last")
<1>1. JunkFirst(Tail(z))
  BY ChunkedJunk
<1>2. Tail(z) # <<>> => Tail(z)[1].what \in Behind("chunked", z[1].what)
  BY InOrderTail
<1>3. Behind("chunked", "cr") = {"lf"}
  BY LocalPoolAssumption DEF Behind
<1>4. ASSUME EndsIn(z, "last") PROVE EndsIn(Tail(z), "last") /\ Brings(Tail(z), "last")
  <2>1. EndsIn(Tail(z), "last")
    BY <1>4, EndsTail
  <2>2. PICK t \in Seq(PieceSet) : t = Tail(z)
    BY TailOf
  <2>3. t # <<>> /\ t[Len(t)].what = "last"
    BY <2>1, <2>2 DEF EndsIn
  <2>4. Len(t) \in 1 .. Len(t)
    BY <2>3
  <2> QED
    BY <2>1, <2>2, <2>3, <2>4 DEF Brings
<1> QED
  BY <1>1, <1>2, <1>3, <1>4

LEMMA CrlfGoesOn ==
  ASSUME TypeOK, SocksRight, NEW r \in Reqs, UserRight(r), OnRight(r), ReadCrlf(r)
  PROVE  OnRight(r)'
<1>t. /\ pc \in [Reqs -> Spots] /\ pc[r] = "crlf" /\ pc[r] \in Holding /\ conn[r] \in Sock
      /\ pc[r] \in Consuming
  BY DEF TypeOK, Spots, ReadCrlf, SocksRight, Holding, Consuming
<1>u. UNCHANGED <<conn, reused, inbox, answering, svc>> /\ pc'[r] = "size"
  BY <1>t DEF ReadCrlf, svcVars, Goto
<1>a. GoesOn(r) /\ CutRight(r)
  BY <1>t DEF OnRight
<1>1. conn[r] \notin cut
  BY <1>a, <1>t DEF CutRight
<1>2. PICK s \in Sock : s = conn[r]
  BY <1>t
<1>3. InOrder("chunked", Rest(s))
  <2>1. PICK f \in Framings : Remains(r, f)
    BY <1>1, <1>t, ReaderKnows
  <2>2. f = "chunked"
    BY <1>t, <2>1, LoopOf
  <2> QED
    BY <1>2, <2>1, <2>2 DEF Remains, Fits
<1>4. svc[s] = "open" => EndsIn(Rest(s), "last")
  BY <1>1, <1>2, <1>a, <1>t DEF GoesOn, Coming, AtNothing
<1>5. CASE Readable(r, {"crlf"}) /\ Take(r) /\ UNCHANGED cut
  <2>1. PICK z \in Seq(PieceSet) :
          z = Rest(conn[r]) /\ z # <<>> /\ z[1] = Piece(r) /\ Rest(conn[r])' = Tail(z)
    BY <1>5, <1>t, <1>u, OnTaken DEF Readable
  <2>2. z[1].what = "crlf"
    BY <1>5, <2>1 DEF Readable
  <2>3. svc[s] = "open" => EndsIn(Tail(z), "last")
    BY <1>2, <1>4, <2>1, <2>2, EndsTail
  <2>4. GoesOn(r)'
    BY <1>2, <1>u, <2>1, <2>3 DEF GoesOn, Coming
  <2> QED
    BY <1>1, <1>5, <1>u, <2>4 DEF OnRight, CutRight
<1>6. CASE Readable(r, {"cr"}) /\ Take(r) /\ cut' = cut \cup {conn[r]}
  <2>1. PICK z \in Seq(PieceSet) :
          z = Rest(conn[r]) /\ z # <<>> /\ z[1] = Piece(r) /\ Rest(conn[r])' = Tail(z)
    BY <1>6, <1>t, <1>u, OnTaken DEF Readable
  <2>2. z[1].what = "cr"
    BY <1>6, <2>1 DEF Readable
  <2>3. /\ JunkFirst(Tail(z)) /\ (Tail(z) # <<>> => Tail(z)[1].what = "lf")
        /\ svc[s] = "open" => Brings(Tail(z), "last")
    BY <1>2, <1>3, <1>4, <2>1, <2>2, HalfCrlf
  <2>4. HeldUp(conn[r])'
    BY <1>2, <1>u, <2>1, <2>3 DEF HeldUp
  <2>5. CutRight(r)'
    BY <1>2, <1>u, <2>1, <2>3, <2>4 DEF CutRight, HeldUp
  <2>6. GoesOn(r)'
    BY <1>6, <1>u DEF GoesOn
  <2> QED
    BY <2>5, <2>6 DEF OnRight
<1>7. CASE /\ Readable(r, {"cr"}) /\ Len(wire[conn[r]]) > 1 /\ UNCHANGED cut
           /\ wire' = [wire EXCEPT ![conn[r]] = Tail(Tail(@))]
  <2>1. PICK w \in Seq(PieceSet) : w = wire[s] /\ w # <<>> /\ Len(w) > 1 /\ w[1].what = "cr"
    <3>1. wire[s] \in Seq(PieceSet) /\ wire[s] # <<>> /\ Piece(r) = wire[s][1] /\ Piece(r).what = "cr"
      BY <1>2, <1>7, <1>t, NextPiece DEF Readable
    <3> QED
      BY <1>2, <1>7, <3>1
  <2>2. PICK a \in Seq(PieceSet) : a = answering[s]
    BY DEF TypeOK
  <2>3. PICK w1 \in Seq(PieceSet) : w1 = Tail(w) /\ w1 # <<>>
    <3>1. Tail(w) \in Seq(PieceSet) /\ Len(Tail(w)) = Len(w) - 1 /\ Len(w) \in Nat
      BY <2>1, TailOf
    <3>2. PICK t \in Seq(PieceSet) : t = Tail(w)
      BY <3>1
    <3>3. Len(t) > 0
      BY <2>1, <3>1, <3>2
    <3>4. t # <<>>
      BY <3>3
    <3> QED
      BY <3>2, <3>4
  <2>4. PICK w2 \in Seq(PieceSet) : w2 = Tail(w1)
    BY <2>3, TailOf
  <2>5. wire'[s] = w2 /\ answering'[s] = a
    BY <1>2, <1>7, <1>u, <2>1, <2>2, <2>3, <2>4 DEF TypeOK
  <2>6. PICK z \in Seq(PieceSet) : z = w \o a
    BY <2>1, <2>2, CatParts
  <2>7. PICK z1 \in Seq(PieceSet) : z1 = w1 \o a
    BY <2>2, <2>3, CatParts
  <2>8. z1 = Tail(z) /\ z # <<>> /\ z[1] = w[1]
    <3>0. w \in Seq(PieceSet) /\ w # <<>> /\ a \in Seq(PieceSet)
      BY <2>1, <2>2
    <3>1. Tail(w) \o a = Tail(w \o a) /\ w \o a # <<>> /\ (w \o a)[1] = w[1]
      BY <3>0, CatTail, SMTT(30)
    <3> QED
      BY <2>3, <2>6, <2>7, <3>1, Zenon
  <2>9. w2 \o a = Tail(z1) /\ z1 # <<>>
    <3>0. w1 \in Seq(PieceSet) /\ w1 # <<>> /\ a \in Seq(PieceSet)
      BY <2>2, <2>3
    <3>1. Tail(w1) \o a = Tail(w1 \o a) /\ w1 \o a # <<>>
      BY <3>0, CatTail, SMTT(30)
    <3> QED
      BY <2>4, <2>7, <3>1, Zenon
  <2>10. Rest(s) = z /\ Rest(s)' = Tail(z1)
    BY <2>1, <2>2, <2>5, <2>6, <2>9 DEF Rest
  <2>11. /\ z1 # <<>> => z1[1].what = "lf"
         /\ svc[s] = "open" => EndsIn(z1, "last")
    <3>1. z \in Seq(PieceSet) /\ z # <<>> /\ InOrder("chunked", z) /\ z[1].what = "cr"
      BY <1>3, <2>1, <2>6, <2>8, <2>10
    <3>2. /\ Tail(z) # <<>> => Tail(z)[1].what = "lf"
          /\ EndsIn(z, "last") => EndsIn(Tail(z), "last")
      BY <3>1, HalfCrlf
    <3> QED
      BY <1>4, <2>8, <2>10, <3>2
  <2>12. svc[s] = "open" => EndsIn(Tail(z1), "last")
    BY <2>7, <2>9, <2>11, EndsTail
  <2>13. GoesOn(r)'
    <3>1. Rest(conn[r])' = Tail(z1) /\ conn'[r] = s
      BY <1>2, <1>u, <2>10 DEF Rest
    <3> QED
      BY <1>u, <2>12, <3>1 DEF GoesOn, Coming
  <2> QED
    BY <1>1, <1>7, <1>u, <2>13 DEF OnRight, CutRight
<1>8. CASE EndOfInput(r) /\ UNCHANGED cut
  BY <1>1, <1>8, <1>u DEF OnRight, CutRight, GoesOn, EndOfInput
<1> QED
  BY <1>5, <1>6, <1>7, <1>8 DEF ReadCrlf

LEMMA LengthGoesOn ==
  ASSUME TypeOK, SocksRight, NEW r \in Reqs, UserRight(r), OnRight(r), ReadLength(r)
  PROVE  OnRight(r)'
<1>t. /\ pc \in [Reqs -> Spots] /\ pc[r] = "length" /\ pc[r] \in Holding
  BY DEF TypeOK, Spots, ReadLength, Holding
<1>u. UNCHANGED <<conn, cut>> /\ pc'[r] \in {"length", "end"}
  BY <1>t DEF ReadLength, history, Goto
<1>1. conn[r] \notin cut
  BY <1>t DEF OnRight, CutRight
<1> QED
  BY <1>1, <1>u DEF OnRight, CutRight, GoesOn, Coming

LEMMA StreamGoesOn ==
  ASSUME TypeOK, SocksRight, NEW r \in Reqs, UserRight(r), OnRight(r), ReadStream(r),
         NoFin(wire[conn[r]])
  PROVE  OnRight(r)'
<1>t. /\ pc \in [Reqs -> Spots] /\ pc[r] = "stream" /\ pc[r] \in Holding /\ conn[r] \in Sock
  BY DEF TypeOK, Spots, ReadStream, SocksRight, Holding
<1>u. UNCHANGED <<conn, reused, inbox, answering, svc, cut>>
  BY DEF ReadStream, svcVars, history
<1>a. GoesOn(r) /\ CutRight(r)
  BY <1>t DEF OnRight
<1>1. CASE wire[conn[r]] # <<>> /\ Take(r) /\ UNCHANGED pc
  <2>1. PICK z \in Seq(PieceSet) :
          z = Rest(conn[r]) /\ z # <<>> /\ z[1] = Piece(r) /\ Rest(conn[r])' = Tail(z)
    BY <1>1, <1>t, <1>u, OnTaken
  <2>2. z[1].what # "fin"
    <3>1. Piece(r) = wire[conn[r]][1] /\ wire[conn[r]] \in Seq(PieceSet)
      BY <1>1, <1>t, NextPiece
    <3>2. 1 \in 1 .. Len(wire[conn[r]])
      BY <1>1, <3>1, TailOf
    <3> QED
      BY <2>1, <3>1, <3>2 DEF NoFin
  <2>3. conn[r] \notin cut /\ svc[conn[r]] = "open" => EndsIn(Tail(z), "fin")
    BY <1>a, <1>t, <2>1, <2>2, EndsTail DEF GoesOn, Coming, AtNothing
  <2>4. GoesOn(r)'
    BY <1>1, <1>t, <1>u, <2>1, <2>3 DEF GoesOn, Coming
  <2>5. CutRight(r)'
    BY <1>1, <1>a, <1>t, <1>u DEF CutRight
  <2> QED
    BY <2>4, <2>5 DEF OnRight
<1>2. CASE EndOfInput(r) /\ UNCHANGED wire /\ Goto(r, "end")
  <2>1. pc'[r] = "end" /\ wire[conn[r]] = <<>> /\ svc[conn[r]] = "closed"
    BY <1>2, <1>t DEF Goto, EndOfInput
  <2>2. answering[conn[r]] = <<>>
    BY <1>t, <2>1 DEF SocksRight
  <2>3. Rest(conn[r])' = <<>>
    <3>1. Rest(conn[r]) = <<>>
      BY <1>t, <2>1, <2>2, OwedType
    <3> QED
      BY <1>2, <1>u, <3>1 DEF Rest
  <2>4. HeldUp(conn[r])'
    BY <1>u, <2>1, <2>3 DEF HeldUp, JunkFirst
  <2>5. CutRight(r)'
    BY <2>1, <2>3, <2>4 DEF CutRight, HeldUp
  <2> QED
    BY <2>1, <2>5 DEF OnRight, GoesOn, Coming
<1> QED
  BY <1>1, <1>2 DEF ReadStream

LEMMA ReadsGoOn ==
  ASSUME TypeOK, SocksRight, NEW r \in Reqs, FramesRight(r), UserRight(r), OnRight(r), Reads(r),
         NoFin(wire[conn[r]])
  PROVE  OnRight(r)'
BY HeadGoesOn, JunkGoesOn, SizeGoesOn, ChunkGoesOn, CrlfGoesOn, LengthGoesOn, StreamGoesOn DEF Reads

\* A worker changes no connection but its own, or one that was nobody's.
LEMMA Apart ==
  ASSUME TypeOK, NEW r \in Reqs, Worker(r), NEW t \in Sock, svc[t] # "none",
         pc[r] \in Holding => conn[r] # t /\ conn[r] \in Sock
  PROVE  /\ wire'[t] = wire[t] /\ inbox'[t] = inbox[t] /\ answering'[t] = answering[t]
         /\ svc'[t] = svc[t] /\ (t \in cut' <=> t \in cut)
<1>t. /\ inbox \in [Sock -> Seq(Reqs)] /\ wire \in [Sock -> Seq(PieceSet)]
      /\ svc \in [Sock -> {"none", "open", "closed"}]
  BY DEF TypeOK
<1>1. CASE Reads(r)
  <2>1. conn[r] # t /\ conn[r] \in Sock /\ UNCHANGED <<inbox, answering, svc>>
    BY <1>1, ReadsAlike
  <2>2. wire' = wire \/ wire' = [wire EXCEPT ![conn[r]] = Tail(@)]
          \/ wire' = [wire EXCEPT ![conn[r]] = Tail(Tail(@))]
    BY <1>1, ReadsAlike DEF Take
  <2>3. cut' = cut \/ cut' = cut \cup {conn[r]}
    BY <1>1 DEF Reads, ReadHead, ReadJunkHead, ReadSize, ReadChunk, ReadCrlf, ReadLength, ReadStream, history
  <2> QED
    BY <1>t, <2>1, <2>2, <2>3
<1>2. CASE Write(r)
  <2>1. pc[r] \in Holding /\ UNCHANGED <<wire, answering, svc, cut>>
    BY <1>2 DEF Write, Holding, history
  <2>2. inbox' = inbox \/ inbox' = [inbox EXCEPT ![conn[r]] = Append(@, r)]
    BY <1>2 DEF Write
  <2> QED
    BY <1>t, <2>1, <2>2
<1>3. CASE Connect(r)
  <2>1. PICK s \in Sock : svc[s] = "none" /\ svc' = [svc EXCEPT ![s] = "open"]
    BY <1>3 DEF Connect
  <2> QED
    BY <1>3, <1>t, <2>1 DEF Connect, history
<1>4. CASE ~Reads(r) /\ ~Write(r) /\ ~Connect(r)
  BY <1>4 DEF Worker, Reads, Acquire, AcquireNone, ConnectFails, Fail, End, Release, svcVars, history
<1> QED
  BY <1>1, <1>2, <1>3, <1>4

LEMMA OthersGoOn ==
  ASSUME TypeOK, SocksRight, NEW r \in Reqs, Worker(r), NEW u \in Reqs, u # r, OnRight(u)
  PROVE  OnRight(u)'
<1>1. pc'[u] = pc[u] /\ reused'[u] = reused[u] /\ conn'[u] = conn[u] /\ frames'[u] = frames[u]
  BY WorkerAlone
<1>2. ASSUME pc[u] \in Holding
      PROVE  /\ wire'[conn[u]] = wire[conn[u]] /\ inbox'[conn[u]] = inbox[conn[u]]
             /\ answering'[conn[u]] = answering[conn[u]] /\ svc'[conn[u]] = svc[conn[u]]
             /\ conn[u] \in cut' <=> conn[u] \in cut
  <2>1. PICK t \in Sock : t = conn[u] /\ svc[t] # "none"
    BY <1>2 DEF SocksRight
  <2>2. pc[r] \in Holding => conn[r] # t /\ conn[r] \in Sock
    BY <1>2, <2>1 DEF SocksRight
  <2> QED
    BY <2>1, <2>2, Apart
<1> QED
  BY <1>1, <1>2, OnKept

LEMMA UserGoesOn ==
  ASSUME TypeOK, SocksRight, WireRight, GoingRight, NEW r \in Reqs, FramesRight(r), Worker(r)
  PROVE  OnRight(r)'
<1>t. /\ pc \in [Reqs -> Spots] /\ conn \in [Reqs -> Sock \cup {NoSock}] /\ reused \in [Reqs -> BOOLEAN]
      /\ inbox \in [Sock -> Seq(Reqs)] /\ idle \in Seq(Sock)
  BY DEF TypeOK, Spots
<1>u. UserRight(r) /\ OnRight(r)
  BY DEF WireRight, GoingRight
<1>1. CASE Acquire(r)
  <2>1. /\ UNCHANGED <<wire, answering, svc, cut>> /\ pc'[r] = "write" /\ reused'[r]
        /\ conn'[r] = idle[Len(idle)] /\ Len(idle) \in 1 .. Len(idle)
    BY <1>1, <1>t DEF Acquire, Goto, svcVars, history
  <2>2. PICK s : s = idle[Len(idle)]
    OBVIOUS
  <2>3. s \in cut => HeldUp(s)
    BY <2>1, <2>2 DEF GoingRight
  <2>4. CutRight(r)'
    BY <2>1, <2>2, <2>3 DEF CutRight, HeldUp, Rest
  <2> QED
    BY <2>1, <2>4 DEF OnRight, GoesOn, Coming
<1>2. CASE AcquireNone(r) \/ ConnectFails(r) \/ Fail(r) \/ Release(r)
  <2>1. pc'[r] \notin Holding
    BY <1>2, <1>t DEF AcquireNone, ConnectFails, Fail, Release, Goto, Holding
  <2> QED
    BY <2>1 DEF OnRight
<1>3. CASE Connect(r)
  <2>1. PICK s \in Sock : svc[s] = "none" /\ conn' = [conn EXCEPT ![r] = s]
    BY <1>3 DEF Connect
  <2>2. conn'[r] = s /\ pc'[r] = "write" /\ cut' = cut
    BY <1>3, <1>t, <2>1 DEF Connect, Goto, history
  <2>3. s \notin cut
    BY <2>1 DEF GoingRight
  <2> QED
    BY <2>2, <2>3 DEF OnRight, GoesOn, CutRight, Coming
<1>4. CASE Write(r)
  <2>1. /\ UNCHANGED <<wire, answering, svc, cut, conn, reused>> /\ pc'[r] = "head" /\ pc[r] = "write"
        /\ pc[r] \in Holding /\ conn[r] \in Sock
    BY <1>4, <1>t DEF Write, Goto, history, Holding, SocksRight
  <2>2. svc[conn[r]] = "open" => inbox'[conn[r]] # <<>>
    <3>1. PICK b \in Seq(Reqs) : b = inbox[conn[r]]
      BY <1>t, <2>1
    <3>2. Append(b, r) # <<>>
      <4>1. PICK d \in Seq(Reqs) : d = Append(b, r) /\ Len(d) = Len(b) + 1
        BY Appended, Zenon
      <4>2. Len(d) # 0
        BY <4>1
      <4> QED
        BY <4>1, <4>2
    <3> QED
      BY <1>4, <1>t, <2>1, <3>1, <3>2 DEF Write
  <2>3. GoesOn(r)'
    BY <2>1, <2>2 DEF GoesOn
  <2>4. CutRight(r)
    BY <1>u, <2>1 DEF OnRight
  <2>5. CutRight(r)'
    BY <2>1, <2>4 DEF CutRight, HeldUp, Rest
  <2> QED
    BY <2>3, <2>5 DEF OnRight
<1>5. CASE End(r)
  <2>1. /\ UNCHANGED <<wire, answering, svc, cut, conn, reused>> /\ pc'[r] = "release" /\ pc[r] = "end"
    BY <1>5, <1>t DEF End, Goto, svcVars, history
  <2>2. CutRight(r)
    BY <1>u, <2>1 DEF OnRight, Holding
  <2>3. CutRight(r)'
    BY <2>1, <2>2 DEF CutRight, HeldUp, Rest
  <2> QED
    BY <2>1, <2>3 DEF OnRight, GoesOn, Coming
<1>6. CASE Reads(r)
  <2>1. conn[r] \in Sock
    BY <1>6, ReadsAlike DEF SocksRight
  <2>2. NoFin(wire[conn[r]])
    BY <2>1 DEF WireRight, NoFin
  <2> QED
    BY <1>6, <1>u, <2>2, ReadsGoOn
<1> QED
  BY <1>1, <1>2, <1>3, <1>4, <1>5, <1>6 DEF Worker, Reads

\* The next piece, a CRLF, is split; what that leaves as it was.
SplitOf(w, a, z, y) ==
  /\ a # <<>> /\ z = w \o a
  /\ \E c \in PieceSet : \E l \in PieceSet :
       Halves(Head(a), c, l) /\ y = Append(w, c) \o (<<l>> \o Tail(a))

SplitAlike(z, y) ==
  /\ y # <<>> /\ z # <<>>
  /\ JunkFirst(z) => JunkFirst(y)
  /\ \A x \in {"last", "fin"} : (Brings(z, x) => Brings(y, x)) /\ (EndsIn(z, x) => EndsIn(y, x))
  /\ z[1].what # "crlf" => y[1] = z[1]

\* What a step of the service makes of what stays to be read from a connection.
LEMMA ServedRest ==
  ASSUME TypeOK, SocksRight, NEW s \in Sock, Serves(s)
  PROVE  /\ svc[s] = "open" /\ \A t \in Sock : t # s => svc'[t] = svc[t]
         /\ \/ svc'[s] = "closed" /\ Rest(s)' = wire[s]
            \/ svc'[s] = "open" /\ Rest(s)' = Rest(s) /\ inbox'[s] = inbox[s]
            \/ /\ svc'[s] = "open" /\ inbox'[s] = inbox[s]
               /\ SplitOf(wire[s], answering[s], Rest(s), Rest(s)')
            \/ /\ svc'[s] = "open" /\ inbox[s] # <<>> /\ answering[s] = <<>> /\ SvcTake(s)
               /\ \E f \in Framings : Rest(s)' = wire[s] \o Response(Head(inbox[s]), f)
<1>t. /\ svc \in [Sock -> {"none", "open", "closed"}] /\ wire[s] \in Seq(PieceSet)
      /\ answering \in [Sock -> Seq(PieceSet)] /\ wire \in [Sock -> Seq(PieceSet)]
      /\ inbox \in [Sock -> Seq(Reqs)] /\ answering[s] \in Seq(PieceSet)
  BY DEF TypeOK
<1>1. svc[s] = "open"
  BY DEF Serves, SvcTake, SvcWrite, SvcClose, SocksRight
<1>2. svc' = svc \/ svc' = [svc EXCEPT ![s] = "closed"]
  BY DEF Serves, SvcTake, SvcWrite, SvcClose, Shut
<1>s. \A t \in Sock : t # s => svc'[t] = svc[t]
  BY <1>2, <1>t
<1>3. ASSUME Shut(s), UNCHANGED wire PROVE svc'[s] = "closed" /\ Rest(s)' = wire[s]
  <2>1. svc'[s] = "closed" /\ answering'[s] = <<>> /\ wire'[s] = wire[s]
    BY <1>3, <1>t DEF Shut
  <2>2. wire[s] \o <<>> = wire[s]
    BY <1>t, CatNone
  <2> QED
    BY <2>1, <2>2 DEF Rest
<1>4. CASE SvcClose(s)
  BY <1>1, <1>3, <1>4, <1>s DEF SvcClose
<1>5. CASE SvcTake(s)
  <2>1. PICK f \in Framings : answering'[s] = Response(Head(inbox[s]), f)
    BY <1>5, <1>t DEF SvcTake
  <2>2. wire'[s] = wire[s] /\ svc'[s] = "open" /\ inbox[s] # <<>> /\ answering[s] = <<>>
    BY <1>1, <1>5 DEF SvcTake
  <2> QED
    BY <1>1, <1>5, <1>s, <2>1, <2>2 DEF Rest
<1>6. CASE SvcWrite(s)
  <2>0. answering[s] # <<>>
    BY <1>6 DEF SvcWrite
  <2>1. CASE Shut(s) /\ UNCHANGED wire
    BY <1>1, <1>3, <1>s, <2>1
  <2>2. CASE /\ wire' = [wire EXCEPT ![s] = Append(@, Head(answering[s]))]
             /\ answering' = [answering EXCEPT ![s] = Tail(@)]
             /\ UNCHANGED <<svc, inbox>>
    <3>1. wire'[s] = Append(wire[s], Head(answering[s])) /\ answering'[s] = Tail(answering[s])
      BY <1>t, <2>2
    <3>2. Append(wire[s], Head(answering[s])) \o Tail(answering[s]) = wire[s] \o answering[s]
      BY <1>t, <2>0, CatShift
    <3> QED
      BY <1>1, <1>s, <2>2, <3>1, <3>2 DEF Rest
  <2>3. CASE /\ Head(answering[s]).what = "crlf"
             /\ wire' = [wire EXCEPT ![s] = Append(@, [what |-> "cr", of |-> Head(answering[s]).of])]
             /\ answering' = [answering EXCEPT ![s] = <<[what |-> "lf", of |-> Head(answering[s]).of]>> \o Tail(@)]
             /\ UNCHANGED <<svc, inbox>>
    <3>1. Head(answering[s]) \in PieceSet
      BY <1>t, <2>0, TailOf
    <3>2. PICK c \in PieceSet : c = [what |-> "cr", of |-> Head(answering[s]).of]
      BY <3>1 DEF PieceSet
    <3>3. PICK l \in PieceSet : l = [what |-> "lf", of |-> Head(answering[s]).of]
      BY <3>1 DEF PieceSet
    <3>4. wire'[s] = Append(wire[s], c) /\ answering'[s] = <<l>> \o Tail(answering[s])
      BY <1>t, <2>3, <3>2, <3>3
    <3>5. Halves(Head(answering[s]), c, l)
      BY <2>3, <3>2, <3>3 DEF Halves
    <3> QED
      BY <1>1, <1>s, <2>0, <2>3, <3>4, <3>5 DEF Rest, SplitOf
  <2> QED
    BY <1>6, <2>1, <2>2, <2>3 DEF SvcWrite
<1> QED
  BY <1>4, <1>5, <1>6 DEF Serves

LEMMA SplitAway ==
  ASSUME NEW w \in Seq(PieceSet), NEW a \in Seq(PieceSet), NEW z, NEW y, SplitOf(w, a, z, y)
  PROVE  SplitAlike(z, y)
<1>0. a # <<>> /\ z = w \o a
  BY DEF SplitOf
<1>p. PICK c \in PieceSet, l \in PieceSet :
        Halves(Head(a), c, l) /\ y = Append(w, c) \o (<<l>> \o Tail(a))
  BY DEF SplitOf
<1>z. z \in Seq(PieceSet)
  BY <1>0, CatParts
<1>1. y \in Seq(PieceSet) /\ Len(w) \in Nat
  BY <1>0, <1>p, CatInsert
<1>2. /\ Len(y) = Len(z) + 1 /\ Len(w) < Len(z) /\ z[Len(w) + 1] = Head(a)
      /\ y[Len(w) + 1] = c /\ y[Len(w) + 2] = l
  BY <1>0, <1>p, CatInsert
<1>3. \A i \in 1 .. Len(w) : y[i] = z[i]
  BY <1>0, <1>p, CatInsert
<1>4. \A i \in Nat : i > Len(w) + 2 /\ i <= Len(y) => y[i] = z[i - 1]
  BY <1>0, <1>p, CatInsert
<1>5. SplitBehind(z, y, Len(w))
  BY <1>2, <1>3, <1>4, <1>p DEF SplitBehind, Halves
<1>6. PICK n \in Nat : n = Len(w)
  BY <1>1
<1> QED
  BY <1>1, <1>5, <1>6, <1>z, SplitLeaves DEF SplitAlike

LEMMA HeldServed ==
  ASSUME TypeOK, SocksRight, NEW s \in Sock, Serves(s), HeldUp(s)
  PROVE  /\ HeldUp(s)'
         /\ Rest(s)' # <<>> => /\ Rest(s) # <<>>
                               /\ Rest(s)[1].what # "crlf" => Rest(s)'[1] = Rest(s)[1]
<1>1. PICK w \in Seq(PieceSet) : w = wire[s]
  BY DEF TypeOK
<1>2. PICK a \in Seq(PieceSet) : a = answering[s]
  BY DEF TypeOK
<1>z. PICK z \in Seq(PieceSet) : z = w \o a
  BY CatParts
<1>3. /\ z = w \o a /\ z = Rest(s) /\ (z = <<>> <=> w = <<>> /\ a = <<>>)
      /\ Len(z) = Len(w) + Len(a) /\ \A i \in 1 .. Len(w) : z[i] = w[i]
  <2>1. z = Rest(s)
    BY <1>1, <1>2, <1>z DEF Rest
  <2>2. /\ z = <<>> <=> w = <<>> /\ a = <<>>
        /\ Len(z) = Len(w) + Len(a) /\ \A i \in 1 .. Len(w) : z[i] = w[i]
    BY <1>z, CatParts
  <2> QED
    BY <1>z, <2>1, <2>2
<1>4. svc[s] = "open" /\ JunkFirst(z) /\ Brings(z, "last")
  BY <1>3, ServedRest DEF HeldUp
<1>5. w # <<>> => 1 \in 1 .. Len(w)
  BY <1>1, TailOf
<1>6. CASE svc'[s] = "closed" /\ Rest(s)' = w
  <2>1. JunkFirst(w)
    BY <1>3, <1>4, JunkCut
  <2> QED
    BY <1>3, <1>5, <1>6, <2>1 DEF HeldUp
<1>7. CASE svc'[s] = "open" /\ Rest(s)' = z
  BY <1>3, <1>4, <1>7 DEF HeldUp
<1>8. CASE svc'[s] = "open" /\ SplitOf(w, a, z, Rest(s)')
  <2>1. PICK y : y = Rest(s)'
    OBVIOUS
  <2>2. SplitAlike(z, y)
    BY <1>8, <2>1, SplitAway
  <2> QED
    BY <1>3, <1>4, <1>8, <2>1, <2>2 DEF HeldUp, SplitAlike
<1>9. CASE svc'[s] = "open" /\ a = <<>> /\ \E R \in Seq(PieceSet) : Rest(s)' = w \o R
  <2>1. PICK R \in Seq(PieceSet) : Rest(s)' = w \o R
    BY <1>9
  <2>2. z = w
    BY <1>3, <1>9, CatNone
  <2>y. PICK y \in Seq(PieceSet) : y = w \o R
    BY CatParts
  <2>3. y = w \o R /\ \A i \in 1 .. Len(w) : y[i] = w[i]
    BY <2>y, CatParts
  <2>4. JunkFirst(y) /\ Brings(y, "last")
    BY <1>4, <2>2, <2>3, JunkGrows
  <2>5. w # <<>>
    BY <1>4, <2>2 DEF Brings
  <2> QED
    BY <1>3, <1>5, <1>9, <2>1, <2>2, <2>3, <2>4, <2>5 DEF HeldUp
<1>10. ASSUME NEW f \in Framings, SvcTake(s) PROVE Response(Head(inbox[s]), f) \in Seq(PieceSet)
  <2>1. inbox[s] \in Seq(Reqs) /\ inbox[s] # <<>>
    BY <1>10 DEF TypeOK, SvcTake
  <2>2. Head(inbox[s]) \in Reqs
    BY <2>1, TailOf
  <2> QED
    BY <2>2, Shape
<1> QED
  BY <1>1, <1>2, <1>3, <1>6, <1>7, <1>8, <1>9, <1>10, ServedRest

\* A response from its head on.
LEMMA ResponseComes ==
  ASSUME NEW r \in Reqs, NEW f \in Framings, NEW R, R = Response(r, f)
  PROVE  R \in Seq(PieceSet) /\ Coming("head", R)
<1> USE LocalPoolAssumption
<1>1. /\ R \in Seq(PieceSet) /\ R # <<>> /\ R[1] = [what |-> f, of |-> r] /\ ShapeOf(R, f)
  BY Shape
<1>2. R[1].what = f
  BY <1>1
<1>3. f = "chunked" => R[Len(R)].what = "last"
  BY <1>1 DEF ShapeOf
<1>4. f = "until_close" => R[Len(R)].what = "fin"
  BY <1>1 DEF ShapeOf
<1> QED
  BY <1>1, <1>2, <1>3, <1>4 DEF Coming, EndsIn

\* What comes to a reader in step, after a step of the service that leaves the
\* connection open.
LEMMA ComingServed ==
  ASSUME TypeOK, SocksRight, NEW r \in Reqs, pc[r] \in Holding, UserRight(r), GoesOn(r),
         NEW s \in Sock, s = conn[r], Serves(s), s \notin cut, svc'[s] = "open"
  PROVE  \/ (pc[r] = "head" /\ inbox'[s] # <<>>) \/ Coming(pc[r], Rest(s)')
         \/ AtNothing(r) /\ Rest(s)' = <<>>
<1>1. PICK w \in Seq(PieceSet) : w = wire[s]
  BY DEF TypeOK
<1>2. PICK a \in Seq(PieceSet) : a = answering[s]
  BY DEF TypeOK
<1>z. PICK z \in Seq(PieceSet) : z = w \o a
  BY CatParts
<1>3. z = Rest(s)
  BY <1>1, <1>2, <1>z DEF Rest
<1>4. (pc[r] = "head" /\ inbox[s] # <<>>) \/ Coming(pc[r], z) \/ (AtNothing(r) /\ z = <<>>)
  BY <1>3, ServedRest DEF GoesOn, AtNothing
<1>5. CASE Rest(s)' = Rest(s) /\ inbox'[s] = inbox[s]
  BY <1>3, <1>4, <1>5
<1>6. CASE inbox'[s] = inbox[s] /\ SplitOf(w, a, z, Rest(s)')
  <2>1. PICK y : y = Rest(s)'
    OBVIOUS
  <2>2. SplitAlike(z, y)
    BY <1>6, <2>1, SplitAway
  <2>3. "crlf" \notin Framings
    BY LocalPoolAssumption
  <2>4. Coming(pc[r], z) => Coming(pc[r], y)
    BY <2>2, <2>3 DEF Coming, SplitAlike
  <2>5. z # <<>>
    BY <2>2 DEF SplitAlike
  <2> QED
    BY <1>4, <1>6, <2>1, <2>4, <2>5
<1>7. CASE /\ inbox[s] # <<>> /\ a = <<>> /\ SvcTake(s)
           /\ \E f \in Framings : Rest(s)' = w \o Response(Head(inbox[s]), f)
  <2>1. InStep(r)
    BY DEF UserRight
  <2>2. CASE pc[r] = "head"
    <3>1. inbox[s] = <<r>> /\ w = <<>>
      BY <1>1, <1>7, <2>1, <2>2 DEF InStep, Empty, Remains
    <3>2. PICK f \in Framings : Rest(s)' = w \o Response(Head(inbox[s]), f)
      BY <1>7
    <3>3. Head(inbox[s]) = r
      BY <3>1
    <3>4. PICK R : R = Response(r, f)
      OBVIOUS
    <3>5. R \in Seq(PieceSet) /\ Coming("head", R)
      BY <3>4, ResponseComes
    <3>6. w \o R = R
      <4>1. PICK y \in Seq(PieceSet) : y = w \o R
        BY <3>5, CatParts
      <4>2. Len(w) = 0
        BY <3>1
      <4>3. /\ Len(y) = Len(w) + Len(R) /\ Len(R) \in Nat
            /\ \A i \in 1 .. Len(R) : y[Len(w) + i] = R[i]
        BY <3>5, <4>1, CatParts
      <4>4. Len(y) = Len(R) /\ \A i \in 1 .. Len(R) : y[i] = R[i]
        BY <4>2, <4>3
      <4> QED
        BY <3>5, <4>1, <4>4, SameSeq
    <3> QED
      BY <2>2, <3>2, <3>3, <3>4, <3>5, <3>6
  <2>3. CASE pc[r] \in Consuming \cup {"write"}
    BY <1>7, <2>1, <2>3 DEF InStep, Empty, Remains
  <2>4. CASE pc[r] \in {"end", "release"}
    BY <2>4 DEF Coming
  <2> QED
    BY <2>2, <2>3, <2>4 DEF Holding, Consuming
<1> QED
  BY <1>1, <1>2, <1>3, <1>5, <1>6, <1>7, ServedRest

LEMMA ServedGoesOn ==
  ASSUME TypeOK, SocksRight, NEW s \in Sock, Serves(s), NEW r \in Reqs, UserRight(r), OnRight(r)
  PROVE  OnRight(r)'
<1>1. UNCHANGED <<pc, reused, conn, cut, frames>>
  BY ServiceAlone DEF Serves
<1>2. CASE pc[r] \in Holding => conn[r] # s
  <2>1. pc[r] \in Holding =>
          /\ wire'[conn[r]] = wire[conn[r]] /\ inbox'[conn[r]] = inbox[conn[r]]
          /\ answering'[conn[r]] = answering[conn[r]] /\ svc'[conn[r]] = svc[conn[r]]
    <3> SUFFICES ASSUME pc[r] \in Holding
                 PROVE  /\ wire'[conn[r]] = wire[conn[r]] /\ inbox'[conn[r]] = inbox[conn[r]]
                        /\ answering'[conn[r]] = answering[conn[r]] /\ svc'[conn[r]] = svc[conn[r]]
      OBVIOUS
    <3>1. PICK t \in Sock : t = conn[r] /\ t # s
      BY <1>2 DEF SocksRight
    <3>2. wire'[t] = wire[t] /\ inbox'[t] = inbox[t] /\ answering'[t] = answering[t]
      BY <3>1, Served
    <3>3. svc'[t] = svc[t]
      BY <3>1, ServedRest
    <3> QED
      BY <3>1, <3>2, <3>3
  <2> QED
    BY <1>1, <2>1, OnKept
<1>3. CASE pc[r] \in Holding /\ conn[r] = s
  <2>1. GoesOn(r) /\ CutRight(r)
    BY <1>3 DEF OnRight
  <2>2. GoesOn(r)'
    <3>1. s \notin cut /\ svc'[s] = "open" =>
            \/ (pc[r] = "head" /\ inbox'[s] # <<>>) \/ Coming(pc[r], Rest(s)')
            \/ AtNothing(r) /\ Rest(s)' = <<>>
      BY <1>3, <2>1, ComingServed
    <3>2. conn'[r] = s /\ pc'[r] = pc[r] /\ cut' = cut /\ Rest(conn[r])' = Rest(s)'
      BY <1>1, <1>3 DEF Rest
    <3>3. Count(r, "chunk")' = Count(r, "chunk")
      BY <1>1 DEF Count
    <3>4. AtNothing(r) /\ Rest(s)' = <<>> => AtNothing(r)'
      BY <3>2, <3>3 DEF AtNothing
    <3> QED
      BY <3>1, <3>2, <3>4 DEF GoesOn, Coming
  <2>3. CutRight(r)'
    <3>1. HeldUp(s) => /\ HeldUp(s)'
                       /\ Rest(s)' # <<>> => /\ Rest(s) # <<>>
                                             /\ Rest(s)[1].what # "crlf" => Rest(s)'[1] = Rest(s)[1]
      BY HeldServed
    <3>2. conn'[r] = s /\ pc'[r] = pc[r] /\ reused'[r] = reused[r] /\ cut' = cut
      BY <1>1, <1>3
    <3>3. Rest(conn[r])' = Rest(s)' /\ (HeldUp(s)' => HeldUp(conn[r])')
      BY <3>2 DEF Rest, HeldUp
    <3> QED
      BY <1>3, <2>1, <3>1, <3>2, <3>3 DEF CutRight
  <2> QED
    BY <2>2, <2>3 DEF OnRight
<1> QED
  BY <1>2, <1>3

-----------------------------------------------------------------------------
(* A reader is never stranded: all the parts.                              *)

LEMMA OnStep ==
  ASSUME TypeOK, QueueRight, SocksRight, WireRight, GoingRight, Next,
         \A r \in Reqs : FramesRight(r)
  PROVE  \A r \in Reqs : OnRight(r)'
<1>t. pc \in [Reqs -> Spots] /\ q \in Seq(Reqs)
  BY DEF TypeOK, Spots
<1>u. \A r \in Reqs : OnRight(r) /\ UserRight(r)
  BY DEF GoingRight, WireRight
<1>0. ASSUME UNCHANGED <<reused, conn, frames, svc, inbox, answering, wire, cut>>, NEW r \in Reqs,
             pc'[r] \in Holding => pc'[r] = pc[r]
      PROVE  OnRight(r)'
  <2>1. CASE pc'[r] = pc[r]
    BY <1>0, <1>u, <2>1, OnKept
  <2>2. CASE pc'[r] \notin Holding
    BY <2>2 DEF OnRight
  <2> QED
    BY <1>0, <2>1, <2>2
<1>1. CASE Stop
  BY <1>0, <1>1 DEF Stop, workerVars, svcVars, history
<1>2. ASSUME NEW w \in Workers, Fetch(w), NEW r \in Reqs PROVE OnRight(r)'
  <2>1. UNCHANGED <<reused, conn, frames, svc, inbox, answering, wire, cut>>
    BY <1>2 DEF Fetch, svcVars, history
  <2>2. pc'[r] \in Holding => pc'[r] = pc[r]
    BY <1>2, <1>t DEF Fetch, Goto, Holding
  <2> QED
    BY <1>0, <2>1, <2>2
<1>3. ASSUME NEW u \in Reqs, Submit(u), NEW r \in Reqs PROVE OnRight(r)'
  <2>1. UNCHANGED <<reused, conn, frames, svc, inbox, answering, wire, cut>>
    BY <1>3 DEF Submit, svcVars, history
  <2>2. pc'[r] \in Holding => pc'[r] = pc[r]
    BY <1>3, <1>t DEF Submit, Goto, Holding
  <2> QED
    BY <1>0, <2>1, <2>2
<1>4. ASSUME NEW u \in Reqs, Worker(u), NEW r \in Reqs PROVE OnRight(r)'
  BY <1>4, <1>u, UserGoesOn, OthersGoOn
<1>5. ASSUME NEW s \in Sock, SvcTake(s) \/ SvcWrite(s) \/ SvcClose(s), NEW r \in Reqs PROVE OnRight(r)'
  BY <1>5, <1>u, ServedGoesOn DEF Serves
<1> QED
  BY <1>1, <1>2, <1>3, <1>4, <1>5 DEF Next

\* What is idle stays as it is, or as a service leaves it, or was released just now.
IdleHeld == \A i \in 1 .. Len(idle) : idle[i] \in cut => HeldUp(idle[i])

LEMMA IdleHeldStep ==
  ASSUME TypeOK, SocksRight, WireRight, GoingRight, Next PROVE IdleHeld'
<1>t. /\ idle \in Seq(Sock) /\ Len(idle) \in Nat
      /\ \A i \in 1 .. Len(idle) : idle[i] \in Sock
  BY DEF TypeOK
<1>i. /\ \A i \in 1 .. Len(idle) : idle[i] \in cut => HeldUp(idle[i])
      /\ \A i \in 1 .. Len(idle) :
           svc[idle[i]] # "none" /\ \A r \in Reqs : pc[r] \in Holding => conn[r] # idle[i]
  BY DEF GoingRight, SocksRight
<1>0. ASSUME idle' = idle,
             \A i \in 1 .. Len(idle) :
               (idle[i] \in cut' => idle[i] \in cut) /\ (HeldUp(idle[i]) => HeldUp(idle[i])')
      PROVE  IdleHeld'
  <2>1. ASSUME NEW i \in 1 .. Len(idle), idle[i] \in cut' PROVE HeldUp(idle[i])'
    BY <1>0, <1>i, <2>1
  <2>2. ASSUME NEW i \in 1 .. Len(idle') PROVE (idle[i] \in cut => HeldUp(idle[i]))'
    <3>1. idle'[i] = idle[i] /\ i \in 1 .. Len(idle)
      BY <1>0
    <3>2. idle[i] \in cut' => HeldUp(idle[i])'
      BY <2>1, <3>1
    <3> QED
      BY <1>0, <3>2 DEF HeldUp, Rest
  <2> QED
    BY <2>2 DEF IdleHeld
<1>e. ASSUME UNCHANGED <<idle, answering, wire, svc, cut>> PROVE IdleHeld'
  BY <1>0, <1>e DEF HeldUp, Rest
<1>1. CASE Stop
  BY <1>1, <1>e DEF Stop, svcVars, history
<1>2. ASSUME NEW w \in Workers, Fetch(w) PROVE IdleHeld'
  BY <1>2, <1>e DEF Fetch, svcVars, history
<1>3. ASSUME NEW r \in Reqs, Submit(r) PROVE IdleHeld'
  BY <1>3, <1>e DEF Submit, svcVars, history
<1>4. ASSUME NEW r \in Reqs, Worker(r) PROVE IdleHeld'
  <2>1. CASE Acquire(r)
    <3>1. /\ idle' = SubSeq(idle, 1, Len(idle) - 1) /\ idle # <<>>
          /\ UNCHANGED <<answering, wire, svc, cut>>
      BY <2>1 DEF Acquire, svcVars, history
    <3>2. \A i \in 1 .. Len(idle') : i \in 1 .. Len(idle) /\ idle'[i] = idle[i]
      BY <1>t, <3>1
    <3>3. \A i \in 1 .. Len(idle') : idle'[i] \in cut => HeldUp(idle'[i])
      BY <1>i, <3>2
    <3> QED
      BY <3>1, <3>3 DEF IdleHeld, HeldUp, Rest
  <2>2. CASE AcquireNone(r)
    BY <2>2 DEF AcquireNone, IdleHeld
  <2>3. CASE Release(r)
    <3>1. UNCHANGED <<answering, wire, svc, cut>> /\ pc[r] = "release"
      BY <2>3 DEF Release, svcVars, history
    <3>2. conn[r] \in Sock
      BY <3>1 DEF SocksRight, Holding
    <3>3. CASE idle' = idle
      BY <1>e, <3>1, <3>3
    <3>4. CASE idle' = Append(idle, conn[r])
      <4>1. conn[r] \in cut => HeldUp(conn[r])
        BY <3>1 DEF GoingRight, OnRight, CutRight, Holding
      <4>2. \A i \in 1 .. Len(idle') : (i \in 1 .. Len(idle) /\ idle'[i] = idle[i]) \/ idle'[i] = conn[r]
        BY <1>t, <3>2, <3>4
      <4>3. \A i \in 1 .. Len(idle') : idle'[i] \in cut => HeldUp(idle'[i])
        BY <1>i, <4>1, <4>2
      <4> QED
        BY <3>1, <4>3 DEF IdleHeld, HeldUp, Rest
    <3> QED
      BY <2>3, <3>3, <3>4 DEF Release
  <2>4. CASE ~Acquire(r) /\ ~AcquireNone(r) /\ ~Release(r)
    <3>1. idle' = idle
      BY <1>4, <2>4 DEF Worker, Connect, ConnectFails, Write, Fail, ReadHead, ReadJunkHead, ReadSize,
                        ReadChunk, ReadCrlf, ReadLength, ReadStream, End, poolVars
    <3>2. ASSUME NEW i \in 1 .. Len(idle)
          PROVE  (idle[i] \in cut' => idle[i] \in cut) /\ (HeldUp(idle[i]) => HeldUp(idle[i])')
      <4>1. PICK t \in Sock : t = idle[i]
        BY <1>t
      <4>2. svc[t] # "none" /\ (pc[r] \in Holding => conn[r] # t /\ conn[r] \in Sock)
        BY <1>i, <4>1 DEF SocksRight
      <4>3. /\ wire'[t] = wire[t] /\ answering'[t] = answering[t]
            /\ svc'[t] = svc[t] /\ (t \in cut' <=> t \in cut)
        BY <1>4, <4>2, Apart
      <4>4. HeldUp(t) => HeldUp(t)'
        BY <4>3, HeldKept
      <4> QED
        BY <3>1, <4>1, <4>3, <4>4 DEF HeldUp, Rest
    <3> QED
      BY <1>0, <3>1, <3>2
  <2> QED
    BY <2>1, <2>2, <2>3, <2>4
<1>5. ASSUME NEW s \in Sock, SvcTake(s) \/ SvcWrite(s) \/ SvcClose(s) PROVE IdleHeld'
  <2>1. UNCHANGED <<idle, cut>> /\ Serves(s)
    BY <1>5, ServiceAlone DEF Serves
  <2>2. ASSUME NEW i \in 1 .. Len(idle), HeldUp(idle[i]) PROVE HeldUp(idle[i])'
    <3>1. PICK t \in Sock : t = idle[i]
      BY <1>t
    <3>2. CASE t = s
      <4>1. HeldUp(s)'
        BY <2>1, <2>2, <3>1, <3>2, HeldServed
      <4> QED
        BY <2>1, <3>1, <3>2, <4>1 DEF HeldUp, Rest
    <3>3. CASE t # s
      <4>1. wire'[t] = wire[t] /\ answering'[t] = answering[t] /\ svc'[t] = svc[t]
        BY <2>1, <3>3, Served, ServedRest
      <4>2. HeldUp(t)'
        BY <2>2, <3>1, <4>1, HeldKept
      <4> QED
        BY <2>1, <3>1, <4>2 DEF HeldUp, Rest
    <3> QED
      BY <3>2, <3>3
  <2> QED
    BY <1>0, <2>1, <2>2
<1> QED
  BY <1>1, <1>2, <1>3, <1>4, <1>5 DEF Next

\* A connection that broke stays closed, and one on which a CRLF was read half has been made.
EndsKept == (\A s \in broken : svc[s] = "closed") /\ (\A s \in cut : svc[s] # "none")

LEMMA EndsStep ==
  ASSUME TypeOK, SocksRight, EndsKept, Next PROVE EndsKept'
<1>t. svc \in [Sock -> {"none", "open", "closed"}] /\ cut \subseteq Sock /\ broken \subseteq Sock
  BY DEF TypeOK
<1>0. \A s \in Sock : svc[s] = "closed" => svc'[s] = "closed"
  BY ClosedStays
<1>1. ASSUME broken' = broken, NEW s \in broken PROVE svc'[s] = "closed"
  BY <1>0, <1>1, <1>t DEF EndsKept
<1>2. ASSUME UNCHANGED <<svc, cut>> PROVE \A s \in cut' : svc'[s] # "none"
  BY <1>2 DEF EndsKept
<1>3. CASE Stop
  BY <1>1, <1>2, <1>3 DEF Stop, svcVars, history, EndsKept
<1>4. ASSUME NEW w \in Workers, Fetch(w) PROVE EndsKept'
  BY <1>1, <1>2, <1>4 DEF Fetch, svcVars, history, EndsKept
<1>5. ASSUME NEW r \in Reqs, Submit(r) PROVE EndsKept'
  BY <1>1, <1>2, <1>5 DEF Submit, svcVars, history, EndsKept
<1>6. ASSUME NEW r \in Reqs, Worker(r) PROVE EndsKept'
  <2>1. broken' = broken
    BY <1>6 DEF Worker, Acquire, AcquireNone, Connect, ConnectFails, Write, Fail, ReadHead, ReadJunkHead,
                ReadSize, ReadChunk, ReadCrlf, ReadLength, ReadStream, End, Release, history
  <2>2. CASE Connect(r)
    <3>1. PICK s \in Sock : svc' = [svc EXCEPT ![s] = "open"] /\ cut' = cut
      BY <2>2 DEF Connect, history
    <3>2. \A u \in cut' : svc'[u] # "none"
      BY <1>t, <3>1 DEF EndsKept
    <3> QED
      BY <1>1, <2>1, <3>2 DEF EndsKept
  <2>3. CASE ReadCrlf(r)
    <3>1. svc' = svc /\ (cut' = cut \/ cut' = cut \cup {conn[r]}) /\ pc[r] \in Holding
      BY <2>3 DEF ReadCrlf, svcVars, Holding
    <3>2. svc[conn[r]] # "none"
      BY <3>1 DEF SocksRight
    <3>3. \A u \in cut' : svc'[u] # "none"
      BY <3>1, <3>2 DEF EndsKept
    <3> QED
      BY <1>1, <2>1, <3>3 DEF EndsKept
  <2>4. CASE ~Connect(r) /\ ~ReadCrlf(r)
    <3>1. UNCHANGED <<svc, cut>>
      BY <1>6, <2>4 DEF Worker, Acquire, AcquireNone, ConnectFails, Write, Fail, ReadHead, ReadJunkHead,
                ReadSize, ReadChunk, ReadLength, ReadStream, End, Release, svcVars, history
    <3> QED
      BY <1>1, <1>2, <2>1, <3>1 DEF EndsKept
  <2> QED
    BY <2>2, <2>3, <2>4
<1>7. ASSUME NEW s \in Sock, SvcTake(s) \/ SvcWrite(s) \/ SvcClose(s) PROVE EndsKept'
  <2>1. cut' = cut
    BY <1>7, ServiceAlone
  <2>2. svc' = svc \/ svc' = [svc EXCEPT ![s] = "closed"]
    BY <1>7 DEF SvcTake, SvcWrite, SvcClose, Shut
  <2>3. \A u \in cut' : svc'[u] # "none"
    BY <1>t, <2>1, <2>2 DEF EndsKept
  <2>4. broken' = broken \/ (broken' = broken \cup {s} /\ svc'[s] = "closed")
    BY <1>7, <1>t DEF SvcTake, SvcWrite, SvcClose, Shut, history
  <2>5. \A u \in broken' : svc'[u] = "closed"
    BY <1>0, <1>t, <2>4 DEF EndsKept
  <2> QED
    BY <2>3, <2>5 DEF EndsKept
<1> QED
  BY <1>3, <1>4, <1>5, <1>6, <1>7 DEF Next

LEMMA GoingInductive == ASSUME IInv, GoingRight, Next PROVE GoingRight'
<1>1. TypeOK /\ QueueRight /\ SocksRight /\ WireRight /\ \A r \in Reqs : FramesRight(r)
  BY DEF IInv
<1>2. EndsKept
  BY DEF GoingRight, EndsKept
<1>3. IdleHeld' /\ EndsKept' /\ \A r \in Reqs : OnRight(r)'
  BY <1>1, <1>2, IdleHeldStep, EndsStep, OnStep
<1> QED
  BY <1>3 DEF GoingRight, IdleHeld, EndsKept

LEMMA GoingUnmoved == ASSUME GoingRight, UNCHANGED vars PROVE GoingRight'
<1>1. UNCHANGED <<idle, pc, reused, conn, frames, svc, inbox, answering, wire, cut, broken>>
  BY DEF vars, poolVars, jobVars, workerVars, svcVars, history
<1>2. \A r \in Reqs : OnRight(r)'
  BY <1>1, OnKept DEF GoingRight
<1> QED
  BY <1>1, <1>2 DEF GoingRight, HeldUp, Rest

\* The pieces that a worker reads where it is.
Wanted(at) ==
  CASE at = "head"              -> Framings \cup Junk
    [] at = "size"              -> {"size", "lf", "last"}
    [] at = "crlf"              -> {"crlf", "cr"}
    [] at \in {"data", "length"} -> {"data"}
    [] OTHER                    -> Framings \cup Junk

\* NeverStranded with what ENABLED Worker(r) comes to: the worker finds a piece of a
\* kind it reads where it is, or the end of the input.
InputForReaders == \A r \in Reqs :
  pc[r] \in Reading /\ answering[conn[r]] = <<>> /\ inbox[conn[r]] = <<>> =>
    \/ Readable(r, Wanted(pc[r])) \/ EndOfInput(r)
    \/ svc[conn[r]] = "open" /\ pc[r] \in {"length", "stream"} /\ Count(r, "chunk") = 0
    \/ svc[conn[r]] = "open" /\ pc[r] = "stream" /\ reused[r] /\ conn[r] \in cut

LEMMA ReaderHasInput ==
  ASSUME IInv, GoingRight PROVE InputForReaders
<1> USE LocalPoolAssumption
<1> SUFFICES ASSUME NEW r \in Reqs, pc[r] \in Reading,
                    answering[conn[r]] = <<>>, inbox[conn[r]] = <<>>
             PROVE  \/ Readable(r, Wanted(pc[r])) \/ EndOfInput(r)
                    \/ svc[conn[r]] = "open" /\ pc[r] \in {"length", "stream"} /\ Count(r, "chunk") = 0
                    \/ svc[conn[r]] = "open" /\ pc[r] = "stream" /\ reused[r] /\ conn[r] \in cut
  BY DEF InputForReaders
<1>t. /\ TypeOK /\ SocksRight /\ UserRight(r) /\ FramesRight(r) /\ GoesOn(r) /\ CutRight(r)
      /\ pc[r] \in Holding /\ pc[r] \in Consuming \cup {"head"}
  BY DEF IInv, WireRight, GoingRight, OnRight, Reading, Holding, Consuming
<1>1. PICK s \in Sock : s = conn[r] /\ svc[s] \in {"open", "closed"}
  BY <1>t DEF SocksRight, TypeOK
<1>2. PICK w \in Seq(PieceSet) : w = wire[s] /\ Rest(s) = w
  <2>1. wire[s] \in Seq(PieceSet) /\ answering[s] \in Seq(PieceSet)
    BY <1>t DEF TypeOK
  <2>2. Rest(s) = wire[s]
    BY <1>1, <2>1, CatNone DEF Rest
  <2> QED
    BY <2>1, <2>2
<1>3. w # <<>> => /\ Piece(r) = w[1] /\ Piece(r).what \in Framings \cup Junk
  <2>1. ASSUME w # <<>> PROVE Piece(r) = w[1] /\ Piece(r).what \in Framings \cup Junk
    <3>1. Piece(r) \in PieceSet /\ Piece(r) = w[1] /\ 1 \in 1 .. Len(w)
      BY <1>1, <1>2, <1>t, <2>1, NextPiece, TailOf
    <3>2. w[1].what # "fin"
      BY <1>1, <1>2, <3>1 DEF IInv, WireRight
    <3> QED
      BY <3>1, <3>2 DEF PieceSet, Junk
  <2> QED
    BY <2>1
<1>4. CASE w = <<>> /\ svc[s] = "closed"
  BY <1>1, <1>2, <1>4 DEF EndOfInput
<1>5. CASE s \notin cut /\ w # <<>>
  <2>1. PICK f \in Framings : Remains(r, f)
    BY <1>1, <1>2, <1>5, <1>t, ReaderKnows
  <2>2. w[1].what \in Expects(f, pc[r])
    BY <1>1, <1>2, <1>5, <2>1 DEF Remains, Fits
  <2>3. w[1].what \in Wanted(pc[r])
    <3>1. CASE pc[r] = "stream"
      BY <1>3, <1>5, <3>1 DEF Wanted
    <3>2. CASE pc[r] = "length"
      BY <1>3, <1>5, <2>2, <3>2 DEF Wanted, Expects, Junk
    <3>3. CASE pc[r] \in {"head", "size", "data", "crlf"}
      BY <2>2, <3>3 DEF Wanted, Expects
    <3> QED
      BY <3>1, <3>2, <3>3 DEF Reading
  <2> QED
    BY <1>1, <1>2, <1>3, <1>5, <2>3 DEF Readable
<1>6. CASE s \notin cut /\ w = <<>> /\ svc[s] = "open"
  <2>1. CASE AtNothing(r)
    BY <1>1, <1>6, <2>1 DEF AtNothing
  <2>2. CASE Coming(pc[r], w)
    <3>2. pc[r] = "length"
      BY <1>6, <2>2 DEF Coming, EndsIn, Reading
    <3>3. PICK f \in Framings : Remains(r, f)
      BY <1>1, <1>6, <1>t, <3>2, ReaderKnows
    <3>4. s \notin broken
      BY <1>6 DEF GoingRight
    <3>5. Owed(s, r) = 0
      BY <1>2, <1>6, <1>t, OwedType
    <3>6. left[r] + Count(r, "chunk") = MaxData /\ left[r] > 0
      BY <1>t, <3>2 DEF FramesRight
    <3>7. Count(r, "chunk") \in Nat /\ left[r] \in Nat
      BY <1>t, CountType DEF TypeOK
    <3>8. Count(r, "chunk") \in {0, MaxData}
      BY <1>1, <3>3, <3>4, <3>5, <3>7 DEF Remains
    <3>9. Count(r, "chunk") = 0
      BY <3>6, <3>7, <3>8
    <3> QED
      BY <1>1, <1>6, <3>2, <3>9
  <2> QED
    BY <1>1, <1>2, <1>6, <1>t, <2>1, <2>2 DEF GoesOn
<1>7. CASE s \in cut /\ pc[r] = "stream"
  <2>1. reused[r]
    BY <1>1, <1>7, <1>t DEF CutRight
  <2>2. w # <<>> => Readable(r, Wanted(pc[r]))
    BY <1>1, <1>2, <1>3, <1>7 DEF Readable, Wanted
  <2> QED
    BY <1>1, <1>4, <1>7, <2>1, <2>2
<1>8. CASE s \in cut /\ pc[r] # "stream"
  <2>1. HeldUp(s) /\ pc[r] \in {"head", "size"} /\ (pc[r] = "size" /\ w # <<>> => w[1].what = "lf")
    BY <1>1, <1>2, <1>8, <1>t DEF CutRight, Reading
  <2>2. CASE w = <<>>
    <3>1. ~Brings(w, "last")
      BY <2>2 DEF Brings
    <3>2. svc[s] = "closed"
      BY <1>1, <1>2, <2>1, <3>1 DEF HeldUp
    <3> QED
      BY <1>4, <2>2, <3>2
  <2>3. CASE w # <<>>
    <3>1. w[1].what \in Wanted(pc[r])
      BY <1>3, <2>1, <2>3 DEF Wanted
    <3> QED
      BY <1>1, <1>2, <1>3, <2>3, <3>1 DEF Readable
  <2> QED
    BY <2>2, <2>3
<1> QED
  BY <1>1, <1>4, <1>5, <1>6, <1>7, <1>8

\* A worker that reads finds something it can read, or the end of its input, once the
\* service owes it nothing, wherever in a response the service stopped and whatever an
\* earlier response left behind; it waits only for the body of a response without one,
\* or for the end of what a response with a half-read CRLF left (runHttpOnce).
THEOREM ReadersGoOn == Spec => []InputForReaders
<1>1. Init => GoingRight
  <2> SUFFICES ASSUME Init PROVE GoingRight
    OBVIOUS
  <2>1. /\ \A r \in Reqs : pc[r] \notin Holding
        /\ idle = <<>> /\ cut = {} /\ broken = {}
    BY DEF Init, Holding
  <2> QED
    BY <2>1 DEF GoingRight, OnRight
<1>2. IInv /\ GoingRight /\ [Next]_vars => GoingRight'
  BY GoingInductive, GoingUnmoved
<1>3. IInv /\ GoingRight => InputForReaders
  BY ReaderHasInput
<1> QED
  BY <1>1, <1>2, <1>3, Always, PTL DEF Spec

=============================================================================
