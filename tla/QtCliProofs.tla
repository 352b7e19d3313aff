----------------------------- MODULE QtCliProofs -----------------------------
(***************************************************************************)
(* The Qt client core and the logins for every number of openings,         *)
(* streams, chunks, management requests and polls: the client keeps        *)
(* trying, frames stay on their link, requests get their own responses, an *)
(* answer has its shape, and what becomes of a login.                      *)
(***************************************************************************)
EXTENDS QtCli, SequenceTheorems, TLAPS

Kinds == {"head", "chunk", "end", "abort"}

Forwarders ==
  [proto : {"none", "http", "tcp"}, link : Nat,
   at : {"none", "gone", "sent", "head", "connecting", "doomed", "open", "closing"},
   told : BOOLEAN, frames : Seq(Kinds), astray : BOOLEAN, abandoned : BOOLEAN]

\* The connection and its timer.
LinkType ==
  /\ running \in BOOLEAN /\ auto \in BOOLEAN /\ timer \in BOOLEAN /\ parked \in BOOLEAN
  /\ ws \in {"none", "connecting", "connected", "closing"} /\ link \in Nat

StreamType ==
  /\ opened \in 0 .. MaxStreams
  /\ strm \in [Stream -> Forwarders]

Owed == [id : Request, of : Request]

MgmtType ==
  /\ asked \in 0 .. MaxMgmt /\ nextMgmtId \in 0 .. asked
  /\ mgmtPending \in [Request -> Request \cup {None}]
  /\ owed \subseteq Owed
  /\ result \in [Request -> {"none", "own", "other", "refused"}]

\* Only a running client has a connection that is made or being made.
LinkRight == LinkType /\ KeepsTrying /\ (ws \in {"connecting", "connected"} => running)

\* A number is in use only below the counter.
MgmtRight == MgmtType /\ OwnResponse /\ \A r \in owed : r.id <= nextMgmtId

\* One head, then chunks.
Begun(f) == f # <<>> /\ f[1] = "head" /\ \A i \in 2 .. Len(f) : f[i] = "chunk"

Answer(f) ==
  \/ f = <<"abort">>
  \/ f[1] = "head" /\ \A i \in 2 .. Len(f) : f[i] = "chunk" \/ (f[i] = "end" /\ i = Len(f))

\* A stream of the link belongs to a connection that is there or closing; one of an
\* earlier link that is still alive was abandoned by stop and start.
Placed(s) ==
  /\ s.link <= link
  /\ s.at \notin {"none", "gone"} =>
       IF s.link = link THEN ws \in {"connected", "closing"} ELSE s.abandoned
  /\ s.astray => s.abandoned

\* The head of a reply has been sent, or can no longer be.
ReplyRight(s) == s.proto = "http" =>
  /\ s.at \in {"gone", "sent", "head"}
  /\ s.at = "sent" => s.frames = <<>>
  /\ s.at = "head" => \/ Begun(s.frames)
                      \/ s.frames = <<>> /\ ~(s.link = link /\ ws = "connected")
  /\ s.frames # <<>> => Answer(s.frames)

StreamsRight == StreamType /\ \A o \in Stream : Placed(strm[o]) /\ ReplyRight(strm[o])

ClientInv == LinkRight /\ MgmtRight /\ StreamsRight

-----------------------------------------------------------------------------
(* The connection and the timer.                                           *)

\* The steps of the client; unchanged while somebody logs in.
ClientNext == Signal \/ User \/ UNCHANGED clientVars

LEMMA StreamStepsLeaveLink ==
  ASSUME (\E proto \in {"none", "http", "tcp"} : OnOpenStream(proto))
         \/ (\E o \in 1 .. opened : Local(o) \/ OnCloseStream(o))
  PROVE  UNCHANGED <<linkVars, mgmtVars>>
<1>1. ASSUME NEW proto \in {"none", "http", "tcp"}, OnOpenStream(proto)
      PROVE  UNCHANGED <<linkVars, mgmtVars>>
  BY <1>1 DEF OnOpenStream
<1>2. ASSUME NEW o \in 1 .. opened, Local(o) PROVE UNCHANGED <<linkVars, mgmtVars>>
  BY <1>2 DEF Local, MetaData, ReadyRead, ReplyFails, ReplyFinishes, TcpConnected, TcpReadyRead, TcpEnds,
              TcpFails, Becomes
<1>3. ASSUME NEW o \in 1 .. opened, OnCloseStream(o) PROVE UNCHANGED <<linkVars, mgmtVars>>
  BY <1>3 DEF OnCloseStream, Becomes
<1> QED
  BY <1>1, <1>2, <1>3

LEMMA LinkInv == LinkRight /\ ClientNext => LinkRight'
<1> SUFFICES ASSUME LinkRight, ClientNext PROVE LinkRight'
  OBVIOUS
<1> USE DEF LinkRight, LinkType, KeepsTrying
<1>1. CASE Start
  BY <1>1 DEF Start, Open
<1>2. CASE TimerFires
  <2>1. link' \in Nat /\ ws' = "connecting" /\ UNCHANGED <<running, auto, parked>> /\ timer' = FALSE
    BY <1>2 DEF TimerFires, Open
  <2>2. running
    BY <1>2 DEF TimerFires
  <2> QED
    BY <2>1, <2>2
<1>3. CASE Stop
  BY <1>3 DEF Stop
<1>4. CASE Connected
  BY <1>4 DEF Connected
<1>5. CASE Disconnected
  BY <1>5 DEF Disconnected
<1>6. CASE SetConfig
  BY <1>6 DEF SetConfig
<1>7. CASE Ask \/ MgmtResp
  BY <1>7 DEF Ask, MgmtResp, linkVars
<1>8. CASE UNCHANGED <<linkVars, mgmtVars>> \/ UNCHANGED clientVars
  BY <1>8 DEF linkVars, clientVars
<1> QED
  BY <1>1, <1>2, <1>3, <1>4, <1>5, <1>6, <1>7, <1>8, StreamStepsLeaveLink DEF ClientNext, Signal, User

-----------------------------------------------------------------------------
(* Management requests.                                                    *)

LEMMA RequestInv == ASSUME MgmtRight, NEW open \in BOOLEAN, MgmtRequest(open) PROVE MgmtRight'
<1>1. MgmtType
  BY DEF MgmtRight
<1>2. PICK k \in Request : k = asked + 1 /\ asked' = k
  BY <1>1, QtClientAssumption DEF MgmtRequest, MgmtType, Request
<1>3. CASE open
  <2>1. PICK id \in Request : id = nextMgmtId + 1 /\ nextMgmtId' = id
    BY <1>1, <1>2, <1>3, QtClientAssumption DEF MgmtRequest, MgmtType, Request
  <2> DEFINE R == [id |-> id, of |-> k]
  <2>2. R \in Owed /\ R.id = id /\ R.of = k
    BY DEF Owed
  <2>3. /\ mgmtPending' = [mgmtPending EXCEPT ![id] = k] /\ owed' = owed \cup {R} /\ result' = result
        /\ id \in Nat /\ k \in Nat /\ id <= k /\ k <= MaxMgmt
    BY <1>1, <1>2, <1>3, <2>1, <2>2, QtClientAssumption DEF MgmtRequest, MgmtType, Request
  <2> HIDE DEF R
  <2>4. MgmtType'
    <3>1. asked' \in 0 .. MaxMgmt /\ nextMgmtId' \in 0 .. asked'
      BY <1>2, <2>1, <2>3, QtClientAssumption
    <3>2. mgmtPending' \in [Request -> Request \cup {None}]
      BY <1>1, <2>3 DEF MgmtType
    <3>3. owed' \subseteq Owed
      BY <1>1, <2>2, <2>3 DEF MgmtType
    <3> QED
      BY <1>1, <2>3, <3>1, <3>2, <3>3 DEF MgmtType
  <2>5. \A r \in owed : r.id # id /\ r.id \in Request
    BY <1>1, <2>1 DEF MgmtRight, MgmtType, Owed, Request
  <2>6. \A r \in owed' : mgmtPending'[r.id] = r.of
    BY <1>1, <2>2, <2>3, <2>5 DEF MgmtRight, OwnResponse, MgmtType
  <2>7. \A r \in owed' : r.id <= id
    BY <1>1, <2>1, <2>2, <2>3 DEF MgmtRight, MgmtType, Owed, Request
  <2> QED
    BY <2>1, <2>3, <2>4, <2>6, <2>7 DEF MgmtRight, OwnResponse
<1>4. CASE ~open
  <2>1. result' = [result EXCEPT ![k] = "refused"] /\ UNCHANGED <<nextMgmtId, mgmtPending, owed>>
    BY <1>2, <1>4 DEF MgmtRequest
  <2>2. nextMgmtId \in 0 .. k /\ k \in 0 .. MaxMgmt
    BY <1>1, <1>2, QtClientAssumption DEF MgmtType, Request
  <2>3. MgmtType'
    BY <1>1, <1>2, <2>1, <2>2 DEF MgmtType
  <2> QED
    BY <1>1, <2>1, <2>3 DEF MgmtRight, OwnResponse, MgmtType
<1> QED
  BY <1>3, <1>4

\* A response takes out the callback of its own request, which it alone waits for.
LEMMA ResponseInv == ASSUME MgmtRight, MgmtResp PROVE MgmtRight'
<1>1. MgmtType
  BY DEF MgmtRight
<1>2. PICK r \in owed :
        /\ owed' = owed \ {r} /\ mgmtPending' = [mgmtPending EXCEPT ![r.id] = None]
        /\ result' = IF mgmtPending[r.id] = None THEN result
                     ELSE [result EXCEPT ![mgmtPending[r.id]] =
                             IF r.of = mgmtPending[r.id] THEN "own" ELSE "other"]
        /\ UNCHANGED <<asked, nextMgmtId>>
  BY DEF MgmtResp
<1>3. r.id \in Request /\ r.of \in Request /\ mgmtPending[r.id] = r.of /\ None \notin Request
  BY <1>1 DEF MgmtType, Owed, MgmtRight, OwnResponse, None, Request
<1>4. result' = [result EXCEPT ![r.of] = "own"]
  BY <1>2, <1>3
<1>5. MgmtType'
  BY <1>1, <1>2, <1>3, <1>4 DEF MgmtType
<1>6. \A q \in owed' : mgmtPending'[q.id] = q.of
  <2> SUFFICES ASSUME NEW q \in owed' PROVE mgmtPending'[q.id] = q.of
    OBVIOUS
  <2>1. q \in Owed /\ r \in Owed /\ q # r /\ q \in owed
    BY <1>1, <1>2 DEF MgmtType
  <2>2. mgmtPending[q.id] = q.of
    BY <2>1 DEF MgmtRight, OwnResponse
  <2>3. q.id # r.id
    BY <1>3, <2>1, <2>2 DEF Owed
  <2>4. q.id \in Request
    BY <2>1 DEF Owed
  <2> QED
    BY <1>1, <1>2, <2>2, <2>3, <2>4 DEF MgmtType
<1> QED
  BY <1>1, <1>2, <1>3, <1>4, <1>5, <1>6 DEF MgmtRight, OwnResponse, MgmtType

LEMMA MgmtInv == MgmtRight /\ LinkRight /\ ClientNext => MgmtRight'
<1> SUFFICES ASSUME MgmtRight, LinkRight, ClientNext PROVE MgmtRight'
  OBVIOUS
<1>1. CASE UNCHANGED mgmtVars
  BY <1>1 DEF mgmtVars, MgmtRight, MgmtType, OwnResponse
<1>2. CASE owed' = {} /\ UNCHANGED <<asked, nextMgmtId, mgmtPending, result>>
  BY <1>2 DEF MgmtRight, MgmtType, OwnResponse
<1>3. CASE Ask
  BY <1>3, RequestInv DEF Ask
<1>4. CASE Connected
  BY <1>1, <1>4, RequestInv DEF Connected
<1>5. CASE Start \/ TimerFires \/ Disconnected
  BY <1>2, <1>5 DEF Start, TimerFires, Open, Disconnected
<1>6. CASE Stop \/ SetConfig
  BY <1>1, <1>6 DEF Stop, SetConfig
<1>7. CASE UNCHANGED clientVars
  BY <1>1, <1>7 DEF clientVars
<1> QED
  BY <1>1, <1>3, <1>4, <1>5, <1>6, <1>7, ResponseInv, StreamStepsLeaveLink DEF ClientNext, Signal, User

-----------------------------------------------------------------------------
(* Streams.                                                                *)

LEMMA Moved ==
  ASSUME NEW s \in Forwarders, NEW t,
         NEW a \in {"gone", "sent", "head", "connecting", "doomed", "open", "closing"},
         t = [s EXCEPT !.at = a]
  PROVE  /\ t \in Forwarders /\ t.at = a /\ t.proto = s.proto /\ t.link = s.link /\ t.frames = s.frames
         /\ t.astray = s.astray /\ t.abandoned = s.abandoned
<1>1. t \in Forwarders
  BY Zenon DEF Forwarders
<1>2. /\ t.at = a /\ t.proto = s.proto /\ t.link = s.link /\ t.frames = s.frames
      /\ t.astray = s.astray /\ t.abandoned = s.abandoned
  BY DEF Forwarders
<1> QED
  BY <1>1, <1>2

LEMMA Told ==
  ASSUME NEW s \in Forwarders, NEW t, t = [s EXCEPT !.told = TRUE]
  PROVE  /\ t \in Forwarders /\ t.at = s.at /\ t.proto = s.proto /\ t.link = s.link
         /\ t.frames = s.frames /\ t.astray = s.astray /\ t.abandoned = s.abandoned
<1>1. t \in Forwarders
  BY Zenon DEF Forwarders
<1>2. /\ t.at = s.at /\ t.proto = s.proto /\ t.link = s.link /\ t.frames = s.frames
      /\ t.astray = s.astray /\ t.abandoned = s.abandoned
  BY DEF Forwarders
<1> QED
  BY <1>1, <1>2

LEMMA Abandoned ==
  ASSUME NEW s \in Forwarders, NEW t, t = [s EXCEPT !.abandoned = TRUE]
  PROVE  /\ t \in Forwarders /\ t.at = s.at /\ t.proto = s.proto /\ t.link = s.link
         /\ t.frames = s.frames /\ t.astray = s.astray /\ t.abandoned
<1>1. t \in Forwarders
  BY Zenon DEF Forwarders
<1>2. /\ t.at = s.at /\ t.proto = s.proto /\ t.link = s.link /\ t.frames = s.frames
      /\ t.astray = s.astray
  BY DEF Forwarders
<1>3. t.abandoned = TRUE
  BY DEF Forwarders
<1> QED
  BY <1>1, <1>2, <1>3

LEMMA Concatenated ==
  ASSUME NEW f \in Seq(Kinds), NEW g \in Seq(Kinds)
  PROVE  /\ f \o g \in Seq(Kinds) /\ Len(f \o g) = Len(f) + Len(g) /\ Len(f) \in Nat /\ Len(g) \in Nat
         /\ \A i \in 1 .. Len(f) : (f \o g)[i] = f[i]
         /\ \A i \in Len(f) + 1 .. Len(f) + Len(g) : (f \o g)[i] = g[i - Len(f)]
<1>1. /\ f \o g \in Seq(Kinds) /\ Len(f \o g) = Len(f) + Len(g)
      /\ \A i \in 1 .. Len(f) + Len(g) : (f \o g)[i] = IF i <= Len(f) THEN f[i] ELSE g[i - Len(f)]
  BY ConcatProperties
<1>2. Len(f) \in Nat /\ Len(g) \in Nat
  OBVIOUS
<1>3. \A i \in 1 .. Len(f) : (f \o g)[i] = f[i]
  BY <1>1, <1>2
<1>4. \A i \in Len(f) + 1 .. Len(f) + Len(g) : (f \o g)[i] = g[i - Len(f)]
  BY <1>1, <1>2
<1> QED
  BY <1>1, <1>2, <1>3, <1>4

\* sendText, for a stream of the link and for one of an earlier link.
LEMMA Sending ==
  ASSUME NEW s \in Forwarders, NEW kinds \in Seq(Kinds), NEW t, t = Sent(s, kinds)
  PROVE  /\ t \in Forwarders /\ t.at = s.at /\ t.proto = s.proto /\ t.link = s.link
         /\ t.abandoned = s.abandoned
         /\ t.astray => s.astray \/ (ws = "connected" /\ s.link # link)
         /\ t.frames = IF ws = "connected" /\ s.link = link THEN s.frames \o kinds ELSE s.frames
<1>1. CASE ws # "connected"
  BY <1>1 DEF Sent
<1>2. CASE ws = "connected" /\ s.link # link
  <2>1. t = [s EXCEPT !.astray = TRUE]
    BY <1>2 DEF Sent
  <2>2. t \in Forwarders
    BY <2>1, Zenon DEF Forwarders
  <2>3. t.at = s.at /\ t.proto = s.proto /\ t.link = s.link /\ t.abandoned = s.abandoned /\ t.frames = s.frames
    BY <2>1 DEF Forwarders
  <2> QED
    BY <1>2, <2>2, <2>3
<1>3. CASE ws = "connected" /\ s.link = link
  <2>1. t = [s EXCEPT !.frames = s.frames \o kinds]
    BY <1>3 DEF Sent
  <2>2. s.frames \in Seq(Kinds)
    BY DEF Forwarders
  <2>3. s.frames \o kinds \in Seq(Kinds)
    BY <2>2, Concatenated
  <2>4. t \in Forwarders
    BY <2>1, <2>3, Zenon DEF Forwarders
  <2>5. /\ t.at = s.at /\ t.proto = s.proto /\ t.link = s.link /\ t.abandoned = s.abandoned
        /\ t.frames = s.frames \o kinds /\ t.astray = s.astray
    BY <2>1 DEF Forwarders
  <2> QED
    BY <1>3, <2>4, <2>5
<1> QED
  BY <1>1, <1>2, <1>3

\* What is told of a reply: a head, chunks, an end.
LEMMA Beginning ==
  /\ Begun(<<"head">>) /\ <<"head">> \in Seq(Kinds)
  /\ \A f \in Seq(Kinds) : Begun(f) => Answer(f)
BY DEF Begun, Answer, Kinds

LEMMA Continuing == ASSUME NEW f \in Seq(Kinds), Begun(f) PROVE Begun(f \o <<"chunk">>)
<1>1. <<"chunk">> \in Seq(Kinds) /\ Len(<<"chunk">>) = 1 /\ <<"chunk">>[1] = "chunk"
  BY DEF Kinds
<1>2. /\ Len(f \o <<"chunk">>) = Len(f) + 1 /\ Len(f) \in Nat
      /\ \A i \in 1 .. Len(f) : (f \o <<"chunk">>)[i] = f[i]
      /\ (f \o <<"chunk">>)[Len(f) + 1] = "chunk" /\ f \o <<"chunk">> \in Seq(Kinds)
  <2>1. /\ \A i \in Len(f) + 1 .. Len(f) + 1 : (f \o <<"chunk">>)[i] = <<"chunk">>[i - Len(f)]
        /\ Len(f) \in Nat
    BY <1>1, Concatenated
  <2>2. (f \o <<"chunk">>)[Len(f) + 1] = <<"chunk">>[(Len(f) + 1) - Len(f)]
    BY <2>1
  <2> QED
    BY <1>1, <2>1, <2>2, Concatenated
<1>3. f # <<>> /\ Len(f) >= 1 /\ f[1] = "head" /\ \A i \in 2 .. Len(f) : f[i] = "chunk"
  BY <1>2 DEF Begun
<1>4. \A i \in 2 .. Len(f) + 1 : i \in 2 .. Len(f) \/ i = Len(f) + 1
  BY <1>2
<1> QED
  BY <1>2, <1>3, <1>4 DEF Begun

LEMMA Ending == ASSUME NEW f \in Seq(Kinds), Begun(f) PROVE Answer(f \o <<"end">>)
<1>1. <<"end">> \in Seq(Kinds) /\ Len(<<"end">>) = 1 /\ <<"end">>[1] = "end"
  BY DEF Kinds
<1>2. /\ Len(f \o <<"end">>) = Len(f) + 1 /\ Len(f) \in Nat
      /\ \A i \in 1 .. Len(f) : (f \o <<"end">>)[i] = f[i]
      /\ (f \o <<"end">>)[Len(f) + 1] = "end" /\ f \o <<"end">> \in Seq(Kinds)
  <2>1. /\ \A i \in Len(f) + 1 .. Len(f) + 1 : (f \o <<"end">>)[i] = <<"end">>[i - Len(f)]
        /\ Len(f) \in Nat
    BY <1>1, Concatenated
  <2>2. (f \o <<"end">>)[Len(f) + 1] = <<"end">>[(Len(f) + 1) - Len(f)]
    BY <2>1
  <2> QED
    BY <1>1, <2>1, <2>2, Concatenated
<1>3. f # <<>> /\ Len(f) >= 1 /\ f[1] = "head" /\ \A i \in 2 .. Len(f) : f[i] = "chunk"
  BY <1>2 DEF Begun
<1>4. \A i \in 2 .. Len(f) + 1 : i \in 2 .. Len(f) \/ i = Len(f) + 1
  BY <1>2
<1> QED
  BY <1>2, <1>3, <1>4 DEF Answer

\* The rest of the body, which may be empty, and the end.
LEMMA Finishing ==
  ASSUME NEW f \in Seq(Kinds), Begun(f), NEW tail \in {<<>>, <<"chunk">>}
  PROVE  Answer((f \o tail) \o <<"end">>) /\ f \o tail \in Seq(Kinds)
<1>1. Begun(f \o tail) /\ f \o tail \in Seq(Kinds)
  <2>1. CASE tail = <<>>
    <3>1. f \o <<>> = f
      BY ConcatEmptySeq
    <3> QED
      BY <2>1, <3>1
  <2>2. CASE tail = <<"chunk">>
    <3>1. <<"chunk">> \in Seq(Kinds)
      BY DEF Kinds
    <3> QED
      BY <2>2, <3>1, Continuing, Concatenated
  <2> QED
    BY <2>1, <2>2
<1> QED
  BY <1>1, Ending

\* A step of one stream.
LEMMA OneStream ==
  ASSUME StreamsRight, NEW o \in Stream, NEW t \in Forwarders, strm' = [strm EXCEPT ![o] = t],
         opened' \in 0 .. MaxStreams, UNCHANGED linkVars, Placed(t), ReplyRight(t)
  PROVE  StreamsRight'
<1>1. link' = link /\ ws' = ws
  BY DEF linkVars
<1>2. strm \in [Stream -> Forwarders]
  BY DEF StreamsRight, StreamType
<1>3. StreamType'
  BY <1>2 DEF StreamType
<1>4. ASSUME NEW p \in Stream PROVE Placed(strm'[p]) /\ ReplyRight(strm'[p])
  <2>1. strm'[p] = IF p = o THEN t ELSE strm[p]
    BY <1>2
  <2> QED
    BY <2>1 DEF StreamsRight
<1>5. ASSUME NEW p \in Stream PROVE Placed(strm[p])' /\ ReplyRight(strm[p])'
  BY <1>1, <1>4 DEF Placed, ReplyRight
<1> QED
  BY <1>3, <1>5 DEF StreamsRight

\* Whatever a live stream sends and wherever it goes, it belongs where it was.
LEMMA PlacedOn ==
  ASSUME NEW s \in Forwarders, NEW t \in Forwarders, Placed(s), link \in Nat,
         s.at \notin {"none", "gone"} \/ (t.at = s.at /\ t.astray = s.astray),
         t.link = s.link, t.abandoned = s.abandoned,
         t.astray => s.astray \/ (ws = "connected" /\ s.link # link)
  PROVE  Placed(t)
<1>1. /\ s.link \in Nat /\ t.link \in Nat /\ s.abandoned \in BOOLEAN /\ t.abandoned \in BOOLEAN
      /\ s.astray \in BOOLEAN /\ t.astray \in BOOLEAN
  BY DEF Forwarders
<1> QED
  BY <1>1 DEF Placed

\* A stream goes to another place and sends something.
LEMMA SentOn ==
  ASSUME NEW s \in Forwarders, Placed(s), link \in Nat, s.at \notin {"none", "gone"},
         NEW kinds \in Seq(Kinds), NEW u \in Forwarders, u.proto = s.proto, u.link = s.link,
         u.frames = s.frames, u.astray = s.astray, u.abandoned = s.abandoned,
         NEW t, t = Sent(u, kinds)
  PROVE  /\ t \in Forwarders /\ Placed(t) /\ t.at = u.at /\ t.proto = s.proto /\ t.link = s.link
         /\ t.frames = IF ws = "connected" /\ s.link = link THEN s.frames \o kinds ELSE s.frames
<1>2. /\ t \in Forwarders /\ t.at = u.at /\ t.proto = u.proto /\ t.link = u.link
      /\ t.abandoned = u.abandoned
      /\ t.astray => u.astray \/ (ws = "connected" /\ u.link # link)
      /\ t.frames = IF ws = "connected" /\ u.link = link THEN u.frames \o kinds ELSE u.frames
  BY Sending
<1>3. Placed(t)
  BY <1>2, PlacedOn
<1> QED
  BY <1>2, <1>3

\* Sent(s, kinds) where the step is of no consequence for the place.
LEMMA SentHere ==
  ASSUME NEW s \in Forwarders, Placed(s), link \in Nat, s.at \notin {"none", "gone"},
         NEW kinds \in Seq(Kinds), NEW t, t = Sent(s, kinds)
  PROVE  /\ t \in Forwarders /\ Placed(t) /\ t.at = s.at /\ t.proto = s.proto /\ t.link = s.link
         /\ t.frames = IF ws = "connected" /\ s.link = link THEN s.frames \o kinds ELSE s.frames
<1>1. /\ t \in Forwarders /\ t.at = s.at /\ t.proto = s.proto /\ t.link = s.link
      /\ t.abandoned = s.abandoned
      /\ t.astray => s.astray \/ (ws = "connected" /\ s.link # link)
      /\ t.frames = IF ws = "connected" /\ s.link = link THEN s.frames \o kinds ELSE s.frames
  BY Sending
<1>2. Placed(t)
  BY <1>1, PlacedOn
<1> QED
  BY <1>1, <1>2

\* One frame of each kind.
LEMMA Frames == \A k \in Kinds : <<k>> \in Seq(Kinds)
OBVIOUS

LEMMA Together ==
  \A f, g, h \in Seq(Kinds) : (f \o g) \o h = f \o (g \o h)
<1> SUFFICES ASSUME NEW f \in Seq(Kinds), NEW g \in Seq(Kinds), NEW h \in Seq(Kinds)
             PROVE  (f \o g) \o h = f \o (g \o h)
  OBVIOUS
<1> QED
  BY ConcatAssociative

LEMMA NothingBefore == \A f \in Seq(Kinds) : <<>> \o f = f
BY ConcatEmptySeq

\* The replies of HTTP streams.
LEMMA ReplyInv ==
  ASSUME LinkRight, StreamsRight, NEW o \in Stream,
         MetaData(o) \/ ReadyRead(o) \/ ReplyFails(o) \/ ReplyFinishes(o)
  PROVE  StreamsRight'
<1>1. PICK s \in Forwarders : s = strm[o] /\ Placed(s) /\ ReplyRight(s)
  BY DEF StreamsRight, StreamType
<1>2. link \in Nat /\ opened \in 0 .. MaxStreams /\ s.frames \in Seq(Kinds)
  BY <1>1 DEF LinkRight, LinkType, StreamsRight, StreamType, Forwarders
<1>3. "head" \in Kinds /\ "chunk" \in Kinds /\ "end" \in Kinds /\ "abort" \in Kinds
  BY DEF Kinds
<1>4. /\ <<"head">> \in Seq(Kinds) /\ <<"chunk">> \in Seq(Kinds) /\ <<"end">> \in Seq(Kinds)
      /\ <<"abort">> \in Seq(Kinds)
  BY <1>3, Frames
<1>5. CASE MetaData(o)
  <2> DEFINE u == [s EXCEPT !.at = "head"]
             kinds == <<"head">>
             t == Sent(u, kinds)
  <2>1. /\ s.at = "sent" /\ strm' = [strm EXCEPT ![o] = t] /\ UNCHANGED <<linkVars, opened>>
    BY <1>1, <1>5 DEF MetaData, At, Becomes, To
  <2>2. /\ t \in Forwarders /\ Placed(t) /\ t.at = "head" /\ t.proto = s.proto /\ t.link = s.link
        /\ t.frames = IF ws = "connected" /\ s.link = link THEN s.frames \o kinds ELSE s.frames
    <3>1. kinds \in Seq(Kinds)
      BY <1>4
    <3>2. /\ u \in Forwarders /\ u.at = "head" /\ u.proto = s.proto /\ u.link = s.link
          /\ u.frames = s.frames /\ u.astray = s.astray /\ u.abandoned = s.abandoned
      BY Moved
    <3> HIDE DEF kinds, u
    <3> QED
      BY <1>1, <1>2, <2>1, <3>1, <3>2, SentOn
  <2> HIDE DEF t
  <2>3. ReplyRight(t)
    BY <1>1, <1>4, <2>1, <2>2, Beginning, NothingBefore DEF ReplyRight
  <2> QED
    BY <1>2, <2>1, <2>2, <2>3, OneStream
<1>6. CASE ReadyRead(o)
  <2> DEFINE kinds == <<"chunk">>
             t == Sent(s, kinds)
  <2>1. /\ s.at = "head" /\ strm' = [strm EXCEPT ![o] = t] /\ UNCHANGED <<linkVars, opened>>
    BY <1>1, <1>6 DEF ReadyRead, At, Becomes
  <2>2. /\ t \in Forwarders /\ Placed(t) /\ t.at = s.at /\ t.proto = s.proto /\ t.link = s.link
        /\ t.frames = IF ws = "connected" /\ s.link = link THEN s.frames \o kinds ELSE s.frames
    <3>1. kinds \in Seq(Kinds)
      BY <1>4
    <3> HIDE DEF kinds
    <3> QED
      BY <1>1, <1>2, <2>1, <3>1, SentHere
  <2> HIDE DEF t
  <2>3. ReplyRight(t)
    <3>1. CASE ws = "connected" /\ s.link = link
      <4>1. s.proto = "http" => Begun(s.frames)
        BY <1>1, <2>1, <3>1 DEF ReplyRight
      <4>2. s.proto = "http" => Begun(t.frames) /\ t.frames \in Seq(Kinds)
        BY <1>2, <1>4, <2>2, <3>1, <4>1, Continuing, Concatenated
      <4> QED
        BY <2>1, <2>2, <4>2, Beginning DEF ReplyRight
    <3>2. CASE ~(ws = "connected" /\ s.link = link)
      BY <1>1, <2>1, <2>2, <3>2 DEF ReplyRight
    <3> QED
      BY <3>1, <3>2
  <2> QED
    BY <1>2, <2>1, <2>2, <2>3, OneStream
<1>7. CASE ReplyFails(o)
  <2> DEFINE u == [s EXCEPT !.at = "gone"]
             kinds == <<"abort">>
             t == Sent(u, kinds)
  <2>1. /\ s.at = "sent" /\ strm' = [strm EXCEPT ![o] = t] /\ UNCHANGED <<linkVars, opened>>
    BY <1>1, <1>7 DEF ReplyFails, At, Becomes, To
  <2>2. /\ t \in Forwarders /\ Placed(t) /\ t.at = "gone" /\ t.proto = s.proto /\ t.link = s.link
        /\ t.frames = IF ws = "connected" /\ s.link = link THEN s.frames \o kinds ELSE s.frames
    <3>1. kinds \in Seq(Kinds)
      BY <1>4
    <3>2. /\ u \in Forwarders /\ u.at = "gone" /\ u.proto = s.proto /\ u.link = s.link
          /\ u.frames = s.frames /\ u.astray = s.astray /\ u.abandoned = s.abandoned
      BY Moved
    <3> HIDE DEF kinds, u
    <3> QED
      BY <1>1, <1>2, <2>1, <3>1, <3>2, SentOn
  <2> HIDE DEF t
  <2>3. ReplyRight(t)
    BY <1>1, <1>4, <2>1, <2>2, NothingBefore DEF ReplyRight, Answer
  <2> QED
    BY <1>2, <2>1, <2>2, <2>3, OneStream
<1>8. CASE ReplyFinishes(o)
  <2>1. PICK tail \in {<<>>, <<"chunk">>} :
          /\ s.at \in {"sent", "head"} /\ UNCHANGED <<linkVars, opened>>
          /\ strm' = [strm EXCEPT ![o] = Sent([s EXCEPT !.at = "gone"],
                        (IF s.at = "sent" THEN <<"head">> ELSE <<>>) \o tail \o <<"end">>)]
    BY <1>1, <1>8 DEF ReplyFinishes, At, Becomes, To
  <2> DEFINE first == IF s.at = "sent" THEN <<"head">> ELSE <<>>
             rest == first \o tail \o <<"end">>
             u == [s EXCEPT !.at = "gone"]
             t == Sent(u, rest)
  <2>2. first \in Seq(Kinds) /\ tail \in Seq(Kinds)
    <3>1. <<>> \in Seq(Kinds)
      OBVIOUS
    <3> QED
      BY <1>4, <3>1
  <2>3. first \o tail \in Seq(Kinds) /\ rest \in Seq(Kinds)
    BY <1>4, <2>2, Concatenated
  <2>4. /\ t \in Forwarders /\ Placed(t) /\ t.at = "gone" /\ t.proto = s.proto /\ t.link = s.link
        /\ t.frames = IF ws = "connected" /\ s.link = link THEN s.frames \o rest ELSE s.frames
    <3>1. /\ u \in Forwarders /\ u.at = "gone" /\ u.proto = s.proto /\ u.link = s.link
          /\ u.frames = s.frames /\ u.astray = s.astray /\ u.abandoned = s.abandoned
      BY Moved
    <3> HIDE DEF rest, u
    <3> QED
      BY <1>1, <1>2, <2>1, <2>3, <3>1, SentOn
  <2>5. ASSUME s.proto = "http", ws = "connected", s.link = link PROVE Answer(s.frames \o rest)
    <3>1. CASE s.at = "sent"
      <4>1. s.frames = <<>> /\ first = <<"head">>
        BY <1>1, <2>5, <3>1 DEF ReplyRight
      <4>2. <<>> \o rest = rest
        BY <2>3, NothingBefore
      <4>3. Answer((<<"head">> \o tail) \o <<"end">>)
        BY Beginning, Finishing
      <4> QED
        BY <4>1, <4>2, <4>3
    <3>2. CASE s.at = "head"
      <4>1. Begun(s.frames) /\ first = <<>>
        BY <1>1, <2>5, <3>2 DEF ReplyRight
      <4>2. first \o tail = tail
        BY <2>2, <4>1, NothingBefore
      <4>3. s.frames \o (tail \o <<"end">>) = (s.frames \o tail) \o <<"end">>
        BY ZenonT(60), <1>2, <1>4, <2>2, Together
      <4>4. Answer((s.frames \o tail) \o <<"end">>)
        BY <1>2, <4>1, Finishing
      <4> QED
        BY <4>2, <4>3, <4>4
    <3> QED
      BY <2>1, <3>1, <3>2
  <2> HIDE DEF t, rest
  <2>6. ReplyRight(t)
    BY <1>1, <2>1, <2>4, <2>5 DEF ReplyRight
  <2>7. strm' = [strm EXCEPT ![o] = t]
    BY <2>1 DEF t, u, rest
  <2> QED
    BY <1>2, <2>1, <2>4, <2>6, <2>7, OneStream
<1> QED
  BY <1>5, <1>6, <1>7, <1>8

\* The sockets of TCP streams, which are not HTTP streams.
LEMMA SocketInv ==
  ASSUME LinkRight, StreamsRight, NEW o \in Stream,
         TcpConnected(o) \/ TcpReadyRead(o) \/ TcpEnds(o) \/ TcpFails(o)
  PROVE  StreamsRight'
<1>1. PICK s \in Forwarders : s = strm[o] /\ Placed(s) /\ ReplyRight(s)
  BY DEF StreamsRight, StreamType
<1>2. link \in Nat /\ opened \in 0 .. MaxStreams
  BY DEF LinkRight, LinkType, StreamsRight, StreamType
<1>3. s.at \in {"connecting", "doomed", "open", "closing"} /\ UNCHANGED <<linkVars, opened>>
  BY <1>1 DEF TcpConnected, TcpReadyRead, TcpEnds, TcpFails, At, Becomes
<1>4. s.proto # "http"
  BY <1>1, <1>3 DEF ReplyRight
<1>5. <<"chunk">> \in Seq(Kinds) /\ <<"end">> \in Seq(Kinds) /\ <<"abort">> \in Seq(Kinds)
  BY DEF Kinds
<1>6. CASE TcpConnected(o)
  <2>1. PICK a \in {"gone", "sent", "head", "connecting", "doomed", "open", "closing"} :
          strm' = [strm EXCEPT ![o] = [s EXCEPT !.at = a]]
    BY <1>1, <1>6 DEF TcpConnected, Becomes, To
  <2> DEFINE t == [s EXCEPT !.at = a]
  <2>2. /\ t \in Forwarders /\ t.proto = s.proto /\ t.link = s.link /\ t.astray = s.astray
        /\ t.abandoned = s.abandoned
    BY Moved
  <2>3. strm' = [strm EXCEPT ![o] = t]
    BY <2>1
  <2> HIDE DEF t
  <2>4. Placed(t)
    BY <1>1, <1>2, <1>3, <2>2, PlacedOn
  <2>5. ReplyRight(t)
    BY <1>4, <2>2 DEF ReplyRight
  <2> QED
    BY <1>2, <1>3, <2>2, <2>3, <2>4, <2>5, OneStream
<1>7. CASE TcpReadyRead(o)
  <2> DEFINE kinds == <<"chunk">>
             t == Sent(s, kinds)
  <2>1. strm' = [strm EXCEPT ![o] = t]
    BY <1>1, <1>7 DEF TcpReadyRead, Becomes
  <2>2. t \in Forwarders /\ Placed(t) /\ t.proto = s.proto
    <3>1. kinds \in Seq(Kinds)
      BY <1>5
    <3> HIDE DEF kinds
    <3> QED
      BY <1>1, <1>2, <1>3, <3>1, SentHere
  <2> HIDE DEF t
  <2>3. ReplyRight(t)
    BY <1>4, <2>2 DEF ReplyRight
  <2> QED
    BY <1>2, <1>3, <2>1, <2>2, <2>3, OneStream
<1>8. CASE TcpEnds(o) \/ TcpFails(o)
  <2>1. PICK kinds \in Seq(Kinds) : strm' = [strm EXCEPT ![o] = Sent([s EXCEPT !.at = "gone"], kinds)]
    BY <1>1, <1>5, <1>8 DEF TcpEnds, TcpFails, Becomes, To
  <2> DEFINE u == [s EXCEPT !.at = "gone"]
             t == Sent(u, kinds)
  <2>2. t \in Forwarders /\ Placed(t) /\ t.proto = s.proto
    <3>1. /\ u \in Forwarders /\ u.proto = s.proto /\ u.link = s.link
          /\ u.frames = s.frames /\ u.astray = s.astray /\ u.abandoned = s.abandoned
      BY Moved
    <3> HIDE DEF u
    <3> QED
      BY <1>1, <1>2, <1>3, <2>1, <3>1, SentOn
  <2>3. strm' = [strm EXCEPT ![o] = t]
    BY <2>1
  <2> HIDE DEF t
  <2>4. ReplyRight(t)
    BY <1>4, <2>2 DEF ReplyRight
  <2> QED
    BY <1>2, <1>3, <2>2, <2>3, <2>4, OneStream
<1> QED
  BY <1>6, <1>7, <1>8

\* A CloseStream is for a stream of the link, whose head is sent once the reply has one.
LEMMA CloseStreamInv ==
  ASSUME LinkRight, StreamsRight, NEW o \in Stream, OnCloseStream(o) PROVE StreamsRight'
<1>1. PICK s \in Forwarders : s = strm[o] /\ Placed(s) /\ ReplyRight(s)
  BY DEF StreamsRight, StreamType
<1>2. link \in Nat /\ opened \in 0 .. MaxStreams /\ s.frames \in Seq(Kinds)
  BY <1>1 DEF LinkRight, LinkType, StreamsRight, StreamType, Forwarders
<1>3. ws = "connected" /\ s.link = link /\ UNCHANGED <<linkVars, opened>>
  BY <1>1 DEF OnCloseStream, Becomes
<1> DEFINE u == [s EXCEPT !.told = TRUE]
<1>4. /\ u \in Forwarders /\ u.at = s.at /\ u.proto = s.proto /\ u.link = s.link
      /\ u.frames = s.frames /\ u.astray = s.astray /\ u.abandoned = s.abandoned
  BY Told
<1>5. \/ s.at = "connecting" /\ strm' = [strm EXCEPT ![o] = [u EXCEPT !.at = "doomed"]]
      \/ s.at = "open" /\ strm' = [strm EXCEPT ![o] = [u EXCEPT !.at = "closing"]]
      \/ s.at = "sent" /\ strm' = [strm EXCEPT ![o] = Sent([u EXCEPT !.at = "gone"], <<"abort">>)]
      \/ s.at = "head" /\ strm' = [strm EXCEPT ![o] = Sent([u EXCEPT !.at = "gone"], <<"end">>)]
      \/ strm' = [strm EXCEPT ![o] = u]
  BY <1>1 DEF OnCloseStream, Becomes, At
<1> HIDE DEF u
<1>6. ASSUME s.at \in {"connecting", "open"},
             NEW a \in {"gone", "sent", "head", "connecting", "doomed", "open", "closing"},
             strm' = [strm EXCEPT ![o] = [u EXCEPT !.at = a]]
      PROVE  StreamsRight'
  <2> DEFINE t == [u EXCEPT !.at = a]
  <2>1. /\ t \in Forwarders /\ t.proto = u.proto /\ t.link = u.link /\ t.astray = u.astray
        /\ t.abandoned = u.abandoned
    BY <1>4, Moved
  <2>2. strm' = [strm EXCEPT ![o] = t]
    BY <1>6
  <2> HIDE DEF t
  <2>3. Placed(t)
    BY <1>1, <1>2, <1>4, <1>6, <2>1, PlacedOn
  <2>4. ReplyRight(t)
    BY <1>1, <1>4, <1>6, <2>1 DEF ReplyRight
  <2> QED
    BY <1>2, <1>3, <2>1, <2>2, <2>3, <2>4, OneStream
<1>7. ASSUME s.at \in {"sent", "head"}, NEW k \in Kinds,
             s.at = "sent" => k = "abort", s.at = "head" => k = "end",
             strm' = [strm EXCEPT ![o] = Sent([u EXCEPT !.at = "gone"], <<k>>)]
      PROVE  StreamsRight'
  <2> DEFINE x == [u EXCEPT !.at = "gone"]
             kinds == <<k>>
             t == Sent(x, kinds)
  <2>1. /\ x \in Forwarders /\ x.at = "gone" /\ x.proto = u.proto /\ x.link = u.link
        /\ x.frames = u.frames /\ x.astray = u.astray /\ x.abandoned = u.abandoned
    BY <1>4, Moved
  <2>2. kinds \in Seq(Kinds) /\ strm' = [strm EXCEPT ![o] = t]
    BY <1>7, Frames
  <2>3. /\ t \in Forwarders /\ Placed(t) /\ t.at = "gone" /\ t.proto = s.proto /\ t.link = s.link
        /\ t.frames = IF ws = "connected" /\ s.link = link THEN s.frames \o kinds ELSE s.frames
    <3> HIDE DEF x, kinds
    <3> QED
      BY <1>1, <1>2, <1>4, <1>7, <2>1, <2>2, SentOn
  <2> HIDE DEF t
  <2>4. s.proto = "http" => Answer(s.frames \o <<k>>)
    <3>1. CASE s.at = "sent"
      <4>1. <<"abort">> \in Seq(Kinds)
        BY DEF Kinds
      <4> QED
        BY <1>1, <1>7, <3>1, <4>1, NothingBefore DEF ReplyRight, Answer
    <3>2. CASE s.at = "head"
      BY <1>1, <1>2, <1>3, <1>7, <3>2, Ending DEF ReplyRight
    <3> QED
      BY <1>7, <3>1, <3>2
  <2>5. ReplyRight(t)
    BY <1>3, <2>3, <2>4 DEF ReplyRight
  <2> QED
    BY <1>2, <1>3, <2>2, <2>3, <2>5, OneStream
<1>8. ASSUME strm' = [strm EXCEPT ![o] = u] PROVE StreamsRight'
  <2>1. Placed(u)
    BY <1>1, <1>2, <1>4, PlacedOn
  <2>2. ReplyRight(u)
    BY <1>1, <1>4 DEF ReplyRight
  <2> QED
    BY <1>2, <1>3, <1>4, <1>8, <2>1, <2>2, OneStream
<1>9. "abort" \in Kinds /\ "end" \in Kinds
  BY DEF Kinds
<1> QED
  BY <1>5, <1>6, <1>7, <1>8, <1>9

LEMMA UnbornRight ==
  /\ Unborn \in Forwarders
  /\ Unborn.proto = "none" /\ Unborn.link = 0 /\ Unborn.at = "none" /\ Unborn.frames = <<>>
  /\ Unborn.astray = FALSE /\ Unborn.abandoned = FALSE
<1>1. <<>> \in Seq(Kinds)
  OBVIOUS
<1>2. Unborn \in Forwarders
  BY <1>1, SMT DEF Unborn, Forwarders, None
<1>3. /\ Unborn.proto = "none" /\ Unborn.link = 0 /\ Unborn.at = "none" /\ Unborn.frames = <<>>
      /\ Unborn.astray = FALSE /\ Unborn.abandoned = FALSE
  BY DEF Unborn, None
<1> QED
  BY <1>2, <1>3

\* A stream that is opened: only its tunnel, its link and its place are new.
LEMMA NewStream ==
  ASSUME NEW proto \in {"none", "http", "tcp"}, NEW l \in Nat, NEW s,
         s = [Unborn EXCEPT !.proto = proto, !.link = l, !.at = "gone"]
  PROVE  /\ s \in Forwarders /\ s.proto = proto /\ s.link = l /\ s.at = "gone" /\ s.frames = <<>>
         /\ ~s.astray /\ ~s.abandoned
<1>1. s \in Forwarders
  BY UnbornRight, Zenon DEF Forwarders
<1>2. /\ s.proto = proto /\ s.link = l /\ s.at = "gone" /\ s.frames = <<>>
      /\ ~s.astray /\ ~s.abandoned
  BY UnbornRight DEF Forwarders
<1> QED
  BY <1>1, <1>2

LEMMA OpenStreamInv ==
  ASSUME LinkRight, StreamsRight, NEW proto \in {"none", "http", "tcp"}, OnOpenStream(proto)
  PROVE  StreamsRight'
<1>1. /\ link \in Nat /\ ws = "connected" /\ UNCHANGED linkVars
      /\ opened' \in Stream /\ opened' \in 0 .. MaxStreams
  BY QtClientAssumption DEF OnOpenStream, LinkRight, LinkType, StreamsRight, StreamType, Stream
<1>2. PICK o \in Stream : o = opened'
  BY <1>1
<1>3. PICK s : s = [Unborn EXCEPT !.proto = proto, !.link = link, !.at = "gone"]
  OBVIOUS
<1>4. /\ s.proto = proto /\ s.link = link /\ s.at = "gone" /\ s.frames = <<>>
      /\ ~s.astray /\ ~s.abandoned
  <2>1. link \in Nat /\ proto \in {"none", "http", "tcp"}
    BY <1>1
  <2> QED
    BY <1>3, UnbornRight, <2>1 DEF Forwarders
<1>5. s \in Forwarders
  BY <1>1, <1>3, NewStream
<1>6. strm' = [strm EXCEPT ![o] = CASE proto = "none" -> Sent(s, <<"abort">>)
                                    [] proto = "http" -> [s EXCEPT !.at = "sent"]
                                    [] proto = "tcp"  -> [s EXCEPT !.at = "connecting"]]
  BY <1>2, <1>3 DEF OnOpenStream
<1>7. CASE proto = "none"
  <2> DEFINE kinds == <<"abort">>
             t == Sent(s, kinds)
  <2>1. kinds \in Seq(Kinds) /\ strm' = [strm EXCEPT ![o] = t]
    BY <1>6, <1>7 DEF Kinds
  <2> HIDE DEF kinds
  <2>2. /\ t \in Forwarders /\ t.at = s.at /\ t.proto = s.proto /\ t.link = s.link
        /\ t.astray => s.astray \/ (ws = "connected" /\ s.link # link)
    BY <1>5, <2>1, Sending
  <2> HIDE DEF t
  <2>3. ~t.astray
    BY <1>4, <2>2
  <2>4. Placed(t)
    BY <1>1, <1>4, <2>2, <2>3 DEF Placed
  <2>5. ReplyRight(t)
    BY <1>4, <1>7, <2>2 DEF ReplyRight
  <2> QED
    BY <1>1, <2>1, <2>2, <2>4, <2>5, OneStream
<1>8. CASE proto # "none"
  <2>1. PICK a \in {"gone", "sent", "head", "connecting", "doomed", "open", "closing"} :
          /\ strm' = [strm EXCEPT ![o] = [s EXCEPT !.at = a]]
          /\ proto = "http" => a = "sent"
    BY <1>6, <1>8
  <2> DEFINE t == [s EXCEPT !.at = a]
  <2>2. /\ t \in Forwarders /\ t.at = a /\ t.proto = s.proto /\ t.link = s.link
        /\ t.frames = s.frames /\ t.astray = s.astray
    BY <1>5, Moved
  <2>3. strm' = [strm EXCEPT ![o] = t]
    BY <2>1
  <2> HIDE DEF t
  <2>4. Placed(t)
    BY <1>1, <1>4, <2>2 DEF Placed
  <2>5. ReplyRight(t)
    BY <1>4, <2>1, <2>2 DEF ReplyRight
  <2> QED
    BY <1>1, <2>2, <2>3, <2>4, <2>5, OneStream
<1> QED
  BY <1>7, <1>8

\* openConnection: a stream that is still alive is one of a connection that was closing.
LEMMA OpenInv ==
  ASSUME LinkRight, StreamsRight, Start \/ TimerFires PROVE StreamsRight'
<1>1. /\ link \in Nat /\ link' = link + 1 /\ ws' = "connecting" /\ opened' = opened
      /\ strm \in [Stream -> Forwarders] /\ opened \in 0 .. MaxStreams
      /\ strm' = [o \in Stream |->
           IF o \in Live /\ ws = "closing" THEN [strm[o] EXCEPT !.abandoned = TRUE] ELSE strm[o]]
  BY DEF Start, TimerFires, Open, LinkRight, LinkType, StreamsRight, StreamType
<1>2. ws \in {"none", "closing"}
  BY DEF Start, TimerFires, LinkRight, LinkType, KeepsTrying
<1>3. ASSUME NEW o \in Stream
      PROVE  strm'[o] \in Forwarders /\ Placed(strm[o])' /\ ReplyRight(strm[o])'
  <2>1. PICK s \in Forwarders : s = strm[o] /\ Placed(s) /\ ReplyRight(s) /\ s.link \in Nat
    BY <1>1 DEF StreamsRight, Forwarders
  <2>2. s.link <= link /\ s.link # link' /\ s.link <= link'
    BY <1>1, <2>1 DEF Placed
  <2>3. CASE o \in Live /\ ws = "closing"
    <3> DEFINE t == [s EXCEPT !.abandoned = TRUE]
    <3>1. /\ t \in Forwarders /\ t.at = s.at /\ t.proto = s.proto /\ t.link = s.link
          /\ t.frames = s.frames /\ t.abandoned
      BY Abandoned
    <3>2. strm'[o] = t
      BY <1>1, <2>1, <2>3
    <3> HIDE DEF t
    <3> QED
      BY <2>1, <2>2, <3>1, <3>2 DEF Placed, ReplyRight
  <2>4. CASE ~(o \in Live /\ ws = "closing")
    <3>1. strm'[o] = s
      BY <1>1, <2>1, <2>4
    <3>2. s.at \notin {"none", "gone"} => s.link # link /\ s.abandoned
      BY <1>2, <2>1, <2>4 DEF Placed, Live
    <3> QED
      BY <1>1, <2>1, <2>2, <3>1, <3>2 DEF Placed, ReplyRight
  <2> QED
    BY <2>3, <2>4
<1>4. strm' \in [Stream -> Forwarders]
  BY <1>1, <1>3
<1> QED
  BY <1>1, <1>3, <1>4 DEF StreamsRight, StreamType

LEMMA DisconnectedInv ==
  ASSUME LinkRight, StreamsRight, Disconnected PROVE StreamsRight'
<1>1. /\ link' = link /\ ws' = "none" /\ opened' = opened
      /\ strm \in [Stream -> Forwarders] /\ opened \in 0 .. MaxStreams
      /\ strm' = [o \in Stream |-> IF o \in Live THEN [strm[o] EXCEPT !.at = "gone"] ELSE strm[o]]
  BY DEF Disconnected, StreamsRight, StreamType
<1>2. ASSUME NEW o \in Stream
      PROVE  strm'[o] \in Forwarders /\ Placed(strm[o])' /\ ReplyRight(strm[o])'
  <2>1. PICK s \in Forwarders : s = strm[o] /\ Placed(s) /\ ReplyRight(s)
    BY <1>1 DEF StreamsRight
  <2>2. CASE o \in Live
    <3> DEFINE t == [s EXCEPT !.at = "gone"]
    <3>1. /\ t \in Forwarders /\ t.at = "gone" /\ t.proto = s.proto /\ t.link = s.link
          /\ t.frames = s.frames /\ t.astray = s.astray /\ t.abandoned = s.abandoned
      BY Moved
    <3>2. strm'[o] = t
      BY <1>1, <2>1, <2>2
    <3> HIDE DEF t
    <3> QED
      BY <1>1, <2>1, <3>1, <3>2 DEF Placed, ReplyRight
  <2>3. CASE o \notin Live
    <3>1. strm'[o] = s /\ s.at \in {"none", "gone"}
      BY <1>1, <2>1, <2>3 DEF Live
    <3> QED
      BY <1>1, <2>1, <3>1 DEF Placed, ReplyRight
  <2> QED
    BY <2>2, <2>3
<1>3. strm' \in [Stream -> Forwarders]
  BY <1>1, <1>2
<1> QED
  BY <1>1, <1>2, <1>3 DEF StreamsRight, StreamType

\* The socket is connected, or closed by stop: no stream is of a link that is being made.
LEMMA SameStreams ==
  ASSUME LinkRight, StreamsRight, UNCHANGED <<strmVars, link>>,
         \/ ws' = ws
         \/ ws = "connecting" /\ ws' = "connected"
         \/ ws \in {"connecting", "connected"} /\ ws' = "closing"
  PROVE  StreamsRight'
<1>1. strm' = strm /\ opened' = opened /\ link' = link
  BY DEF strmVars
<1>2. ASSUME NEW o \in Stream PROVE Placed(strm[o])' /\ ReplyRight(strm[o])'
  <2>1. Placed(strm[o]) /\ ReplyRight(strm[o])
    BY DEF StreamsRight
  <2> QED
    BY <1>1, <2>1 DEF Placed, ReplyRight
<1> QED
  BY <1>1, <1>2 DEF StreamsRight, StreamType

LEMMA StreamsInv == LinkRight /\ StreamsRight /\ ClientNext => StreamsRight'
<1> SUFFICES ASSUME LinkRight, StreamsRight, ClientNext PROVE StreamsRight'
  OBVIOUS
<1>1. CASE Connected
  BY <1>1, SameStreams DEF Connected
<1>2. CASE Stop
  BY <1>2, SameStreams DEF Stop
<1>3. CASE SetConfig \/ Ask \/ MgmtResp \/ UNCHANGED clientVars
  BY <1>3, SameStreams DEF SetConfig, Ask, MgmtResp, linkVars, strmVars, clientVars
<1>4. opened \in 0 .. MaxStreams /\ 1 .. opened \subseteq Stream
  BY QtClientAssumption DEF StreamsRight, StreamType, Stream
<1>5. ASSUME NEW o \in 1 .. opened, Local(o) \/ OnCloseStream(o) PROVE StreamsRight'
  <2>1. o \in Stream
    BY <1>4
  <2> QED
    BY <1>5, <2>1, ReplyInv, SocketInv, CloseStreamInv DEF Local
<1> QED
  BY <1>1, <1>2, <1>3, <1>5, OpenStreamInv, OpenInv, DisconnectedInv DEF ClientNext, Signal, User

LEMMA ClientInvStep == ClientInv /\ ClientNext => ClientInv'
BY LinkInv, MgmtInv, StreamsInv DEF ClientInv

LEMMA ClientInvInit == ClientInit => ClientInv
<1> SUFFICES ASSUME ClientInit PROVE ClientInv
  OBVIOUS
<1>1. LinkRight
  BY DEF ClientInit, LinkRight, LinkType, KeepsTrying
<1>2. MgmtRight
  BY QtClientAssumption DEF ClientInit, MgmtRight, MgmtType, OwnResponse, None
<1>3. StreamType /\ \A o \in Stream : strm[o] = Unborn
  BY QtClientAssumption, UnbornRight DEF ClientInit, StreamType
<1>4. Placed(Unborn) /\ ReplyRight(Unborn)
  BY UnbornRight DEF ClientInit, Placed, ReplyRight
<1> QED
  BY <1>1, <1>2, <1>3, <1>4 DEF ClientInv, StreamsRight

-----------------------------------------------------------------------------
(* Logins.                                                                 *)

LoginType ==
  /\ login \in {"cli", "gui", "ws", "http", "token"}
  /\ code \in {"none", "denied", "pending", "granted", "used", "refused"}
  /\ poller \in BOOLEAN /\ token \in BOOLEAN /\ overlapped \in BOOLEAN /\ wasted \in BOOLEAN
  /\ poll \in [Poll -> {"none", "asked", "pending", "signed", "ok", "error", "bad", "lost", "done"}]
  /\ exit \in {"none", "0", "1", "3"}

\* The code has been granted to this poll, whose token has not arrived.
Wins(p) == poll[p] \in {"signed", "ok"}

Busy(p) == poll[p] \notin {"none", "done"}

\* Nobody polls without a code, and what the provider has answered it stands by.
CodeRight ==
  /\ code \in {"none", "denied"} => ~poller /\ \A p \in Poll : poll[p] = "none"
  /\ \A p \in Poll : Wins(p) => code = "used"
  /\ \A p \in Poll : poll[p] = "error" => code \in {"used", "refused"}

\* One poll wins; with tunnel-lite one at most is on its way.
OnePoll ==
  /\ \A p, q \in Poll : Wins(p) /\ Wins(q) => p = q
  /\ login \notin Qt => \A p, q \in Poll : Busy(p) /\ Busy(q) => p = q

\* With the token the polling ends: what is still on its way was so when it came.
TokenRight ==
  /\ login = "token" => code = "none" /\ exit = "none"
  /\ login # "token" /\ token =>
       /\ code = "used" /\ ~poller
       /\ \A p \in Poll : ~Wins(p) /\ (Busy(p) => overlapped)
       /\ login \notin Qt => exit = "0"

\* A code that is used up has given a token, or gives one to a poll on its way, or the
\* token is lost.
TokenDue == code = "used" /\ ~wasted => token \/ \E p \in Poll : Wins(p)

LoginInv ==
  /\ LoginType /\ CodeRight /\ OnePoll /\ TokenRight /\ TokenDue
  /\ LoginKept /\ FailsForAReason

LoginNext == LoginStep \/ (\E p \in Poll : TokenReceived(p)) \/ UNCHANGED loginVars

LEMMA PollTo ==
  ASSUME LoginType, NEW p \in Poll,
         NEW s \in {"none", "asked", "pending", "signed", "ok", "error", "bad", "lost", "done"},
         poll' = [poll EXCEPT ![p] = s]
  PROVE  /\ poll' \in [Poll -> {"none", "asked", "pending", "signed", "ok", "error", "bad", "lost", "done"}]
         /\ poll'[p] = s /\ \A q \in Poll : q # p => poll'[q] = poll[q]
BY DEF LoginType

LEMMA LoginInvStep == LoginInv /\ LoginNext => LoginInv'
<1> SUFFICES ASSUME LoginInv, LoginNext PROVE LoginInv'
  OBVIOUS
<1> USE DEF CodeRight, OnePoll, TokenRight, TokenDue, LoginKept, FailsForAReason, Wins, Busy
<1>1. CASE DeviceStart
  BY <1>1 DEF DeviceStart, LoginInv, LoginType, Failed, Exited
<1>2. CASE Decide
  BY <1>2 DEF Decide, LoginInv, LoginType
<1>3. CASE Tick
  BY SMTT(30), <1>3, PollTo DEF Tick, LoginInv, LoginType, OnItsWay
<1>4. ASSUME NEW p \in Poll, AskProvider(p) PROVE LoginInv'
  BY <1>4, PollTo DEF AskProvider, Step, LoginInv, LoginType
<1>5. ASSUME NEW p \in Poll, Issue(p) PROVE LoginInv'
  <2>1. /\ poll[p] = "signed" /\ UNCHANGED <<login, code, poller, token, exit, overlapped>>
        /\ wasted' \in BOOLEAN /\ (wasted => wasted') /\ poll'[p] \in {"ok", "bad"}
        /\ poll'[p] = "bad" => wasted'
        /\ poll' = [poll EXCEPT ![p] = poll'[p]]
    BY <1>5 DEF Issue, Step, LoginInv, LoginType
  <2>2. /\ poll' \in [Poll -> {"none", "asked", "pending", "signed", "ok", "error", "bad", "lost", "done"}]
        /\ \A q \in Poll : q # p => poll'[q] = poll[q]
    BY <2>1, PollTo DEF LoginInv
  <2>0. LoginType /\ CodeRight /\ OnePoll /\ TokenRight /\ TokenDue /\ LoginKept /\ FailsForAReason
    BY DEF LoginInv
  <2>3. LoginType'
    BY <2>0, <2>1, <2>2 DEF LoginType
  <2>4. CodeRight'
    BY <2>0, <2>1, <2>2 DEF LoginInv, LoginType
  <2>5. OnePoll'
    BY <2>0, <2>1, <2>2 DEF LoginInv, LoginType
  <2>6. TokenRight'
    BY <2>0, <2>1, <2>2 DEF LoginInv, LoginType
  <2>7. TokenDue'
    BY <2>0, <2>1, <2>2 DEF LoginInv, LoginType
  <2>8. LoginKept' /\ FailsForAReason'
    BY <2>0, <2>1, <2>2 DEF LoginInv, LoginType
  <2> QED
    BY <2>3, <2>4, <2>5, <2>6, <2>7, <2>8 DEF LoginInv
<1>6. ASSUME NEW p \in Poll, Lose(p) PROVE LoginInv'
  <2>1. /\ poll[p] \in {"asked", "pending", "ok", "error", "bad"}
        /\ poll' = [poll EXCEPT ![p] = "lost"] /\ wasted' = (wasted \/ poll[p] = "ok")
        /\ UNCHANGED <<login, code, poller, token, exit, overlapped>>
    BY <1>6 DEF Lose, Step
  <2>2. /\ poll' \in [Poll -> {"none", "asked", "pending", "signed", "ok", "error", "bad", "lost", "done"}]
        /\ poll'[p] = "lost" /\ \A q \in Poll : q # p => poll'[q] = poll[q]
    BY <2>1, PollTo DEF LoginInv
  <2>0. LoginType /\ CodeRight /\ OnePoll /\ TokenRight /\ TokenDue /\ LoginKept /\ FailsForAReason
    BY DEF LoginInv
  <2>3. LoginType'
    BY <2>0, <2>1, <2>2 DEF LoginType
  <2>4. CodeRight'
    BY <2>0, <2>1, <2>2 DEF LoginInv, LoginType
  <2>5. OnePoll'
    BY <2>0, <2>1, <2>2 DEF LoginInv, LoginType
  <2>6. TokenRight'
    BY <2>0, <2>1, <2>2 DEF LoginInv, LoginType
  <2>7. TokenDue'
    BY <2>0, <2>1, <2>2 DEF LoginInv, LoginType
  <2>8. LoginKept' /\ FailsForAReason'
    BY <2>0, <2>1, <2>2 DEF LoginInv, LoginType
  <2> QED
    BY <2>3, <2>4, <2>5, <2>6, <2>7, <2>8 DEF LoginInv
<1>7. ASSUME NEW p \in Poll, PollFails(p) PROVE LoginInv'
  <2>1. /\ poll[p] \in {"error", "bad", "lost"} /\ (login = "ws" => poll[p] = "error")
        /\ ~Exited /\ poll' = [poll EXCEPT ![p] = "done"] /\ Failed
        /\ UNCHANGED <<login, code, token, overlapped, wasted>>
    BY <1>7 DEF PollFails, Fatal, Answered, LoginInv, LoginType, Qt
  <2>2. /\ poll' \in [Poll -> {"none", "asked", "pending", "signed", "ok", "error", "bad", "lost", "done"}]
        /\ poll'[p] = "done" /\ \A q \in Poll : q # p => poll'[q] = poll[q]
    BY <2>1, PollTo DEF LoginInv
  <2>0. LoginType /\ CodeRight /\ OnePoll /\ TokenRight /\ TokenDue /\ LoginKept /\ FailsForAReason
    BY DEF LoginInv
  <2>3. LoginType'
    BY <2>0, <2>1, <2>2 DEF LoginType, Failed
  <2>4. CodeRight'
    BY <2>0, <2>1, <2>2 DEF LoginInv, LoginType, Failed, Exited
  <2>5. OnePoll'
    BY <2>0, <2>1, <2>2 DEF LoginInv, LoginType, Failed, Exited
  <2>6. TokenRight'
    BY <2>0, <2>1, <2>2 DEF LoginInv, LoginType, Failed, Exited
  <2>7. TokenDue'
    BY <2>0, <2>1, <2>2 DEF LoginInv, LoginType, Failed, Exited
  <2>8. LoginKept' /\ FailsForAReason'
    <3>1. login # "token" /\ (token => overlapped)
      BY <2>0, <2>1
    <3>2. login = "ws" => code = "refused" \/ wasted
      <4> SUFFICES ASSUME login = "ws", code # "refused", ~wasted PROVE FALSE
        OBVIOUS
      <4>1. poll[p] = "error" /\ code = "used" /\ login \notin Qt
        BY <2>0, <2>1 DEF Qt
      <4>2. ~token
        BY <2>0, <2>1, <4>1 DEF Exited
      <4>3. PICK q \in Poll : Wins(q)
        BY <2>0, <4>1, <4>2
      <4> QED
        BY <2>0, <4>1, <4>3
    <3>3. token' = token /\ overlapped' = overlapped /\ login' = login /\ code' = code /\ wasted' = wasted
      BY <2>1
    <3> QED
      BY <3>1, <3>2, <3>3
  <2> QED
    BY <2>3, <2>4, <2>5, <2>6, <2>7, <2>8 DEF LoginInv
<1>8. ASSUME NEW p \in Poll, PollAgain(p) PROVE LoginInv'
  <2>1. /\ poll[p] \in {"pending", "error", "bad", "lost"}
        /\ ~Exited /\ poll' = [poll EXCEPT ![p] = "done"]
        /\ UNCHANGED <<login, code, poller, token, exit, overlapped, wasted>>
    BY <1>8 DEF PollAgain, Answered
  <2>2. /\ poll' \in [Poll -> {"none", "asked", "pending", "signed", "ok", "error", "bad", "lost", "done"}]
        /\ poll'[p] = "done" /\ \A q \in Poll : q # p => poll'[q] = poll[q]
    BY <2>1, PollTo DEF LoginInv
  <2>0. LoginType /\ CodeRight /\ OnePoll /\ TokenRight /\ TokenDue /\ LoginKept /\ FailsForAReason
    BY DEF LoginInv
  <2>3. LoginType'
    BY <2>0, <2>1, <2>2 DEF LoginType
  <2>4. CodeRight'
    BY <2>0, <2>1, <2>2 DEF LoginInv, LoginType
  <2>5. OnePoll'
    BY <2>0, <2>1, <2>2 DEF LoginInv, LoginType
  <2>6. TokenRight'
    BY <2>0, <2>1, <2>2 DEF LoginInv, LoginType
  <2>7. TokenDue'
    BY <2>0, <2>1, <2>2 DEF LoginInv, LoginType
  <2>8. LoginKept' /\ FailsForAReason'
    BY <2>0, <2>1, <2>2 DEF LoginInv, LoginType
  <2> QED
    BY <2>3, <2>4, <2>5, <2>6, <2>7, <2>8 DEF LoginInv
<1>9. ASSUME NEW p \in Poll, TokenReceived(p) PROVE LoginInv'
  <2>1. /\ poll[p] = "ok" /\ ~Exited /\ poll' = [poll EXCEPT ![p] = "done"]
        /\ token' = TRUE /\ poller' = FALSE
        /\ exit' = IF login \in Qt THEN "none" ELSE "0"
        /\ overlapped' \in BOOLEAN /\ ((\E q \in Poll : q # p /\ Busy(q)) => overlapped')
        /\ UNCHANGED <<login, code, wasted>>
    BY <1>9 DEF TokenReceived, Answered, OnItsWay
  <2>2. /\ poll' \in [Poll -> {"none", "asked", "pending", "signed", "ok", "error", "bad", "lost", "done"}]
        /\ poll'[p] = "done" /\ \A q \in Poll : q # p => poll'[q] = poll[q]
    BY <2>1, PollTo DEF LoginInv
  <2>0. LoginType /\ CodeRight /\ OnePoll /\ TokenRight /\ TokenDue /\ LoginKept /\ FailsForAReason
    BY DEF LoginInv
  <2>3. LoginType'
    BY <2>0, <2>1, <2>2 DEF LoginType
  <2>4. CodeRight'
    BY <2>0, <2>1, <2>2 DEF LoginInv, LoginType
  <2>5. OnePoll'
    BY <2>0, <2>1, <2>2 DEF LoginInv, LoginType
  <2>6. TokenRight'
    BY <2>0, <2>1, <2>2 DEF LoginInv, LoginType
  <2>7. TokenDue'
    BY <2>0, <2>1, <2>2 DEF LoginInv, LoginType
  <2>8. LoginKept' /\ FailsForAReason'
    BY <2>0, <2>1, <2>2 DEF LoginInv, LoginType
  <2> QED
    BY <2>3, <2>4, <2>5, <2>6, <2>7, <2>8 DEF LoginInv
<1>10. CASE UNCHANGED loginVars
  BY <1>10 DEF loginVars, LoginInv, LoginType
<1> QED
  BY <1>1, <1>2, <1>3, <1>4, <1>5, <1>6, <1>7, <1>8, <1>9, <1>10 DEF LoginNext, LoginStep

LEMMA LoginInvInit == LoginInit => LoginInv
BY DEF LoginInit, LoginInv, LoginType, CodeRight, OnePoll, TokenRight, TokenDue, LoginKept, FailsForAReason,
       Wins, Busy

-----------------------------------------------------------------------------
(* The programs: a login, a client, and the hand-over of the token.        *)

IInv == ClientInv /\ LoginInv

LEMMA OfBoth == [Next]_<<loginVars, clientVars>> => ClientNext /\ LoginNext
<1> SUFFICES ASSUME [Next]_<<loginVars, clientVars>> PROVE ClientNext /\ LoginNext
  OBVIOUS
<1>1. CASE LoginSteps
  BY <1>1 DEF LoginSteps, ClientNext, LoginNext
<1>2. CASE ClientSteps
  BY <1>2 DEF ClientSteps, ClientNext, LoginNext
<1>3. ASSUME NEW p \in Poll, Enter(p) PROVE ClientNext /\ LoginNext
  BY <1>3 DEF Enter, ClientNext, LoginNext, User
<1>4. CASE UNCHANGED <<loginVars, clientVars>>
  BY <1>4 DEF ClientNext, LoginNext
<1> QED
  BY <1>1, <1>2, <1>3, <1>4 DEF Next

LEMMA Inductive == Spec => []IInv
<1>1. Init => IInv
  BY ClientInvInit, LoginInvInit DEF Init, IInv
<1>2. IInv /\ [Next]_<<loginVars, clientVars>> => IInv'
  BY OfBoth, ClientInvStep, LoginInvStep DEF IInv
<1> QED
  BY <1>1, <1>2, PTL DEF Spec

\* Client: however start, stop, reconnection, the timer and the signals of old and new
\* sockets interleave, a running client has a connection, makes one or waits to.
THEOREM RunningClientTries == Spec => []KeepsTrying
<1>1. IInv => KeepsTrying
  BY DEF IInv, ClientInv, LinkRight
<1> QED
  BY <1>1, Inductive, PTL

\* Client::sendText, used by every Forwarder: no frame of a stream goes out on another
\* link than its own, except for one that stop and start left behind.
THEOREM FramesOnTheirLink == Spec => []StreamsKeepToTheirLink
<1>1. IInv => StreamsKeepToTheirLink
  BY DEF IInv, ClientInv, StreamsRight, Placed, StreamsKeepToTheirLink
<1> QED
  BY <1>1, Inductive, PTL

\* Client::mgmtRequest and its callbacks: a response finds the request it answers,
\* for any number of requests, links and lost responses.
THEOREM ResponsesFindTheirRequests == Spec => []OwnResponse
<1>1. IInv => OwnResponse
  BY DEF IInv, ClientInv, MgmtRight
<1> QED
  BY <1>1, Inductive, PTL

\* Forwarder: what the server is told of an HTTP stream is a head, chunks and one end,
\* or one abort, for answers of any length.
THEOREM AnswersAreWellFormed == Spec => []AnswerShape
<1>1. IInv => AnswerShape
  <2> SUFFICES ASSUME IInv, NEW o \in Stream, strm[o].proto = "http", strm[o].frames # <<>>
               PROVE  Answer(strm[o].frames)
    BY DEF AnswerShape, Answer
  <2> QED
    BY DEF IInv, ClientInv, StreamsRight, ReplyRight
<1> QED
  BY <1>1, Inductive, PTL

\* The pollers of main.cpp and SettingsPage.cpp: a client that has its token gives it up
\* only to a poll that was on its way when the token came, for any number of polls.
THEOREM TokenIsKept == Spec => []LoginKept
<1>1. IInv => LoginKept
  BY DEF IInv, LoginInv
<1> QED
  BY <1>1, Inductive, PTL

\* loginMain through the control channel: it fails only without a code, with one that is
\* refused, or when the token was lost after it had been granted.
THEOREM LoginFailsForAReason == Spec => []FailsForAReason
<1>1. IInv => FailsForAReason
  BY DEF IInv, LoginInv
<1> QED
  BY <1>1, Inductive, PTL

=============================================================================
