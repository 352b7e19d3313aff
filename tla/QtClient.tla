------------------------------ MODULE QtClient ------------------------------
(***************************************************************************)
(* The Qt client core: Client (Client.cpp), its one web socket and its     *)
(* reconnect timer, the Forwarder of each stream (Forwarder.cpp), and the  *)
(* management requests on the control channel.                             *)
(*                                                                         *)
(* Everything runs on one thread; a step is one signal or one call, with   *)
(* all the slots it runs.  What Qt promises of QWebSocket, QTcpSocket and  *)
(* QNetworkReply is part of the steps.  In particular open() on a socket   *)
(* that is still closing drops the old connection, and the disconnected    *)
(* signal of that one never comes.  Delays are left out.                   *)
(***************************************************************************)
EXTENDS Naturals, Sequences, FiniteSets

CONSTANTS
  MaxOpens,   \* bound: calls of QWebSocket::open
  MaxStreams, \* bound: streams the server opens
  MaxChunks,  \* bound: chunks of a local service, read before it finishes
  MaxMgmt     \* bound: management requests

ASSUME QtClientAssumption ==
  MaxOpens \in Nat /\ MaxStreams \in Nat /\ MaxChunks \in Nat /\ MaxMgmt \in Nat

Stream  == 1 .. MaxStreams
Request == 1 .. MaxMgmt
None == 0

VARIABLES
  running,     \* running_
  auto,        \* cfg_.autoReconnect
  timer,       \* whether reconnect_ is armed
  ws,          \* state of the web socket: none, connecting, connected, closing
  connected_,  \* what isConnected() says
  link,        \* the connection ws stands for: calls of open so far
  opened,      \* streams opened so far
  strm,        \* stream |-> its Forwarder and what was sent for it
  asked,       \* management requests so far
  nextMgmtId,  \* number of the last one that was sent
  mgmtPending, \* number |-> the request whose callback waits
  owed,        \* responses the server has not given on this connection
  result,      \* request |-> what its callback was called with
  parked       \* history: the link was lost while reconnection was off

linkVars == <<running, auto, timer, ws, connected_, link, parked>>
strmVars == <<opened, strm>>
mgmtVars == <<asked, nextMgmtId, mgmtPending, owed, result>>
clientVars == <<linkVars, strmVars, mgmtVars>>

Unborn == [proto |-> "none", link |-> None, at |-> "none", told |-> FALSE, frames |-> <<>>,
           astray |-> FALSE, abandoned |-> FALSE]

ClientInit ==
  /\ running = FALSE /\ auto \in BOOLEAN /\ timer = FALSE
  /\ ws = "none" /\ connected_ = FALSE /\ link = 0 /\ parked = FALSE
  /\ opened = 0 /\ strm = [o \in Stream |-> Unborn]
  /\ asked = 0 /\ nextMgmtId = 0
  /\ mgmtPending = [i \in Request |-> None] /\ owed = {}
  /\ result = [k \in Request |-> "none"]

-----------------------------------------------------------------------------
(* Management requests.                                                    *)

\* Mutant: every request has the number 1.
RequestNumberOne(open) ==
  /\ asked < MaxMgmt
  /\ asked' = asked + 1
  /\ IF open THEN /\ nextMgmtId' = 1
                  /\ mgmtPending' = [mgmtPending EXCEPT ![1] = asked']
                  /\ owed' = owed \cup {[id |-> 1, of |-> asked']}
                  /\ UNCHANGED result
             ELSE /\ result' = [result EXCEPT ![asked'] = "refused"]
                  /\ UNCHANGED <<nextMgmtId, mgmtPending, owed>>

\* mgmtRequest: refused at once unless the control channel is open.
MgmtRequest(open) ==
  /\ asked < MaxMgmt
  /\ asked' = asked + 1
  /\ IF open THEN /\ nextMgmtId' = nextMgmtId + 1
                  /\ mgmtPending' = [mgmtPending EXCEPT ![nextMgmtId'] = asked']
                  /\ owed' = owed \cup {[id |-> nextMgmtId', of |-> asked']}
                  /\ UNCHANGED result
             ELSE /\ result' = [result EXCEPT ![asked'] = "refused"]
                  /\ UNCHANGED <<nextMgmtId, mgmtPending, owed>>

Ask == MgmtRequest(connected_ /\ ws = "connected") /\ UNCHANGED <<linkVars, strmVars>>

\* MgmtResp: the callback is taken out and called.
MgmtResp == \E r \in owed :
  /\ ws = "connected"
  /\ owed' = owed \ {r}
  /\ mgmtPending' = [mgmtPending EXCEPT ![r.id] = None]
  /\ result' = IF mgmtPending[r.id] = None THEN result
                 ELSE [result EXCEPT ![mgmtPending[r.id]] = IF r.of = mgmtPending[r.id] THEN "own" ELSE "other"]
  /\ UNCHANGED <<linkVars, strmVars, asked, nextMgmtId>>

-----------------------------------------------------------------------------
(* The control channel.                                                    *)

\* The entries of streams_, each with a live Forwarder.
Live == {o \in Stream : strm[o].at \notin {"none", "gone"}}

\* openConnection.  What was owed on a connection that was closing is lost.
Open ==
  /\ link < MaxOpens
  /\ link' = link + 1 /\ ws' = "connecting"
  /\ owed' = {}
  /\ strm' = [o \in Stream |->
       IF o \in Live /\ ws = "closing" THEN [strm[o] EXCEPT !.abandoned = TRUE] ELSE strm[o]]
  /\ UNCHANGED <<auto, connected_, opened, asked, nextMgmtId, mgmtPending, result, parked>>

\* start; a client that is running ignores it.
Start == ~running /\ running' = TRUE /\ Open /\ UNCHANGED timer

TimerFires == timer /\ timer' = FALSE /\ Open /\ UNCHANGED running

\* Mutant: the timer is left armed.
StopKeepsTimer ==
  /\ running' = FALSE
  /\ ws' = IF ws \in {"connecting", "connected"} THEN "closing" ELSE ws
  /\ UNCHANGED <<timer, auto, connected_, link, parked, strmVars, mgmtVars>>

\* stop: the socket is closed, the disconnected signal comes later.
Stop ==
  /\ running' = FALSE /\ timer' = FALSE
  /\ ws' = IF ws \in {"connecting", "connected"} THEN "closing" ELSE ws
  /\ UNCHANGED <<auto, connected_, link, parked, strmVars, mgmtVars>>

\* The connected slot: AppState, or the command line in its management mode, may
\* ask something before the Register is sent.
Connected ==
  /\ ws = "connecting" /\ ws' = "connected" /\ connected_' = TRUE
  /\ MgmtRequest(TRUE) \/ UNCHANGED mgmtVars
  /\ UNCHANGED <<running, auto, timer, link, parked, strmVars>>

\* Mutant: the streams of the lost link are kept.
DisconnectedKeepsStreams ==
  /\ ws # "none" /\ ws' = "none" /\ connected_' = FALSE
  /\ timer' = (running /\ auto)
  /\ parked' = (running /\ ~auto)
  /\ owed' = {}
  /\ UNCHANGED <<running, auto, link, strmVars, asked, nextMgmtId, mgmtPending, result>>

\* The disconnected slot, for a link that is lost, refused or closed: all streams
\* are cleaned up, callbacks of requests are kept.
Disconnected ==
  /\ ws # "none" /\ ws' = "none" /\ connected_' = FALSE
  /\ strm' = [o \in Stream |-> IF o \in Live THEN [strm[o] EXCEPT !.at = "gone"] ELSE strm[o]]
  /\ timer' = (running /\ auto)
  /\ parked' = (running /\ ~auto)
  /\ owed' = {}
  /\ UNCHANGED <<running, auto, link, opened, asked, nextMgmtId, mgmtPending, result>>

\* setConfig, of which only the change of autoReconnect matters here.
SetConfig ==
  /\ auto' \in BOOLEAN
  /\ UNCHANGED <<running, timer, ws, connected_, link, parked, strmVars, mgmtVars>>

-----------------------------------------------------------------------------
(* Streams: the slots of onOpenStream, and Forwarder.                      *)

\* sendText: nothing is sent unless the socket is connected.
Sent(s, kinds) ==
  IF ws # "connected" THEN s
  ELSE IF s.link # link THEN [s EXCEPT !.astray = TRUE] ELSE [s EXCEPT !.frames = @ \o kinds]

Becomes(o, s) == strm' = [strm EXCEPT ![o] = s] /\ UNCHANGED <<linkVars, mgmtVars, opened>>

At(o, labels) == strm[o].at \in labels
To(o, label)  == [strm[o] EXCEPT !.at = label]

\* onOpenStream.  Unknown tunnels, and TCP tunnels with an address that has no
\* port, are refused in the same step.
OnOpenStream(proto) ==
  /\ ws = "connected" /\ opened < MaxStreams
  /\ opened' = opened + 1
  /\ LET s == [Unborn EXCEPT !.proto = proto, !.link = link, !.at = "gone"]
     IN  strm' = [strm EXCEPT ![opened'] =
           CASE proto = "none" -> Sent(s, <<"abort">>)
             [] proto = "http" -> [s EXCEPT !.at = "sent"]
             [] proto = "tcp"  -> [s EXCEPT !.at = "connecting"]]
  /\ UNCHANGED <<linkVars, mgmtVars>>

\* metaDataChanged and readyRead of the reply.
MetaData(o)  == At(o, {"sent"}) /\ Becomes(o, Sent(To(o, "head"), <<"head">>))
ReadyRead(o) ==
  /\ At(o, {"head"}) /\ Len(strm[o].frames) < 1 + MaxChunks
  /\ Becomes(o, Sent(strm[o], <<"chunk">>))

\* Mutant: the failed slot does not clean up, so finishOnce still reports an end.
ReplyFailsTwice(o) == At(o, {"sent"}) /\ Becomes(o, Sent(To(o, "gone"), <<"abort", "end">>))

\* finished, without a status and with an error: failed.  The clean-up keeps the
\* finished signal of finishOnce from being seen.
ReplyFails(o) == At(o, {"sent"}) /\ Becomes(o, Sent(To(o, "gone"), <<"abort">>))

\* finished otherwise, an error after the head included: the head if it is still
\* missing, the rest of the body, and the end.
ReplyFinishes(o) ==
  /\ At(o, {"sent", "head"})
  /\ \E tail \in {<<>>, <<"chunk">>} :
       Becomes(o, Sent(To(o, "gone"), (IF At(o, {"sent"}) THEN <<"head">> ELSE <<>>) \o tail \o <<"end">>))

\* The QTcpSocket: a close before it is connected is done once it is.
TcpConnected(o) ==
  At(o, {"connecting", "doomed"}) /\ Becomes(o, To(o, IF At(o, {"doomed"}) THEN "closing" ELSE "open"))
TcpReadyRead(o) ==
  /\ At(o, {"open", "closing"}) /\ Len(strm[o].frames) < MaxChunks
  /\ Becomes(o, Sent(strm[o], <<"chunk">>))
TcpEnds(o)  == At(o, {"open", "closing"}) /\ Becomes(o, Sent(To(o, "gone"), <<"end">>))
TcpFails(o) ==
  At(o, {"connecting", "doomed", "open", "closing"}) /\ Becomes(o, Sent(To(o, "gone"), <<"abort">>))

\* CloseStream: closeFromRemote.  A reply is aborted, which finishes it.
OnCloseStream(o) ==
  /\ ws = "connected" /\ strm[o].link = link /\ ~strm[o].told
  /\ LET s == [strm[o] EXCEPT !.told = TRUE]
     IN  CASE At(o, {"connecting"}) -> Becomes(o, [s EXCEPT !.at = "doomed"])
           [] At(o, {"open"})       -> Becomes(o, [s EXCEPT !.at = "closing"])
           [] At(o, {"sent"})       -> Becomes(o, Sent([s EXCEPT !.at = "gone"], <<"abort">>))
           [] At(o, {"head"})       -> Becomes(o, Sent([s EXCEPT !.at = "gone"], <<"end">>))
           [] OTHER                 -> Becomes(o, s)

Local(o) ==
  \/ MetaData(o) \/ ReadyRead(o) \/ ReplyFails(o) \/ ReplyFinishes(o)
  \/ TcpConnected(o) \/ TcpReadyRead(o) \/ TcpEnds(o) \/ TcpFails(o)

Signal ==
  \/ TimerFires \/ Connected \/ Disconnected \/ MgmtResp
  \/ \E proto \in {"none", "http", "tcp"} : OnOpenStream(proto)
  \/ \E o \in 1 .. opened : Local(o) \/ OnCloseStream(o)

\* What the user does at the window.
User == Start \/ Stop \/ SetConfig \/ Ask

-----------------------------------------------------------------------------
(* Properties.                                                             *)

\* A running client is connected, connecting or about to, however start, stop and
\* the signals of old and new connections interleave, unless reconnection was off
\* when it lost the link; and the timer never fires into a live connection.
KeepsTrying ==
  /\ running => ws \in {"connecting", "connected"} \/ timer \/ parked
  /\ timer => running /\ ws = "none"

\* Frames of a stream go out only on the link that opened it.  The exception is a
\* client that was stopped and started again before the old link was closed.
StreamsKeepToTheirLink == \A o \in Stream : strm[o].astray => strm[o].abandoned

\* A request is answered by its own response or refused, and is not forgotten
\* while the link it was sent on holds; numbers are never reused across links.
OwnResponse ==
  /\ \A k \in Request : result[k] \in {"none", "own", "refused"}
  /\ \A r \in owed : mgmtPending[r.id] = r.of

\* What the server is told of an HTTP stream on its link is one head, then chunks,
\* then one End, or one Abort and nothing else, whatever the reply, the server's
\* CloseStream and the link do meanwhile.
AnswerShape == \A o \in Stream :
  LET f == strm[o].frames IN
  strm[o].proto = "http" /\ f # <<>> =>
    \/ f = <<"abort">>
    \/ /\ f[1] = "head"
       /\ \A i \in 2 .. Len(f) : f[i] = "chunk" \/ (f[i] = "end" /\ i = Len(f))

=============================================================================
