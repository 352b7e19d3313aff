-------------------------------- MODULE Link --------------------------------
(***************************************************************************)
(* One start of a client program, from what the user gave it to messages    *)
(* that pass over its control channel: settings, login, the choice of a     *)
(* connection, the WebSocket handshake, and then messages in both           *)
(* directions, as bytes, with fragments and WebSocket pings among them.     *)
(* Composes Startup, Messages and WsFrames.  The server's end is what a     *)
(* server may do under the WebSocket protocol.                              *)
(***************************************************************************)
EXTENDS Messages, WsFrames, Startup

CONSTANTS Wishes,        \* what users ask for: [program, mode, isolate, file, options]
          UpMessages,    \* what a client may send once it is registered
          DownMessages,  \* what the server may send
          Cuts,          \* lengths of the fragments that are not the last
          MaxCuts,       \* at most so many of them
          MaxMessages,   \* messages after the registration, both ways together
          MaxPings

VARIABLES client,   \* which program it is, and the format it uses: [program, mode]
          wish,     \* what this user asked for, until the connection stands
          stage,    \* "launch", "login", "connect", "calling", "handshake", "up", "stopped"
          cfg,      \* the settings the program arrived at
          called,   \* where the login request and the WebSocket went, [login, link]; until it stands too
          binary,   \* the server's format, from the query it was called with
          group,    \* the tunnels of the connection looked at
          pipe,     \* bytes on the way, [up, down]
          flight,   \* messages sent and not yet received, [up, down]
          pings,    \* payloads of the pings not yet answered
          got,      \* what was received last, and what it should be: [kind, is, meant]
          count,    \* messages sent after the registration, both ways together
          pinged,   \* pings sent
          rest,     \* bytes of the server's message not yet written
          parts,    \* fragments of it written so far
          recv      \* the locals of recvMessage

startVars == <<client, wish, cfg, group, called, binary>>
traffic == <<pipe, flight, pings, count, pinged, rest, parts, recv>>
vars == <<client, wish, stage, cfg, called, binary, group, pipe, flight, pings, got,
          count, pinged, rest, parts, recv>>

Lite == client.program = "lite"

NoSettings == [server |-> <<>>, token |-> <<>>, client_id |-> <<>>, tunnels |-> <<>>]
NoWish == [program |-> "none"]
Empty == [up |-> <<>>, down |-> <<>>]
Nothing == [kind |-> "none"]

Init ==
  /\ wish \in Wishes
  /\ client = [program |-> wish.program, mode |-> wish.mode]
  /\ stage = "launch"
  /\ cfg = NoSettings
  /\ called = [login |-> Nowhere, link |-> Nowhere]
  /\ binary = FALSE
  /\ group = <<>>
  /\ pipe = Empty /\ flight = Empty /\ pings = <<>> /\ got = Nothing
  /\ count = 0 /\ pinged = 0
  /\ rest = <<>> /\ parts = 0 /\ recv = NoMessage

-----------------------------------------------------------------------------
(* From the command line to a connection *)

\* The tunnels among the options.
Specs(w) ==
  [k \in DOMAIN w.options.specs |->
     IF Lite THEN LiteTunnelSpec(w.options.specs[k]) ELSE QtTunnelSpec(w.options.specs[k])]

Over(given, otherwise) == IF given = <<>> THEN otherwise ELSE given

LiteSettings(w) ==
  LET options == [server |-> w.options.server, token |-> w.options.token,
                  client_id |-> Over(w.options.client_id, LiteId), tunnels |-> Specs(w)]
  IN IF w.file.tunnels = <<>> THEN options ELSE LiteLoad(SaveConfig(w.file), options)

QtSettings(w) ==
  LET file == IF w.file.tunnels = <<>> THEN [NoSettings EXCEPT !.client_id = QtId]
                                       ELSE QtLoad(SaveConfig(w.file))
  IN [server |-> Over(w.options.server, file.server), token |-> Over(w.options.token, file.token),
      client_id |-> Over(w.options.client_id, file.client_id),
      tunnels |-> Over(Specs(w), file.tunnels)]

\* An option that does not parse ends the program; tunnels of the file are not looked at.
Launch ==
  /\ stage = "launch"
  /\ cfg' = IF Lite THEN LiteSettings(wish) ELSE QtSettings(wish)
  /\ stage' = IF cfg'.server = <<>> \/ \E k \in DOMAIN Specs(wish) : ~SpecOk(Specs(wish)[k])
              THEN "stopped"
              ELSE IF cfg'.token = <<>> THEN "login" ELSE "connect"
  /\ UNCHANGED <<client, wish, called, binary, group, got, traffic>>

\* The text of the server's answer, with or without its length.
LoginAnswer(token, sized) ==
  LET body == WriteJson(Obj(Word("token") :> Str(token)), StdEscape, <<>>)
  IN Number(200) \o (IF sized THEN CRLF \o Word("content-length") \o <<Colon, 32>> \o Number(Len(body))
                     ELSE <<>>) \o BlankLine \o body

LoginTarget(server) ==
  LET base == IF Lite THEN LiteHttpBase(server) ELSE QtHttpBase(server)
  IN HttpTarget(base \o <<Slash>> \o Word("auth") \o <<Slash>> \o Word("dev-token"))

\* POST /auth/dev-token at the address derived from the server's URL.
DevLogin(sized) ==
  /\ stage = "login"
  /\ LET at     == LoginTarget(cfg.server)
         answer == Parse(HttpBody(LoginAnswer(<<84, 34, 92>>, sized))).v
     IN /\ called' = [called EXCEPT !.login = at]
        /\ cfg' = [cfg EXCEPT !.token = StrOf(answer, "token", <<>>)]
        /\ stage' = IF at.ok /\ cfg'.token # <<>> THEN "connect" ELSE "stopped"
  /\ UNCHANGED <<client, wish, binary, group, got, traffic>>

\* What the server's handshake looks like: a status line, a header, a blank line.
HandshakeAnswer == <<101>> \o CRLF \o <<85>> \o BlankLine

\* Each connection connects for itself; g is the one looked at.
Connect(g) ==
  /\ stage = "connect"
  /\ LET groups == IF Lite THEN Groups(cfg.tunnels, wish.isolate) ELSE <<[tunnels |-> cfg.tunnels]>> IN
     /\ g \in DOMAIN groups
     /\ group' = groups[g].tunnels
     /\ cfg' = IF Lite THEN [cfg EXCEPT !.client_id = ConnectionId(@, groups, g)] ELSE cfg
  /\ called' = [called EXCEPT !.link =
                  ParseWsUrl(IF Lite THEN LinkUrl(cfg.server, client.mode) ELSE cfg.server)]
  /\ binary' = (Word("v=3")[1] \in ToSet(called'.link.path))
  /\ stage' = IF called'.link.ok THEN "calling" ELSE "stopped"
  /\ UNCHANGED <<client, wish, got, traffic>>

\* The server accepts; how the program got here has served its purpose and is forgotten.
Accept ==
  /\ stage = "calling"
  /\ stage' = "handshake"
  /\ pipe' = [pipe EXCEPT !.down = HandshakeAnswer]
  /\ wish' = NoWish /\ called' = [login |-> Nowhere, link |-> Nowhere]
  /\ cfg' = [NoSettings EXCEPT !.client_id = cfg.client_id]
  /\ UNCHANGED <<client, binary, group, flight, pings, got, count, pinged, rest, parts, recv>>

-----------------------------------------------------------------------------
(* Messages *)

EncodeUp(m) ==
  CASE ~Lite                   -> EncodeJson(QtWrites, m, StdEscape)
    [] client.mode = "binary"    -> EncodeBinary(LiteWrites, m)
    [] OTHER                   -> EncodeJson(LiteWrites, m, Escape)

DecodeUp(d) == IF binary THEN DecodeBinary(ServerReads, d) ELSE DecodeJson(ServerReads, d, TRUE)

EncodeDown(m) ==
  IF binary THEN EncodeBinary(ServerWrites, m) ELSE EncodeJson(ServerWrites, m, StdEscape)

DecodeDown(d) ==
  CASE ~Lite                -> DecodeJson(QtReads, d, TRUE)
    [] client.mode = "binary" -> DecodeBinary(LiteReads, d)
    [] OTHER                -> DecodeJson(LiteReads, d, FALSE)

\* The kind of a data frame.
ClientOp == IF client.mode = "binary" THEN Binary ELSE Text
ServerOp == IF binary THEN Binary ELSE Text

\* The tunnels as they are registered: those of the connection, http unless said otherwise.
Registration ==
  [type |-> "register",
   v |-> [client_id |-> cfg.client_id,
          tunnels |-> [k \in DOMAIN group |->
            [f \in {"tunnel_id", "subdomain", "path_prefix", "local_addr"} |-> group[k][f]]
            @@ ("proto" :> IF group[k].proto = "" THEN "http" ELSE group[k].proto)]]]

\* The head of the answer is read byte by byte up to its blank line: what follows stays.
Handshake ==
  /\ stage = "handshake"
  /\ pipe' = [up   |-> pipe.up \o SendFrame(ClientOp, EncodeUp(Registration)),
              down |-> SubSeq(pipe.down, HeadEnd(pipe.down) + 4, Len(pipe.down))]
  /\ flight' = [flight EXCEPT !.up = Append(@, Registration)]
  /\ stage' = "up"
  /\ group' = <<>> /\ cfg' = NoSettings
  /\ UNCHANGED <<client, wish, called, binary, pings, got, count, pinged, rest, parts, recv>>

\* The texts of a message a client sends.  Those of the Qt client are QStrings, and
\* fromUtf8 has replaced what was no UTF-8; tunnel-lite passes on the bytes it has,
\* those of a local service's headers among them.
Texts(m) ==
  CASE m.type = "response_head" -> DOMAIN m.v.headers \cup Range(m.v.headers)
    [] m.type = "abort"         -> {m.v.reason}
    [] m.type = "mgmt"          -> {m.v.method, m.v.path}
    [] OTHER                    -> {}
Readable(m) == \A t \in Texts(m) : ValidUtf8(t)

ClientSends(m) ==
  /\ stage = "up" /\ count < MaxMessages
  /\ Lite \/ Readable(m)
  /\ count' = count + 1
  /\ flight' = [flight EXCEPT !.up = Append(@, m)]
  /\ pipe' = [pipe EXCEPT !.up = @ \o SendFrame(ClientOp, EncodeUp(m))]
  /\ got' = Nothing
  /\ UNCHANGED <<startVars, stage, pings, pinged, rest, parts, recv>>

\* What a receiver makes of a frame or message; it drops what does not decode.
Message(r, meant) == [kind |-> "message", is |-> IF r.ok THEN r.m ELSE [type |-> "dropped"],
                      meant |-> meant]

\* The server's WebSocket is its library's: it hands over whole messages.  One of
\* the other format is dropped too.
ServerReceives ==
  LET f == FrameAt(pipe.up) IN
  /\ f.whole
  /\ f.opcode = Text => ValidUtf8(f.payload)
  /\ pipe' = [pipe EXCEPT !.up = SubSeq(@, f.next, Len(@))]
  /\ IF f.opcode = PongOp
     THEN /\ got' = [kind |-> "pong", is |-> f.payload, meant |-> Head(pings)]
          /\ pings' = Tail(pings)
          /\ UNCHANGED flight
     ELSE /\ got' = Message(IF f.opcode = ServerOp THEN DecodeUp(f.payload) ELSE [ok |-> FALSE],
                            Head(flight.up))
          /\ flight' = [flight EXCEPT !.up = Tail(@)]
          /\ UNCHANGED pings
  /\ UNCHANGED <<startVars, stage, count, pinged, rest, parts, recv>>

\* A text frame that is not UTF-8 is an error of the WebSocket: the loop of
\* handle_socket ends, and the connection with it.
ServerBreaksOff ==
  LET f == FrameAt(pipe.up) IN
  /\ f.whole
  /\ f.opcode = Text /\ ~ValidUtf8(f.payload)
  /\ got' = Message([ok |-> FALSE], Head(flight.up))
  /\ stage' = "stopped"
  /\ pipe' = Empty /\ flight' = Empty /\ pings' = <<>>
  /\ rest' = <<>> /\ parts' = 0 /\ recv' = NoMessage
  /\ UNCHANGED <<startVars, count, pinged>>

Registered == stage = "up" /\ \A k \in DOMAIN flight.up : flight.up[k].type # "register"

\* The next message: a ping perhaps right behind the handshake's answer, the
\* others once the client has registered.
ServerSends(m) ==
  /\ stage \in {"handshake", "up"} /\ rest = <<>> /\ count < MaxMessages
  /\ m.type = "ping" \/ Registered
  /\ count' = count + 1
  /\ flight' = [flight EXCEPT !.down = Append(@, m)]
  /\ rest' = EncodeDown(m) /\ parts' = 0
  /\ got' = Nothing
  /\ UNCHANGED <<startVars, stage, pipe, pings, pinged, recv>>

\* A fragment of n bytes, or all that is left.
WriteFragment(n) ==
  /\ rest # <<>> /\ n <= Len(rest)
  /\ n = Len(rest) \/ parts < MaxCuts
  /\ LET op == IF parts > 0 THEN Continuation ELSE ServerOp
     IN pipe' = [pipe EXCEPT !.down = @ \o ServerFrame(n = Len(rest), op, SubSeq(rest, 1, n))]
  /\ rest' = SubSeq(rest, n + 1, Len(rest))
  /\ parts' = IF rest' = <<>> THEN 0 ELSE parts + 1
  /\ got' = Nothing
  /\ UNCHANGED <<startVars, stage, flight, pings, count, pinged, recv>>

ServerPings ==
  /\ stage \in {"handshake", "up"} /\ pinged < MaxPings
  /\ pinged' = pinged + 1
  /\ LET p == <<pinged, 200>> IN
     /\ pings' = Append(pings, p)
     /\ pipe' = [pipe EXCEPT !.down = @ \o ServerFrame(TRUE, PingOp, p)]
  /\ got' = Nothing
  /\ UNCHANGED <<startVars, stage, flight, count, rest, parts, recv>>

\* One turn of recvMessage's loop; its result goes to decServer.
ClientReceives ==
  /\ stage = "up"
  /\ LET f   == FrameAt(pipe.down)
         now == Gather(recv, f)
         end == f.fin /\ f.opcode \in {Continuation, Text, Binary}
     IN /\ f.whole
        /\ pipe' = [up   |-> pipe.up \o Answer(f),
                    down |-> SubSeq(pipe.down, f.next, Len(pipe.down))]
        /\ recv' = IF end THEN NoMessage ELSE now
        /\ got' = IF end THEN Message(DecodeDown(now.data), Head(flight.down)) ELSE Nothing
        /\ flight' = IF end THEN [flight EXCEPT !.down = Tail(@)] ELSE flight
  /\ UNCHANGED <<startVars, stage, pings, count, pinged, rest, parts>>

-----------------------------------------------------------------------------

Next ==
  \/ Launch
  \/ \E sized \in BOOLEAN : DevLogin(sized)
  \/ \E g \in 1..3 : Connect(g)
  \/ Accept
  \/ Handshake
  \/ \E m \in UpMessages : ClientSends(m)
  \/ ServerReceives
  \/ ServerBreaksOff
  \/ \E m \in DownMessages : ServerSends(m)
  \/ \E n \in Cuts \cup {Len(rest)} : WriteFragment(n)
  \/ ServerPings
  \/ ClientReceives

Spec == Init /\ [][Next]_vars

-----------------------------------------------------------------------------

\* Whatever the format, the escapes and the fragments, each side receives the
\* messages the other sent, whole, in order and field by field the same; and pings
\* are answered in order with what they carried, in the middle of a message too.
\* Only a message with a text that is not UTF-8 - a header of a local service that
\* tunnel-lite passes on as it is - does not arrive: it is refused as a whole, never
\* taken for something else, and nothing is lost with it but, in JSON, the link.
MessagesAgree ==
  got.kind \in {"message", "pong"} =>
    got.is = IF got.kind = "pong" \/ Readable(got.meant) THEN got.meant
                                                        ELSE [type |-> "dropped"]

\* The login request, which carries no token yet, and the link that carries
\* the token it got go to the same server, and the request to the interface
\* that stands next to the endpoint of the link, whatever the port, the prefix and
\* the query of the URL.  Only tunnel-lite has no address to log in at when the host
\* begins with "tunnel": it takes that for the endpoint.
SameServer ==
  LET a == called.login
      b == called.link
      u == ParseWsUrl(cfg.server)
      front(p, n) == SubSeq(p, 1, Len(p) - n)
  IN /\ a # Nowhere /\ b # Nowhere =>
          /\ a.host = b.host /\ a.port = b.port /\ a.tls = b.tls
          /\ front(a.path, 4) = front(WithoutQuery(b.path), 2)
     /\ stage = "login" /\ u.ok /\ ~LoginTarget(cfg.server).ok =>
          Lite /\ IsPrefix(Word("tunnel"), u.host)

\* The connections between them register every tunnel the user asked for once,
\* and two tunnels share one exactly when the user asked for that.
LinksAsAsked ==
  stage = "connect" /\ Lite => GroupsAsAsked(cfg.tunnels, wish.isolate)
=============================================================================
