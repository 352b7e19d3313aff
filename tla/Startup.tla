------------------------------ MODULE Startup -------------------------------
(***************************************************************************)
(* What tunnel-lite (main.cpp) and the Qt command line (cli/main.cpp,       *)
(* Config.cpp) make of what the user gives them: the tunnels on the command *)
(* line or in the configuration file both share, the addresses derived from *)
(* the server's URL, and (LinkGroups) the connections they are spread over. *)
(* Texts, URLs among them, are sequences of characters as in LiteJson.      *)
(***************************************************************************)
EXTENDS LiteJson, LinkGroups

Slash == 47
Colon == 58
Question == 63

\* The client ids of users who give none: "lite" and "client".
LiteId == <<108, 105, 116, 101>>
QtId   == <<99, 108, 105, 101, 110, 116>>

-----------------------------------------------------------------------------
(* Tunnels on the command line.  A specification is a sequence of parts     *)
(* [key, value]; the alternatives of a key mean the same.                   *)

NoTunnel == [tunnel_id |-> <<>>, proto |-> "", subdomain |-> <<>>, path_prefix |-> <<>>,
             local_addr |-> <<>>, conn |-> <<>>]

Alias(key) ==
  CASE key \in {"id", "tunnel_id"} -> "tunnel_id"
    [] key = "proto" -> "proto"
    [] key \in {"sub", "subdomain"} -> "subdomain"
    [] key \in {"path", "prefix", "path_prefix"} -> "path_prefix"
    [] key \in {"local", "local_addr"} -> "local_addr"
    [] OTHER -> "unknown"

ParseSpec(parts, default, more) ==
  FoldLeft(LAMBDA t, p :
             LET k == IF p.key \in more THEN p.key ELSE Alias(p.key)
             IN IF k \in DOMAIN t THEN [t EXCEPT ![k] = p.value] ELSE t,
           default, parts)

\* tunnel-lite: the protocol stays empty, conn is a key.
LiteTunnelSpec(parts) == ParseSpec(parts, NoTunnel, {"conn"})

\* Qt: the protocol is http unless given, conn is ignored.
QtTunnelSpec(parts) == ParseSpec(parts, [NoTunnel EXCEPT !.proto = "http"], {})

SpecOk(t) == t.tunnel_id # <<>> /\ t.local_addr # <<>>

-----------------------------------------------------------------------------
(* The configuration file, saved by the Qt programs and read by all. *)

\* ClientConfig::save: the path and the name are left out when empty.
SaveConfig(c) ==
  LET Nothing == [k \in {} |-> Null]
      tunnel(t) ==
        Obj((Word("tunnel_id") :> Str(t.tunnel_id)) @@ (Word("proto") :> Str(Word(t.proto)))
            @@ (Word("local_addr") :> Str(t.local_addr))
            @@ (IF t.subdomain = <<>> THEN Nothing ELSE Word("subdomain") :> Str(t.subdomain))
            @@ (IF t.path_prefix = <<>> THEN Nothing ELSE Word("path_prefix") :> Str(t.path_prefix)))
  IN WriteJson(Obj((Word("server_url") :> Str(c.server)) @@ (Word("api_token") :> Str(c.token))
                   @@ (Word("client_id") :> Str(c.client_id))
                   @@ (Word("auto_reconnect") :> Bool(TRUE))
                   @@ (Word("tunnels") :> Arr([k \in DOMAIN c.tunnels |-> tunnel(c.tunnels[k])]))),
               StdEscape, <<10, 32>>)

ConfigTunnel(j) ==
  [tunnel_id |-> StrOf(j, "tunnel_id", <<>>), proto |-> WordOf(StrOf(j, "proto", Word("http"))[1]),
   subdomain |-> StrOf(j, "subdomain", <<>>), path_prefix |-> StrOf(j, "path_prefix", <<>>),
   local_addr |-> StrOf(j, "local_addr", <<>>), conn |-> <<>>]

ConfigTunnels(j) ==
  LET a == Member(j, "tunnels").v IN [k \in DOMAIN a |-> ConfigTunnel(a[k])]

\* ClientConfig::load
QtLoad(text) ==
  LET j == Parse(text).v IN
  [server |-> StrOf(j, "server_url", <<>>), token |-> StrOf(j, "api_token", <<>>),
   client_id |-> StrOf(j, "client_id", QtId), tunnels |-> ConfigTunnels(j)]

\* main: the file fills in what the options left open, an id given as "lite" counting
\* for none; a tunnel without a name is dropped.
LiteLoad(text, options) ==
  LET j == Parse(text).v
      or(given, key) == IF given = <<>> THEN StrOf(j, key, <<>>) ELSE given
  IN [server |-> or(options.server, "server_url"), token |-> or(options.token, "api_token"),
      client_id |-> IF options.client_id = LiteId THEN StrOf(j, "client_id", LiteId)
                                                 ELSE options.client_id,
      tunnels |-> IF options.tunnels # <<>> THEN options.tunnels
                  ELSE SelectSeq(ConfigTunnels(j), LAMBDA t : t.tunnel_id # <<>>)]

\* The id a connection registers with: of several, each has the name of its group behind it.
ConnectionId(id, groups, g) ==
  LET key  == groups[g].key
      name == CASE key[1] = "default" -> <<100, 101, 102, 97, 117, 108, 116>>
                [] key[1] = "c"       -> <<99, Colon>> \o key[2]
                [] key[1] = "t"       -> <<116, Colon>> \o key[2]
  IN IF Len(groups) > 1 THEN id \o <<64>> \o name ELSE id

-----------------------------------------------------------------------------
(* Addresses *)

StartsWith(u, scheme) == IsPrefix(Word(scheme) \o <<Colon, Slash, Slash>>, u)

\* Everything after "scheme://", taken apart at the first slash and the last colon.
Split(u, tls, defaultPort) ==
  LET rest    == SubSeq(u, 5, Len(u))
      slashes == {k \in DOMAIN rest : rest[k] = Slash}
      hp      == IF slashes = {} THEN rest ELSE SubSeq(rest, 1, Min(slashes) - 1)
      colons  == {k \in DOMAIN hp : hp[k] = Colon}
      digits  == IF colons = {} THEN 0 ELSE hp[Len(hp)]
  IN [ok   |-> TRUE, tls |-> tls,
      host |-> IF colons = {} THEN hp ELSE SubSeq(hp, 1, Max(colons) - 1),
      port |-> IF colons = {} THEN defaultPort ELSE IF IsNumber(digits) THEN digits - 100000 ELSE 0,
      path |-> IF slashes = {} THEN <<Slash>> ELSE SubSeq(rest, Min(slashes), Len(rest))]

Nowhere == [ok |-> FALSE, tls |-> FALSE, host |-> <<>>, port |-> 0, path |-> <<>>]

ParseWsUrl(u) ==
  LET at == CASE StartsWith(u, "wss") -> Split(u, TRUE, 443)
              [] StartsWith(u, "ws")  -> Split(u, FALSE, 80)
              [] OTHER                -> Nowhere
  IN IF at.host = <<>> THEN Nowhere ELSE at

\* The binary format is asked for in the query (38 is "&").
LinkUrl(u, mode) ==
  IF mode # "binary" THEN u
  ELSE u \o (IF Question \in ToSet(u) THEN <<38>> ELSE <<Question>>) \o Word("v=3")

WithoutQuery(path) ==
  LET marks == {k \in DOMAIN path : path[k] = Question}
  IN IF marks = {} THEN path ELSE SubSeq(path, 1, Min(marks) - 1)

\* The address part of httpRequest.
HttpTarget(u) ==
  CASE StartsWith(u, "https") -> Split(u, TRUE, 443)
    [] StartsWith(u, "http")  -> Split(u, FALSE, 80)
    [] OTHER                  -> Nowhere

RECURSIVE DropSlashes(_)
DropSlashes(u) == IF u # <<>> /\ Last(u) = Slash THEN DropSlashes(Front(u)) ELSE u

\* Mutant: only the slash before the endpoint is cut off.
LiteHttpBaseKeepsPath(u) ==
  DropSlashes(CASE StartsWith(u, "wss") -> Word("https") \o Tail(u)
                [] StartsWith(u, "ws")  -> Word("http") \o Tail(u)
                [] OTHER                -> u)

\* httpBaseFromWs of tunnel-lite: cut at the first "/tunnel", wherever it is.
LiteHttpBase(u) ==
  LET s   == CASE StartsWith(u, "wss") -> Word("https") \o Tail(u)
               [] StartsWith(u, "ws")  -> Word("http") \o Tail(u)
               [] OTHER                -> u
      cut == {k \in 1..(Len(s) - 1) : SubSeq(s, k, k + 1) = <<Slash>> \o Word("tunnel")}
  IN DropSlashes(IF cut = {} THEN s ELSE SubSeq(s, 1, Min(cut) - 1))

\* ClientConfig::httpBaseFromWs: QUrl's parts, the query not among them, without the
\* endpoint and a standard port.
QtHttpBase(u) ==
  LET at     == ParseWsUrl(u)
      scheme == IF at.tls THEN "https" ELSE "http"
      end    == <<Slash>> \o Word("tunnel")
      full   == WithoutQuery(at.path)
      path   == IF IsSuffix(end, full) THEN SubSeq(full, 1, Len(full) - 2) ELSE full
  IN Word(scheme) \o <<Colon, Slash, Slash>> \o at.host
     \o (IF at.port \in {0, IF at.tls THEN 443 ELSE 80} THEN <<>> ELSE <<Colon>> \o Number(at.port))
     \o DropSlashes(path)

-----------------------------------------------------------------------------
(* The answer to a login request: a status, headers, a blank line, a body. *)

CRLF == <<13, 10>>
BlankLine == CRLF \o CRLF

\* Heads are read byte by byte up to their first blank line; h is its position.
HeadEnd(d) ==
  CHOOSE h \in 1..(Len(d) - 3) :
    /\ SubSeq(d, h, h + 3) = BlankLine
    /\ \A j \in 1..(h - 1) : SubSeq(d, j, j + 3) # BlankLine

\* The body has the announced length, or ends with the connection.
HttpBody(answer) ==
  LET end  == HeadEnd(answer)
      rest == SubSeq(answer, end + 4, Len(answer))
      name == Word("content-length") \o <<Colon, 32>>
      at   == {k \in 1..end : SubSeq(answer, k, k + 2) = name}
  IN IF at = {} THEN rest ELSE SubSeq(rest, 1, answer[Min(at) + 3] - 100000)
=============================================================================
