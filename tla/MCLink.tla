------------------------------- MODULE MCLink -------------------------------
(* Users of both programs, with the tunnels in options or in the file, with  *)
(* and without a token, on URLs with and without a port, a prefix in front   *)
(* of the endpoint and a query, and on a host that begins with "tunnel"; a   *)
(* client id of their own or none; texts that need escapes; numbers, lengths *)
(* and identifiers on both sides of the limits of their encodings.           *)
EXTENDS Link, TLC

T(n) == [k \in 1..n |-> 60 + (k % 30)]
Hard == <<34, 92, 10, 13, 9, 8, 12, 1, 31, 195, 169, 47, 65>>

UrlAt(host, scheme, port, prefix) ==
  Word(scheme) \o <<58, 47, 47>> \o Word(host) \o <<46>> \o Word("example.com")
  \o (IF port = 0 THEN <<>> ELSE <<58>> \o Number(port))
  \o (IF prefix THEN <<47>> \o Word("frp") ELSE <<>>) \o <<47>> \o Word("tunnel")
Url(scheme, port, prefix) == UrlAt("frp", scheme, port, prefix)
Query == <<63, 97, 61, 49>>

Part(k, v) == [key |-> k, value |-> v]
Web  == << Part("id", T(3)), Part("path", Hard), Part("local", T(9)) >>
Ssh  == << Part("tunnel_id", T(4)), Part("proto", "tcp"), Part("local_addr", T(9)) >>
Own  == << Part("id", T(5)), Part("sub", T(2)), Part("local", T(8)), Part("conn", T(3)) >>

FileTunnel(id, proto, sub) ==
  [tunnel_id |-> id, proto |-> proto, subdomain |-> sub, path_prefix |-> <<>>, local_addr |-> Hard,
   conn |-> <<>>]
NoFile == [server |-> <<>>, token |-> <<>>, client_id |-> <<>>, tunnels |-> <<>>]
File(url, token) ==
  [server |-> url, token |-> token, client_id |-> T(2),
   tunnels |-> << FileTunnel(T(3), "http", Hard), FileTunnel(T(4), "tcp", <<>>) >>]

Options(url, token, specs) == [server |-> url, token |-> token, client_id |-> <<>>, specs |-> specs]
Wish(program, mode, isolate, file, options) ==
  [program |-> program, mode |-> mode, isolate |-> isolate, file |-> file, options |-> options]

Urls == { Url(s, p, x) : s \in {"ws", "wss"}, p \in {0, 443, 8443}, x \in BOOLEAN }
        \cup { Url("wss", p, x) \o Query : p \in {0, 8443}, x \in BOOLEAN }
        \cup { UrlAt("tunnel", "wss", 0, x) : x \in BOOLEAN }

MCWishes ==
  { Wish(pm[1], pm[2], FALSE, NoFile, Options(Url("wss", 0, FALSE), T(6), <<Web, Ssh, Own>>)) :
      pm \in {<<"lite", "json">>, <<"lite", "binary">>, <<"qt", "json">>} }
  \cup { Wish("lite", "json", TRUE, NoFile, Options(Url("wss", 0, FALSE), T(6), <<Web, Ssh, Own>>)) }
  \cup { Wish(pm[1], pm[2], FALSE, File(u, <<>>), Options(<<>>, <<>>, <<>>)) :
      pm \in {<<"lite", "binary">>, <<"qt", "json">>}, u \in Urls }
  \cup { Wish("lite", "json", FALSE, File(Url("ws", 80, FALSE), Hard), Options(<<>>, <<>>, <<Web>>)) }
  \cup { Wish(p, "json", FALSE, File(Url("ws", 0, TRUE) \o Query, T(6)),
              [Options(<<>>, <<>>, <<>>) EXCEPT !.client_id = T(7)]) : p \in {"lite", "qt"} }
  \cup { Wish(p, "json", FALSE, NoFile, Options(Url("ws", 0, FALSE), T(6), <<Web, <<Part("id", T(3))>>>>)) :
      p \in {"lite", "qt"} }

Msg(type, v) == [type |-> type, v |-> v]
Headers == (T(2) :> Hard) @@ (T(3) :> T(127))
\* A header in Latin-1, as services may still send one, and one cut off in a character.
Latin1 == (T(2) :> <<99, 97, 102, 233>>) @@ (T(3) :> <<226, 130>>)

MCUpMessages ==
  { Msg("pong", <<>>), Msg("response_head", [stream_id |-> 127, status |-> 599, headers |-> Headers]),
    Msg("response_head", [stream_id |-> 127, status |-> 200, headers |-> Latin1]),
    Msg("chunk", [stream_id |-> 128, data |-> <<0, 255, 128, 10>>]),
    Msg("end", [stream_id |-> 16384]), Msg("abort", [stream_id |-> 16383, reason |-> Hard]),
    Msg("mgmt", [req_id |-> 1, method |-> T(5), path |-> T(128), body |-> <<1, 2>>]) }

MCDownMessages ==
  { Msg("register_ack", [ok |-> TRUE, error |-> <<>>, tunnels |->
       << [tunnel_id |-> T(3), proto |-> "http", public_url |-> Hard, public_port |-> 0],
          [tunnel_id |-> T(4), proto |-> "tcp", public_url |-> T(7), public_port |-> 40000] >>]),
    Msg("ping", <<>>),
    Msg("open_stream", [stream_id |-> 300, tunnel_id |-> T(3), proto |-> "http", method |-> T(4),
                        path |-> Hard, headers |-> Headers, body |-> <<7>>]),
    Msg("close_stream", [stream_id |-> 127]),
    Msg("chunk", [stream_id |-> 128, data |-> T(125)]),
    Msg("mgmt_resp", [req_id |-> 1, status |-> 404, body |-> Hard]) }
=============================================================================
