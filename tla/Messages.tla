------------------------------ MODULE Messages ------------------------------
(***************************************************************************)
(* The messages of the control channel as each program writes and reads     *)
(* them: tunnel-lite in both formats (enc* and decServer of codec.hpp), the *)
(* Qt client in JSON (Protocol.cpp) and the server in both (binproto.rs and *)
(* the serde types of protocol.rs).  Each side has its own layouts,         *)
(* translated from its own code: nothing here says that they are the same.  *)
(* A message is [type, v] with v the record of its fields; a text a sender  *)
(* leaves out is the empty text, and a port 0, on both sides.               *)
(***************************************************************************)
EXTENDS Codec, LiteJson

-----------------------------------------------------------------------------
(* tunnel-lite, client to server.  "opt" is a member left out when empty.   *)

\* Mutant: the two names of a tunnel are written in the other order.
EncRegisterSwapped ==
  << Field("client_id", "str", "client_id", "str"),
     ListField("tunnels", "tunnels",
       << Field("tunnel_id", "str", "tunnel_id", "str"), Field("proto", "proto", "proto", "proto"),
          Field("path_prefix", "str", "path_prefix", "opt"), Field("subdomain", "str", "subdomain", "opt"),
          Field("local_addr", "str", "local_addr", "opt") >>) >>

EncRegister ==
  << Field("client_id", "str", "client_id", "str"),
     ListField("tunnels", "tunnels",
       << Field("tunnel_id", "str", "tunnel_id", "str"), Field("proto", "proto", "proto", "proto"),
          Field("subdomain", "str", "subdomain", "opt"), Field("path_prefix", "str", "path_prefix", "opt"),
          Field("local_addr", "str", "local_addr", "opt") >>) >>

EncPong == <<>>

EncHead == << Field("stream_id", "varint", "stream_id", "num"), Field("status", "u16", "status", "num"),
              Field("headers", "headers", "headers", "headers") >>

EncChunk == << Field("stream_id", "varint", "stream_id", "num"), Field("data", "str", "data_b64", "b64") >>

EncEnd == << Field("stream_id", "varint", "stream_id", "num") >>

EncAbort == << Field("stream_id", "varint", "stream_id", "num"), Field("reason", "str", "reason", "str") >>

EncMgmt == << Field("req_id", "varint", "req_id", "num"), Field("method", "str", "method", "str"),
              Field("path", "str", "path", "str"), Field("body", "str", "body_b64", "b64") >>

LiteWrites == [register |-> EncRegister, pong |-> EncPong, response_head |-> EncHead,
               chunk |-> EncChunk, end |-> EncEnd, abort |-> EncAbort, mgmt |-> EncMgmt]

\* What decServer expects.
LiteReads ==
  [ register_ack |->
      << Field("ok", "bool", "ok", "bool"), Field("error", "str", "error", "str"),
         ListField("tunnels", "tunnels",
           << Field("tunnel_id", "str", "tunnel_id", "str"), Field("proto", "proto", "proto", "proto"),
              Field("public_url", "str", "public_url", "str"),
              Field("public_port", "u16", "public_port", "num") >>) >>,
    ping |-> <<>>,
    open_stream |->
      << Field("stream_id", "varint", "stream_id", "num"), Field("tunnel_id", "str", "tunnel_id", "str"),
         Field("proto", "proto", "proto", "proto"), Field("method", "str", "method", "method"),
         Field("path", "str", "path", "path"), Field("headers", "headers", "headers", "headers"),
         Field("body", "str", "body_b64", "b64") >>,
    close_stream |-> << Field("stream_id", "varint", "stream_id", "num") >>,
    chunk |-> << Field("stream_id", "varint", "stream_id", "num"), Field("data", "str", "data_b64", "b64") >>,
    mgmt_resp |->
      << Field("req_id", "varint", "req_id", "num"), Field("status", "u16", "status", "num"),
         Field("body", "str", "body_b64", "b64") >> ]

-----------------------------------------------------------------------------
(* The Qt client: JSON only. *)

JsonField(name, key, json) == Field(name, "none", key, json)

BuildRegister ==
  << JsonField("client_id", "client_id", "str"),
     ListField("tunnels", "tunnels",
       << JsonField("tunnel_id", "tunnel_id", "str"), JsonField("proto", "proto", "proto"),
          JsonField("subdomain", "subdomain", "opt"), JsonField("path_prefix", "path_prefix", "opt"),
          JsonField("local_addr", "local_addr", "opt") >>) >>

BuildResponseHead == << JsonField("stream_id", "stream_id", "num"), JsonField("status", "status", "num"),
                        JsonField("headers", "headers", "headers") >>

BuildChunk == << JsonField("stream_id", "stream_id", "num"), JsonField("data", "data_b64", "b64") >>

BuildEnd == << JsonField("stream_id", "stream_id", "num") >>

BuildAbort == << JsonField("stream_id", "stream_id", "num"), JsonField("reason", "reason", "str") >>

BuildMgmt == << JsonField("req_id", "req_id", "num"), JsonField("method", "method", "str"),
                JsonField("path", "path", "str"), JsonField("body", "body_b64", "b64") >>

QtWrites == [register |-> BuildRegister, pong |-> <<>>, response_head |-> BuildResponseHead,
             chunk |-> BuildChunk, end |-> BuildEnd, abort |-> BuildAbort, mgmt |-> BuildMgmt]

\* parseServerMessage
QtReads ==
  [ register_ack |->
      << JsonField("ok", "ok", "bool"), JsonField("error", "error", "str"),
         ListField("tunnels", "tunnels",
           << JsonField("tunnel_id", "tunnel_id", "str"), JsonField("proto", "proto", "proto"),
              JsonField("public_url", "public_url", "str"), JsonField("public_port", "public_port", "num") >>) >>,
    ping |-> <<>>,
    open_stream |->
      << JsonField("stream_id", "stream_id", "num"), JsonField("tunnel_id", "tunnel_id", "str"),
         JsonField("proto", "proto", "proto"), JsonField("method", "method", "str"),
         JsonField("path", "path", "str"), JsonField("headers", "headers", "headers"),
         JsonField("body", "body_b64", "b64") >>,
    close_stream |-> << JsonField("stream_id", "stream_id", "num") >>,
    chunk |-> << JsonField("stream_id", "stream_id", "num"), JsonField("data", "data_b64", "b64") >>,
    mgmt_resp |-> << JsonField("req_id", "req_id", "num"), JsonField("status", "status", "num"),
                     JsonField("body", "body_b64", "b64") >> ]

-----------------------------------------------------------------------------
(* The server.  "null text" and "null num" are Options: null when empty. *)

\* decode_client, and ClientMsg for JSON.  "text" is str() of binproto.rs, "str" its bytes().
ServerReads ==
  [ register |->
      << Field("client_id", "text", "client_id", "str"),
         ListField("tunnels", "tunnels",
           << Field("tunnel_id", "text", "tunnel_id", "str"), Field("proto", "proto", "proto", "proto"),
              Field("subdomain", "text", "subdomain", "str"), Field("path_prefix", "text", "path_prefix", "str"),
              Field("local_addr", "text", "local_addr", "str") >>) >>,
    pong |-> <<>>,
    response_head |-> << Field("stream_id", "varint", "stream_id", "num"),
      Field("status", "u16", "status", "num"), Field("headers", "texts", "headers", "headers") >>,
    chunk |-> << Field("stream_id", "varint", "stream_id", "num"), Field("data", "str", "data_b64", "b64") >>,
    end |-> << Field("stream_id", "varint", "stream_id", "num") >>,
    abort |-> << Field("stream_id", "varint", "stream_id", "num"), Field("reason", "text", "reason", "str") >>,
    mgmt |-> << Field("req_id", "varint", "req_id", "num"), Field("method", "text", "method", "str"),
                Field("path", "text", "path", "str"), Field("body", "str", "body_b64", "b64") >> ]

\* encode_server, and ServerMsg for JSON.
ServerWrites ==
  [ register_ack |->
      << Field("ok", "bool", "ok", "bool"), Field("error", "str", "error", "null text"),
         ListField("tunnels", "tunnels",
           << Field("tunnel_id", "str", "tunnel_id", "str"), Field("proto", "proto", "proto", "proto"),
              Field("public_url", "str", "public_url", "str"),
              Field("public_port", "u16", "public_port", "null num") >>) >>,
    ping |-> <<>>,
    open_stream |->
      << Field("stream_id", "varint", "stream_id", "num"), Field("tunnel_id", "str", "tunnel_id", "str"),
         Field("proto", "proto", "proto", "proto"), Field("method", "str", "method", "str"),
         Field("path", "str", "path", "str"), Field("headers", "headers", "headers", "headers"),
         Field("body", "str", "body_b64", "b64") >>,
    close_stream |-> << Field("stream_id", "varint", "stream_id", "num") >>,
    chunk |-> << Field("stream_id", "varint", "stream_id", "num"), Field("data", "str", "data_b64", "b64") >>,
    mgmt_resp |-> << Field("req_id", "varint", "req_id", "num"), Field("status", "u16", "status", "num"),
                     Field("body", "str", "body_b64", "b64") >> ]

-----------------------------------------------------------------------------
(* Both formats over the layouts. *)

EncodeBinary(layouts, m) == <<FrameType[m.type]>> \o PutFields(layouts[m.type], m.v)

\* The first byte says which layout applies; an unknown type is refused.
DecodeBinary(layouts, d) ==
  LET types == {t \in DOMAIN layouts : d # <<>> /\ FrameType[t] = d[1]} IN
  IF types = {} THEN [ok |-> FALSE]
  ELSE LET t == CHOOSE x \in types : TRUE
           r == GetFields(layouts[t], d, 2)
       IN IF r.ok THEN [ok |-> TRUE, m |-> [type |-> t, v |-> r.v]] ELSE [ok |-> FALSE]

\* The members of a JSON object for the fields of a layout.
RECURSIVE ToJson(_, _)
ToJson(layout, m) ==
  LET value(f) == LET v == m[f.name] IN
        CASE f.json \in {"str", "opt", "method", "path"} -> Str(v)
          [] f.json = "num"     -> Num(v)
          [] f.json = "bool"    -> Bool(v)
          [] f.json = "proto"   -> Str(Word(v))
          [] f.json = "b64"     -> Str(B64Encode(v))
          [] f.json = "null text" -> IF v = <<>> THEN Null ELSE Str(v)
          [] f.json = "null num"  -> IF v = 0 THEN Null ELSE Num(v)
          [] f.json = "headers" -> Obj([k \in DOMAIN v |-> Str(v[k])])
          [] f.json = "list"    -> Arr([k \in DOMAIN v |-> Obj(ToJson(f.of, v[k]))])
      step(o, f) ==
        IF f.json = "opt" /\ m[f.name] = <<>> THEN o ELSE (Word(f.key) :> value(f)) @@ o
  IN FoldLeft(step, [k \in {} |-> Null], layout)

EncodeJson(layouts, m, esc(_)) ==
  WriteJson(Obj((Word("type") :> Str(Word(m.type))) @@ ToJson(layouts[m.type], m.v)), esc, <<>>)

RECURSIVE FromJson(_, _)
FromJson(layout, j) ==
  LET value(f) ==
        CASE f.json = "str"     -> StrOf(j, f.key, <<>>)
          [] f.json = "method"  -> StrOf(j, f.key, <<71, 69, 84>>)
          [] f.json = "path"    -> StrOf(j, f.key, <<47>>)
          [] f.json = "num"     -> NumOf(j, f.key, 0)
          [] f.json = "bool"    -> BoolOf(j, f.key, FALSE)
          [] f.json = "proto"   -> WordOf(StrOf(j, f.key, Word("http"))[1])
          [] f.json = "b64"     -> B64Decode(StrOf(j, f.key, <<>>))
          [] f.json = "headers" ->
               LET h == Member(j, f.key).v IN [k \in DOMAIN h |-> h[k].v]
          [] f.json = "list"    ->
               LET a == Member(j, f.key).v IN [k \in DOMAIN a |-> FromJson(f.of, a[k])]
  IN FoldLeft(LAMBDA r, f : (f.name :> value(f)) @@ r, [n \in {} |-> 0], layout)

\* A strict reader, as the server and Qt have, refuses what a standard parser refuses.
DecodeJson(layouts, text, strict) ==
  LET p == Parse(text)
      t == StrOf(p.v, "type", <<>>)
  IN IF (strict /\ ~p.std) \/ Len(t) # 1 \/ ~IsWord(t[1]) \/ WordOf(t[1]) \notin DOMAIN layouts
     THEN [ok |-> FALSE]
     ELSE [ok |-> TRUE, m |-> [type |-> WordOf(t[1]), v |-> FromJson(layouts[WordOf(t[1])], p.v)]]
=============================================================================
