------------------------------ MODULE LiteJson ------------------------------
(***************************************************************************)
(* The JSON of tunnel-lite (json.hpp and the base64 of util.hpp), written   *)
(* by hand as well, and the standard JSON of its partners (serde_json in    *)
(* the server, QJsonDocument in the Qt client), which it must agree with.   *)
(* A text is a sequence of characters: a byte is its code; a key or a word  *)
(* of the protocol and a number are one character each (from 1000 and from  *)
(* 100000 on), because their letters and digits are never escaped.          *)
(* A value is [t, v] with t one of "null", "bool", "num", "str", "arr",     *)
(* "obj"; an object's v is a function from words to values.                 *)
(***************************************************************************)
EXTENDS Integers, SequencesExt

Words == <<"null", "true", "false", "type", "register", "register_ack", "ping", "pong",
  "open_stream", "response_head", "chunk", "end", "abort", "close_stream", "mgmt", "mgmt_resp",
  "client_id", "tunnels", "tunnel_id", "proto", "subdomain", "path_prefix", "local_addr", "ok",
  "error", "public_url", "public_port", "stream_id", "method", "path", "headers", "body_b64",
  "status", "data_b64", "reason", "req_id", "body", "http", "tcp", "server_url", "api_token",
  "base_domain", "api_base", "auto_reconnect", "token", "user", "email", "wss", "ws", "https",
  "tunnel", "example.com", "frp", "auth", "dev-token", "content-length", "v=3">>

WordCode == [w \in ToSet(Words) |-> 1000 + CHOOSE k \in DOMAIN Words : Words[k] = w]

Word(w)     == <<WordCode[w]>>
IsWord(c)   == c > 1000 /\ c <= 1000 + Len(Words)
WordOf(c)   == Words[c - 1000]
Number(n)   == <<100000 + n>>
IsNumber(c) == c >= 100000

Null    == [t |-> "null", v |-> 0]
Str(s)  == [t |-> "str",  v |-> s]
Num(n)  == [t |-> "num",  v |-> n]
Bool(b) == [t |-> "bool", v |-> b]
Arr(a)  == [t |-> "arr",  v |-> a]
Obj(o)  == [t |-> "obj",  v |-> o]

Quote     == 34
Backslash == 92
Blanks    == {9, 10, 13, 32}
LetterU   == 117

-----------------------------------------------------------------------------
(* Writing *)

HexDigit(n) == IF n < 10 THEN 48 + n ELSE 87 + n

\* The escapes of writeStr: named ones, and \u00xx for other control characters.
Escape(c) ==
  CASE c \in {Quote, Backslash} -> <<Backslash, c>>
    [] c = 10 -> <<Backslash, 110>>
    [] c = 13 -> <<Backslash, 114>>
    [] c = 9  -> <<Backslash, 116>>
    [] OTHER  -> IF c < 32
                 THEN <<Backslash, LetterU, 48, 48, HexDigit(c \div 16), HexDigit(c % 16)>>
                 ELSE <<c>>

\* serde_json and Qt also name backspace and form feed.
StdEscape(c) ==
  CASE c = 8  -> <<Backslash, 98>>
    [] c = 12 -> <<Backslash, 102>>
    [] OTHER  -> Escape(c)

WriteStr(s, esc(_)) == <<Quote>> \o FlattenSeq([k \in DOMAIN s |-> esc(s[k])]) \o <<Quote>>

Commas(items, gap) ==
  FlattenSeq([k \in DOMAIN items |-> (IF k = 1 THEN <<>> ELSE <<44>>) \o gap \o items[k]])

\* The text of a value; gap is the white space before each item of a list or object.
RECURSIVE WriteJson(_, _, _)
WriteJson(j, esc(_), gap) ==
  CASE j.t = "null" -> Word("null")
    [] j.t = "bool" -> Word(IF j.v THEN "true" ELSE "false")
    [] j.t = "num"  -> Number(j.v)
    [] j.t = "str"  -> WriteStr(j.v, esc)
    [] j.t = "arr"  ->
         <<91>> \o Commas([k \in DOMAIN j.v |-> WriteJson(j.v[k], esc, gap)], gap) \o gap \o <<93>>
    [] j.t = "obj"  ->
         LET keys == FoldSet(LAMBDA k, out : Append(out, k), <<>>, DOMAIN j.v)
             item(k) == WriteStr(k, esc) \o <<58>> \o gap \o WriteJson(j.v[k], esc, gap)
         IN <<123>> \o Commas([k \in DOMAIN keys |-> item(keys[k])], gap) \o gap \o <<125>>

-----------------------------------------------------------------------------
(* Reading.  Every parser returns the value, the position after it, and in  *)
(* std whether a standard parser accepts the text as well: tunnel-lite does *)
(* not care.                                                                *)

Parsed(v, i, std) == [v |-> v, i |-> i, std |-> std]
At(s, i) == IF i \in DOMAIN s THEN s[i] ELSE 0

RECURSIVE SkipWs(_, _)
SkipWs(s, i) == IF At(s, i) \in Blanks THEN SkipWs(s, i + 1) ELSE i

HexValue(c) == IF c \in 48..57 THEN c - 48 ELSE c - 87

\* A code of the basic plane as UTF-8.
Utf8(code) ==
  IF code < 128 THEN <<code>>
  ELSE IF code < 2048 THEN <<192 + code \div 64, 128 + (code % 64)>>
  ELSE <<224 + code \div 4096, 128 + ((code \div 64) % 64), 128 + (code % 64)>>

Unescape(c) ==
  CASE c = 110 -> 10 [] c = 114 -> 13 [] c = 116 -> 9 [] c = 98 -> 8 [] c = 102 -> 12
    [] OTHER -> c

\* From position i of a string on, with out read so far.
RECURSIVE StrFrom(_, _, _, _)
StrFrom(s, i, out, std) ==
  IF At(s, i) \in {0, Quote} THEN Parsed(out, i + 1, std /\ i <= Len(s))
  ELSE IF s[i] = Backslash /\ i < Len(s) THEN
    IF s[i + 1] # LetterU
    THEN StrFrom(s, i + 2, Append(out, Unescape(s[i + 1])),
                 std /\ s[i + 1] \in {34, 47, 92, 98, 102, 110, 114, 116})
    ELSE IF i + 5 > Len(s) THEN StrFrom(s, i + 2, out, FALSE)
    ELSE LET code == FoldLeft(LAMBDA n, k : 16 * n + HexValue(s[k]), 0, [k \in 1..4 |-> i + 1 + k])
         IN StrFrom(s, i + 6, out \o Utf8(code), std)
  ELSE StrFrom(s, i + 1, Append(out, s[i]), std /\ s[i] >= 32)
ParseStr(s, i) == StrFrom(s, i + 1, <<>>, TRUE)

RECURSIVE ParseValue(_, _), ObjFrom(_, _, _, _), ArrFrom(_, _, _, _)

\* Behind the value of an item: a comma and another item, or the end.
ObjWith(s, key, val, o, std) ==
  LET next == SkipWs(s, val.i)
      obj  == (key :> val.v) @@ o
  IN CASE At(s, next) = 44  -> ObjFrom(s, next + 1, obj, std /\ val.std)
       [] At(s, next) = 125 -> Parsed(Obj(obj), next + 1, std /\ val.std)
       [] OTHER             -> Parsed(Obj(obj), next, FALSE)

\* Further items of an object: a key, a colon if there is one, a value.
ObjFrom(s, start, o, std) ==
  LET i     == SkipWs(s, start)
      key   == ParseStr(s, i)
      colon == SkipWs(s, key.i)
      there == At(s, colon) = 58
  IN IF At(s, i) # Quote THEN Parsed(Obj(o), i, FALSE)
     ELSE ObjWith(s, key.v, ParseValue(s, IF there THEN colon + 1 ELSE colon), o,
                  std /\ key.std /\ there)
ParseObj(s, i) ==
  LET first == SkipWs(s, i + 1) IN
  IF At(s, first) = 125 THEN Parsed(Obj([k \in {} |-> Null]), first + 1, TRUE)
  ELSE ObjFrom(s, first, [k \in {} |-> Null], TRUE)

ArrWith(s, val, a, std) ==
  LET next == SkipWs(s, val.i)
      arr  == Append(a, val.v)
  IN CASE At(s, next) = 44 -> ArrFrom(s, next + 1, arr, std /\ val.std)
       [] At(s, next) = 93 -> Parsed(Arr(arr), next + 1, std /\ val.std)
       [] OTHER            -> Parsed(Arr(arr), next, FALSE)
ArrFrom(s, i, a, std) == ArrWith(s, ParseValue(s, i), a, std)
ParseArr(s, i) ==
  LET first == SkipWs(s, i + 1) IN
  IF At(s, first) = 93 THEN Parsed(Arr(<<>>), first + 1, TRUE) ELSE ArrFrom(s, first, <<>>, TRUE)

\* What is no object, list, string or word is a number: zero when it is none either.
ParseValue(s, start) ==
  LET i == SkipWs(s, start)
      c == At(s, i)
  IN CASE c = 0    -> Parsed(Null, i, FALSE)
       [] c = 123  -> ParseObj(s, i)
       [] c = 91   -> ParseArr(s, i)
       [] c = Quote -> LET r == ParseStr(s, i) IN Parsed(Str(r.v), r.i, r.std)
       [] <<c>> = Word("true")  -> Parsed(Bool(TRUE), i + 1, TRUE)
       [] <<c>> = Word("false") -> Parsed(Bool(FALSE), i + 1, TRUE)
       [] <<c>> = Word("null")  -> Parsed(Null, i + 1, TRUE)
       [] IsNumber(c) -> Parsed(Num(c - 100000), i + 1, TRUE)
       [] OTHER -> Parsed(Num(0), i, FALSE)

Parse(s) == ParseValue(s, 1)

-----------------------------------------------------------------------------
(* Reading the members of an object: a missing one and one of another type *)
(* give the default.                                                        *)

Member(j, k) ==
  IF j.t = "obj" /\ Word(k) \in DOMAIN j.v THEN j.v[Word(k)] ELSE Null
StrOf(j, k, default)  == LET v == Member(j, k) IN IF v.t = "str"  THEN v.v ELSE default
NumOf(j, k, default)  == LET v == Member(j, k) IN IF v.t = "num"  THEN v.v ELSE default
BoolOf(j, k, default) == LET v == Member(j, k) IN IF v.t = "bool" THEN v.v ELSE default

-----------------------------------------------------------------------------
(* Base64: four digits of six bits for three bytes.                         *)

Digit(n) == CASE n < 26 -> 65 + n [] n \in 26..51 -> 71 + n [] n \in 52..61 -> n - 4
              [] n = 62 -> 43 [] n = 63 -> 47

\* The last group of one or two bytes is padded with "=" (61).
B64Encode(d) ==
  LET group(k) ==
        LET at(i) == IF i <= Len(d) THEN d[i] ELSE 0
            n == (at(k) * 256 + at(k + 1)) * 256 + at(k + 2)
        IN << Digit(n \div 262144), Digit((n \div 4096) % 64),
              IF k + 1 <= Len(d) THEN Digit((n \div 64) % 64) ELSE 61,
              IF k + 2 <= Len(d) THEN Digit(n % 64) ELSE 61 >>
  IN FlattenSeq([g \in 1..(Len(d) + 2) \div 3 |-> group(3 * g - 2)])

\* Anything that is no digit is skipped; bits that fill no byte are dropped.
\* buf holds the bits not yet put out (the code keeps the others in it too).
DigitValue(c) == CASE c \in 65..90 -> c - 65 [] c \in 97..122 -> c - 71 [] c \in 48..57 -> c + 4
                   [] c = 43 -> 62 [] c = 47 -> 63 [] OTHER -> -1

RECURSIVE B64From(_, _, _, _, _)
B64From(text, i, buf, bits, out) ==
  IF i > Len(text) THEN out
  ELSE LET v    == DigitValue(text[i])
           next == buf * 64 + v
       IN IF v < 0 THEN B64From(text, i + 1, buf, bits, out)
          ELSE IF bits < 2 THEN B64From(text, i + 1, next, bits + 6, out)
          ELSE B64From(text, i + 1, next % 2^(bits - 2), bits - 2, Append(out, next \div 2^(bits - 2)))
B64Decode(text) == B64From(text, 1, 0, 0, <<>>)
=============================================================================
