------------------------------- MODULE Codec --------------------------------
(***************************************************************************)
(* The binary frames (v3) that tunnel-lite (codec.hpp, structs W and R) and *)
(* the server (binproto.rs) write and read by hand, field by field.  A      *)
(* frame is a sequence of bytes; a layout is the sequence of the fields one *)
(* side puts or expects there, and a record of a layout's fields is what is *)
(* carried.  A field is [name, bin, key, json, of]: its name in the model,  *)
(* its binary form, its key and form in JSON (module LiteJson), and for     *)
(* lists the layout of an element.  Reading gives [ok, v, i]: whether it    *)
(* succeeded, the value and the position after it; not ok is the exception  *)
(* of the clients and the Err of the server.                                *)
(***************************************************************************)
EXTENDS Integers, SequencesExt

Field(name, bin, key, json) == [name |-> name, bin |-> bin, key |-> key, json |-> json, of |-> <<>>]
ListField(name, key, of)    == [name |-> name, bin |-> "list", key |-> key, json |-> "list", of |-> of]

FrameType == [register |-> 1, register_ack |-> 2, ping |-> 3, pong |-> 4, open_stream |-> 5,
              response_head |-> 6, chunk |-> 7, end |-> 8, abort |-> 9, close_stream |-> 10,
              mgmt |-> 11, mgmt_resp |-> 12]

-----------------------------------------------------------------------------
(* Writing *)

PutU16(n) == <<n % 256, (n \div 256) % 256>>

RECURSIVE PutVarint(_)
PutVarint(n) == IF n < 128 THEN <<n>> ELSE <<128 + (n % 128)>> \o PutVarint(n \div 128)

PutStr(s) == PutVarint(Len(s)) \o s

\* The keys of a map, in some order.
Listed(S) == FoldSet(LAMBDA x, out : Append(out, x), <<>>, S)

PutHeaders(h) ==
  FoldLeft(LAMBDA out, k : out \o PutStr(k) \o PutStr(h[k]),
           PutU16(Cardinality(DOMAIN h)), Listed(DOMAIN h))

ProtoByte(p) == IF p = "tcp" THEN 1 ELSE 0

RECURSIVE PutFields(_, _)
PutFields(layout, m) ==
  LET put(f) == LET v == m[f.name] IN
        CASE f.bin = "u8"      -> <<v % 256>>
          [] f.bin = "bool"    -> <<IF v THEN 1 ELSE 0>>
          [] f.bin = "u16"     -> PutU16(v)
          [] f.bin = "varint"  -> PutVarint(v)
          [] f.bin = "str"     -> PutStr(v)
          [] f.bin = "proto"   -> <<ProtoByte(v)>>
          [] f.bin = "headers" -> PutHeaders(v)
          [] f.bin = "list"    -> PutU16(Len(v)) \o FlattenSeq([k \in DOMAIN v |-> PutFields(f.of, v[k])])
  IN FlattenSeq([k \in DOMAIN layout |-> put(layout[k])])

-----------------------------------------------------------------------------
(* Reading *)

Read(v, i) == [ok |-> TRUE, v |-> v, i |-> i]
Fails      == [ok |-> FALSE, v |-> 0, i |-> 0]

\* need(n): the n bytes from position i on are there.
Has(d, i, n) == i + n - 1 <= Len(d)

GetU8(d, i) == IF Has(d, i, 1) THEN Read(d[i], i + 1) ELSE Fails

GetU16(d, i) == IF Has(d, i, 2) THEN Read(d[i] + 256 * d[i + 1], i + 2) ELSE Fails

\* The groups of seven bits, lowest first; past bit 63 the number is refused.
\* A group of zero bits adds nothing, whatever its weight.
RECURSIVE GetGroups(_, _, _, _)
GetGroups(d, i, shift, v) ==
  IF ~Has(d, i, 1) \/ shift > 63 THEN Fails
  ELSE LET bits == d[i] % 128
           w    == IF bits = 0 THEN v ELSE v + bits * 2^shift
       IN IF d[i] < 128 THEN Read(w, i + 1) ELSE GetGroups(d, i + 1, shift + 7, w)
GetVarint(d, i) == GetGroups(d, i, 0, 0)

GetStr(d, i) ==
  LET n == GetVarint(d, i) IN
  IF n.ok /\ Has(d, n.i, n.v) THEN Read(SubSeq(d, n.i, n.i + n.v - 1), n.i + n.v) ELSE Fails

\* The bytes behind the first one of a character; a word or a number of a text is all
\* letters and digits.
Inner == 128..191
Following(c) ==
  CASE c < 128 \/ c > 255     -> <<>>
    [] c \in 194..223         -> <<Inner>>
    [] c = 224                -> <<160..191, Inner>>
    [] c = 237                -> <<128..159, Inner>>
    [] c \in 225..239 \ {237} -> <<Inner, Inner>>
    [] c = 240                -> <<144..191, Inner, Inner>>
    [] c \in 241..243         -> <<Inner, Inner, Inner>>
    [] c = 244                -> <<128..143, Inner, Inner>>
    [] OTHER                  -> <<{}>>

\* from_utf8: every character is whole, none is longer than it need be or a surrogate,
\* and no byte is behind a character it does not belong to.
ValidUtf8(s) ==
  \A i \in DOMAIN s :
    IF s[i] \in Inner
      THEN \E d \in 1..3 : d < i /\ s[i - d] \notin Inner /\ d <= Len(Following(s[i - d]))
      ELSE LET want == Following(s[i]) IN
           \A k \in DOMAIN want : i + k <= Len(s) /\ s[i + k] \in want[k]

\* The server's texts are Strings: what is not UTF-8 is refused.
GetText(d, i) ==
  LET r == GetStr(d, i) IN IF r.ok /\ ValidUtf8(r.v) THEN r ELSE Fails

\* The same key twice: the later value stays.
GetHeaders(d, i, Get(_, _)) ==
  LET step(acc, k) ==
        LET key == IF acc.ok THEN Get(d, acc.i) ELSE Fails
            val == IF key.ok THEN Get(d, key.i) ELSE Fails
        IN IF val.ok THEN Read((key.v :> val.v) @@ acc.v, val.i) ELSE Fails
      n == GetU16(d, i)
  IN IF n.ok THEN FoldLeft(step, Read([k \in {} |-> <<>>], n.i), [k \in 1..n.v |-> k]) ELSE Fails

ByteProto(b) == IF b = 1 THEN "tcp" ELSE "http"

RECURSIVE GetFields(_, _, _)
GetFields(layout, d, i) ==
  LET elements(of, from) ==
        LET step(acc, k) ==
              LET e == IF acc.ok THEN GetFields(of, d, acc.i) ELSE Fails
              IN IF e.ok THEN Read(Append(acc.v, e.v), e.i) ELSE Fails
        IN IF from.ok THEN FoldLeft(step, Read(<<>>, from.i), [k \in 1..from.v |-> k]) ELSE Fails
      byte(j, Of(_)) == LET b == GetU8(d, j) IN IF b.ok THEN Read(Of(b.v), b.i) ELSE Fails
      get(f, j) ==
        CASE f.bin = "u8"      -> GetU8(d, j)
          [] f.bin = "bool"    -> byte(j, LAMBDA b : b # 0)
          [] f.bin = "u16"     -> GetU16(d, j)
          [] f.bin = "varint"  -> GetVarint(d, j)
          [] f.bin = "str"     -> GetStr(d, j)
          [] f.bin = "proto"   -> byte(j, ByteProto)
          [] f.bin = "headers" -> GetHeaders(d, j, GetStr)
          [] f.bin = "text"    -> GetText(d, j)
          [] f.bin = "texts"   -> GetHeaders(d, j, GetText)
          [] f.bin = "list"    -> elements(f.of, GetU16(d, j))
      step(acc, f) ==
        LET r == IF acc.ok THEN get(f, acc.i) ELSE Fails
        IN IF r.ok THEN Read((f.name :> r.v) @@ acc.v, r.i) ELSE Fails
  IN FoldLeft(step, Read([n \in {} |-> 0], i), layout)
=============================================================================
