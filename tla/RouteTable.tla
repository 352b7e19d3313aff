----------------------------- MODULE RouteTable -----------------------------
(***************************************************************************)
(* The vector by_path of registry.rs: pairs of a prefix and a target, kept *)
(* sorted by the length of the prefix so that lookup, which takes the      *)
(* first match, finds the most specific route.  A prefix and a path are    *)
(* sequences of segments; a prefix matches a path equal to it or going on  *)
(* behind a slash, that is, when it is a prefix of the path's segments.    *)
(***************************************************************************)
EXTENDS Naturals, Sequences, SequencesExt

CONSTANTS
  Conns,
  PathPrefixes,    \* normalised prefixes: non-empty sequences of segments
  SegLen,      \* the length in bytes of each segment
  Paths,       \* the paths visitors ask for
  InputLists,  \* effective_path of the tunnels of one Register message
  NoConn

ASSUME RouteTableAssumption ==
  /\ NoConn \notin Conns
  /\ SegLen \in [DOMAIN SegLen -> Nat]
  /\ \A p \in PathPrefixes : p \in Seq(DOMAIN SegLen) /\ p # <<>>
  /\ \A path \in Paths : path \in Seq(DOMAIN SegLen)
  /\ \A ps \in InputLists : ps \in Seq(PathPrefixes)

VARIABLES by_path, owned

TableInit ==
  /\ by_path = <<>>
  /\ owned = [c \in Conns |-> <<>>]

\* The length of the string a prefix stands for: a slash before each segment.
StrLen(p) == FoldLeft(LAMBDA n, seg : n + 1 + SegLen[seg], 0, p)

\* by_path.retain(|(prefix, _)| prefix != p)
Retain(v, p) == FoldLeft(LAMBDA w, e : IF e.prefix = p THEN w ELSE Append(w, e), <<>>, v)

\* retain, then push: the prefix now belongs to c alone.
Put(v, p, c) == Append(Retain(v, p), [prefix |-> p, conn |-> c])

\* Where a stable sort by descending length leaves e in the sorted v.
InsertByLen(v, e) ==
  LET before == {i \in DOMAIN v : StrLen(v[i].prefix) >= StrLen(e.prefix)}
  IN  InsertAt(v, IF before = {} THEN 1 ELSE Max(before) + 1, e)

\* Mutant: no sort.
SortForgotten(v) == v

SortByLen(v) == FoldLeft(InsertByLen, <<>>, v)

\* Mutant: only the first of the owned prefixes is cleared.
ClearedFirst(c) == IF owned[c] = <<>> THEN by_path ELSE Retain(by_path, owned[c][1])

\* Clearing the routes of the keys a connection owned.
Cleared(c) == FoldLeft(Retain, by_path, owned[c])

\* Then each input is put in turn.
WithInputs(c, ps) == FoldLeft(LAMBDA v, p : Put(v, p, c), Cleared(c), ps)

\* register_client: clear, put each input, sort once at the end.
RegisterClient(c, ps) ==
  /\ by_path' = SortByLen(WithInputs(c, ps))
  /\ owned' = [owned EXCEPT ![c] = ps]

\* remove_client: clear; the order of the rest is left as it is.
RemoveClient(c) ==
  /\ by_path' = Cleared(c)
  /\ owned' = [owned EXCEPT ![c] = <<>>]

TableNext ==
  \/ \E c \in Conns, ps \in InputLists : RegisterClient(c, ps)
  \/ \E c \in Conns : RemoveClient(c)

TableSpec == TableInit /\ [][TableNext]_<<by_path, owned>>

-----------------------------------------------------------------------------

Matches(prefix, path) == IsPrefix(prefix, path)

\* lookup under the base domain: the first entry that matches, and the path
\* that is left, which is the root when nothing is.
Lookup(path) ==
  LET hits  == {i \in DOMAIN by_path : Matches(by_path[i].prefix, path)}
      first == by_path[Min(hits)]
  IN  IF hits = {} THEN [conn |-> NoConn, rest |-> <<>>]
      ELSE [conn |-> first.conn, rest |-> SubSeq(path, Len(first.prefix) + 1, Len(path))]

-----------------------------------------------------------------------------
(* Properties.                                                             *)

\* The vector as a map.
TableOf == [p \in PathPrefixes |->
              IF \E i \in DOMAIN by_path : by_path[i].prefix = p
                THEN by_path[CHOOSE i \in DOMAIN by_path : by_path[i].prefix = p].conn
                ELSE NoConn]

HoldsOf == [c \in Conns |-> {owned[c][i] : i \in DOMAIN owned[c]}]

\* Visitors reach the most specific of the registered prefixes that match, and
\* the segments behind it, whatever was registered, taken over, cleared or
\* left unsorted in between.
LookupMostSpecific ==
  \A path \in Paths :
    LET found == Lookup(path)
        hits  == {p \in PathPrefixes : TableOf[p] # NoConn /\ IsPrefix(p, path)}
    IN  IF hits = {} THEN found.conn = NoConn
        ELSE \E p \in hits :
               /\ \A q \in hits : Len(q) <= Len(p)
               /\ found = [conn |-> TableOf[p], rest |-> SubSeq(path, Len(p) + 1, Len(path))]

\* The vector implements the map.
Map == INSTANCE RouteMap WITH table <- TableOf, holds <- HoldsOf
ImplementsMap == Map!Spec
=============================================================================
