----------------------------- MODULE LinkGroups -----------------------------
(***************************************************************************)
(* The connections of tunnel-lite (main.cpp): one for each name given by    *)
(* conn=, and for the others one each (--isolate) or one for all.  A tunnel *)
(* is a record with a tunnel_id and a conn, empty when not given.           *)
(***************************************************************************)
EXTENDS Naturals, SequencesExt

\* Mutant: without what tells a name given by conn= from a tunnel's own.
GroupKeyPlain(t, isolate) ==
  IF t.conn # <<>> THEN <<"", t.conn>>
  ELSE IF isolate THEN <<"", t.tunnel_id>> ELSE <<"", <<>>>>

GroupKey(t, isolate) ==
  IF t.conn # <<>> THEN <<"c", t.conn>>
  ELSE IF isolate THEN <<"t", t.tunnel_id>> ELSE <<"default", <<>>>>

\* idx.find(key): a tunnel goes to the group of its key, or begins a new one at the end.
Join(gs, t, key) ==
  LET found == {g \in DOMAIN gs : gs[g].key = key}
      g     == CHOOSE g \in found : TRUE
  IN IF found = {} THEN Append(gs, [key |-> key, tunnels |-> <<t>>])
     ELSE [gs EXCEPT ![g] = [key |-> key, tunnels |-> Append(gs[g].tunnels, t)]]

\* The groups, made of the tunnels one by one.
Groups(tunnels, isolate) ==
  FoldLeft(LAMBDA gs, t : Join(gs, t, GroupKey(t, isolate)), <<>>, tunnels)

-----------------------------------------------------------------------------

\* The groups on whose connection a tunnel is registered.
OnLinks(gs, t) == {g \in DOMAIN gs : t \in ToSet(gs[g].tunnels)}

\* Every tunnel is on one connection, and two share theirs exactly when the
\* user asked for that: by the same conn=, by none without --isolate, or by
\* giving them the same name.
GroupsAsAsked(tunnels, isolate) ==
  LET on(t) == OnLinks(Groups(tunnels, isolate), t)
      ts    == ToSet(tunnels)
  IN /\ \A t \in ts : \E g \in on(t) : on(t) = {g}
     /\ \A t, u \in ts :
          on(t) = on(u) <=> \/ t.conn = u.conn /\ (t.conn # <<>> \/ ~isolate)
                            \/ t.tunnel_id = u.tunnel_id /\ t.conn = u.conn
=============================================================================
