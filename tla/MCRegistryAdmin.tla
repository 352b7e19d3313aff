-------------------------- MODULE MCRegistryAdmin ---------------------------
(* The instance with TCP ports, an administrator, and a pool that runs out *)
(* in the middle of a Register.                                            *)
EXTENDS MCRegistry, RegistryRemovals

CONSTANTS n1, t1, t2

\* Names and slugs of one word each.
OneWordName == {<<n1>>}
OneWordSlug == [u \in Users |-> <<u>>]

TcpOf(t)  == Tcp(t, <<n1>>)
HttpOf(t) == Http(t, <<n1>>)

\* A TCP tunnel, an HTTP tunnel, and two TCP tunnels: two connections want up
\* to four ports.  The last payload exceeds MaxTunnels = 2.
AdminLists == {<<TcpOf(t1)>>, <<HttpOf(t1)>>, <<TcpOf(t1), TcpOf(t2)>>,
               <<TcpOf(t1), TcpOf(t2), HttpOf(t1)>>}

\* Bound: either the administrator acts, or a second TCP tunnel is known.  Then
\* clients send nothing but the two, or the payload that is refused, and nothing
\* the administrator did is under way or in effect.
Crowded ==
  \/ \E u \in Users : rows[<<u, t2>>] # "absent"
  \/ \E c \in ConnId : \/ \E i \in DOMAIN todo[c] : todo[c][i].tunnel = t2
                      \/ \E i \in DOMAIN prepared[c] : prepared[c][i].tunnel = t2
                      \/ \E a \in acked[c] : a.tunnel = t2
Undisturbed ==
  /\ \A c \in ConnId : todo[c] # <<>> => todo[c][Len(todo[c])].tunnel = t2
  /\ admin.pc = "idle" /\ disabled = {} /\ struck = {}
  /\ \A r \in DOMAIN rows : rows[r] # "off"
  /\ \A c \in ConnId : \A a \in acked[c] : rows[<<user[c], a.tunnel>>] = "on"

AdminOrPool ==
  IF Crowded' THEN Undisturbed' ELSE \A c \in ConnId : ~RegisterRefused(c)

AdminOrPoolSpec == StruckInit /\ [][StruckNext /\ AdminOrPool]_<<vars, struck>>
=============================================================================
