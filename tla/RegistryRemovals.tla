-------------------------- MODULE RegistryRemovals --------------------------
(* Registry with a history variable: which connections the administrator   *)
(* has ever been about to remove.                                          *)
EXTENDS Registry

\* The connections remove_user_conns has ever listed.
VARIABLE struck

StruckInit == Init /\ struck = {}

StruckNext == Next /\ struck' = struck \cup admin_conns'

StruckSpec == StruckInit /\ [][StruckNext]_<<vars, struck>>

\* A registered, idle connection still has every TCP port its last
\* acknowledgement told the client, unless the administrator ever set out to
\* remove it: Registers, closes and removals of the others leave it alone.
AckedPortsBound ==
  \A c \in clients \ struck : conn[c] = "open" =>
    \A a \in acked[c] : a.port # NoPort => tcp_ports[<<c, a.tunnel>>] = a.port
=============================================================================
