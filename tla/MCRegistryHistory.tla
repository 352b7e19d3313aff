------------------------- MODULE MCRegistryHistory --------------------------
(* The instance with two users who compete for names: the slug of one is   *)
(* bob, that of the other bob-2, and both ask for api and for 2-api, so    *)
(* that bob-2-api is a name of both.                                       *)
EXTENDS MCRegistry, RegistryClaims

CONSTANTS t1, t2, bob, two, api, u1, u2

BobSlugs == [u \in Users |-> IF u = u1 THEN <<bob>> ELSE <<bob, two>>]
ApiNames == {<<api>>, <<two, api>>}

\* A TCP and an HTTP tunnel of one id, and two HTTP tunnels one of which asks
\* for the same name.
HttpLists == {<<Tcp(t1, <<api>>), Http(t1, <<api>>)>>,
              <<Http(t2, <<api>>), Http(t1, <<two, api>>)>>}
=============================================================================
