--------------------------- MODULE RegistryClaims ---------------------------
(* Registry with a history: who asked for a name last, and which names     *)
(* were given up by somebody else since.                                   *)
EXTENDS Registry

NoConn == 0

VARIABLES
  asked,    \* the connection that registered a name last
  dropped   \* names another connection gave up after that

claimVars == <<asked, dropped>>

\* The connections whose Register takes effect with this step and names k.
AskNow(k) == {c \in ConnId : conn[c] = "commit" /\ conn'[c] = "open" /\ k \in owned'[c]}

GivesUp(c, k) == k \in owned[c] /\ k \notin owned'[c]

ClaimedInit == Init /\ asked = [k \in Key |-> NoConn] /\ dropped = {}

ClaimedNext ==
  /\ Next
  /\ asked' = [k \in Key |-> IF AskNow(k) = {} THEN asked[k] ELSE CHOOSE c \in AskNow(k) : TRUE]
  /\ dropped' = {k \in Key :
       AskNow(k) = {} /\ (k \in dropped \/ \E c \in ConnId \ {asked[k]} : GivesUp(c, k))}

ClaimedSpec == ClaimedInit /\ [][ClaimedNext]_<<vars, claimVars>>

\* A name goes to whoever asked for it last - another connection of the user,
\* or another user whose slug and name join to the same word - and never back
\* to an earlier holder.  The last one to ask is served as long as it holds the
\* name, unless an earlier holder gives the name up: remove_client and
\* register_client clear the names they find in `owned`, whoever is served.
NamesFollowLastAsker ==
  \A k \in Key :
    /\ routes[k] # NoTarget => routes[k].conn = asked[k]
    /\ asked[k] # NoConn /\ k \in owned[asked[k]] /\ k \notin dropped => routes[k] # NoTarget
=============================================================================
