------------------------------ MODULE RouteMap ------------------------------
(***************************************************************************)
(* What the path routes of the registry promise: a finite map from path    *)
(* prefixes to connections, changed by whole registrations and removals.   *)
(* Module RouteTable shows that the vector by_path keeps this promise, and *)
(* module Registry is written in these terms.                              *)
(***************************************************************************)
CONSTANTS Conns, PathPrefixes, NoConn

VARIABLES table,  \* prefix -> connection serving it
          holds   \* connection -> prefixes it registered last

Init ==
  /\ table = [p \in PathPrefixes |-> NoConn]
  /\ holds = [c \in Conns |-> {}]

\* The connection gives up what it held and takes over the new prefixes.
Register(c, ps) ==
  /\ table' = [p \in PathPrefixes |->
                 IF p \in ps THEN c ELSE IF p \in holds[c] THEN NoConn ELSE table[p]]
  /\ holds' = [holds EXCEPT ![c] = ps]

Next == \E c \in Conns, ps \in SUBSET PathPrefixes : Register(c, ps)

Spec == Init /\ [][Next]_<<table, holds>>
=============================================================================
