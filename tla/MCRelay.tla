------------------------------ MODULE MCRelay ------------------------------
(* One user owns every connection.                                         *)
EXTENDS Relay, TLC

OneOwner == [c \in ConnId |-> CHOOSE u \in Users : TRUE]

VisitorSymmetry == Permutations(Visitors)
=============================================================================
