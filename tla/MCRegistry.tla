----------------------------- MODULE MCRegistry -----------------------------
(* What the instances of Registry TLC checks have in common.               *)
EXTENDS Registry, TLC

Http(t, n) == [tunnel |-> t, proto |-> "http", name |-> n]
Tcp(t, n)  == [tunnel |-> t, proto |-> "tcp", name |-> n]
=============================================================================
