---------------------------- MODULE MCLiteClient ----------------------------
(* Groups of tunnels are interchangeable.                                   *)
EXTENDS LiteClient, TLC

GroupSymmetry == Permutations(Groups)
=============================================================================
