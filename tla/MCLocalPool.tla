----------------------------- MODULE MCLocalPool -----------------------------
(* Every way to frame a response, and everything that may go wrong.         *)
EXTENDS LocalPool, TLC

AllFramings == {"length", "length_close", "chunked", "until_close", "bodiless", "bare"}
AllFaults == {"refuse", "expire", "idle_close", "drop", "break", "split"}
Symmetric == Permutations(Reqs) \cup Permutations(Workers)
=============================================================================
