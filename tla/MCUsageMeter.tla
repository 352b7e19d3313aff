---------------------------- MODULE MCUsageMeter ----------------------------
(* The instance of UsageMeter: its users and readers are model values, and  *)
(* not declared symmetric because the run checks liveness too.              *)
EXTENDS UsageMeter
=============================================================================
