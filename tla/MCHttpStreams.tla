---------------------------- MODULE MCHttpStreams ----------------------------
(* HttpStreams with model values for visitors; the instance is in the cfg.   *)
EXTENDS HttpStreams
=============================================================================
