--------------------------- MODULE MCRateLimiter ---------------------------
(* The instance of RateLimiter: its callers are model values.              *)
EXTENDS RateLimiter
=============================================================================
