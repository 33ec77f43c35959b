-------------------------- MODULE MCRateLimiter --------------------------
(* Small instances of RateLimiter: the configurations give every constant. *)
EXTENDS RateLimiter
=============================================================================
