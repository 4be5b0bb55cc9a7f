--------------------------- MODULE MCRateLimiter ---------------------------
(* RateLimiter with six requests of two keys, a limit of two and a bucket    *)
(* table that is over its threshold as soon as both keys are in it.          *)
EXTENDS RateLimiter, TLC

Symmetry == Permutations(Calls) \cup Permutations(Keys)
=============================================================================
