--------------------------- MODULE MCRateLimiter ---------------------------
(***************************************************************************)
(* RateLimiter for TLC: three clients for a shard of two.                  *)
(***************************************************************************)
EXTENDS RateLimiter, TLC

ClientSymmetry == Permutations(Clients)
=============================================================================
