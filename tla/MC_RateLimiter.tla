---------------------------- MODULE MC_RateLimiter ----------------------------
(* RateLimiter for TLC: requests are interchangeable model values. *)
EXTENDS RateLimiter, TLC

RequestSymmetry == Permutations(Requests)
=============================================================================
