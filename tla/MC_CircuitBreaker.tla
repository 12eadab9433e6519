--------------------------- MODULE MC_CircuitBreaker ---------------------------
(* CircuitBreaker for TLC: requests are interchangeable model values. *)
EXTENDS CircuitBreaker, TLC

RequestSymmetry == Permutations(Requests)
=============================================================================
