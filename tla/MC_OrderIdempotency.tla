------------------------- MODULE MC_OrderIdempotency -------------------------
(* OrderIdempotency for TLC: requests are interchangeable model values. *)
EXTENDS OrderIdempotency, TLC

RequestSymmetry == Permutations(Requests)

\* Bodies are interchangeable too: where symmetry cannot be used (liveness), one
\* request has the first body, without loss of generality.
FixedBodyInit ==
  Init /\ fp[CHOOSE r \in Requests : TRUE] = CHOOSE f \in Fingerprints : TRUE

FixedBodySpec == FixedBodyInit /\ [][Next]_vars /\ WF_vars(Tick)
=============================================================================
