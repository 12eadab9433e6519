-------------------------- MODULE MC_ChaosExperiments --------------------------
(* ChaosExperiments for TLC: calls are interchangeable model values. *)
EXTENDS ChaosExperiments, TLC

WorkerSymmetry == Permutations(Workers)
=============================================================================
