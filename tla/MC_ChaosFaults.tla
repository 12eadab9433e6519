----------------------------- MODULE MC_ChaosFaults -----------------------------
(***************************************************************************)
(* The experiments as requests meet them, and the fault API with its       *)
(* records, in one run.  The two modules share no variable, so their       *)
(* states are added, not multiplied: a behaviour is of one of them.        *)
(***************************************************************************)
EXTENDS MC_ChaosExperiments, LegacyFaults

VARIABLE part

ChaosInit == part \in {"experiments", "faults"} /\ Init /\ FaultInit

ChaosNext ==
  /\ UNCHANGED part
  /\ \/ part = "experiments" /\ Next /\ UNCHANGED faultVars
     \/ part = "faults" /\ FaultNext /\ UNCHANGED vars

allVars == <<part, vars, faultVars>>

\* Calls and workers are interchangeable.
ChaosSymmetry ==
  WorkerSymmetry \cup Permutations(FaultWorkers)

ChaosSpec == ChaosInit /\ [][ChaosNext]_allVars
=============================================================================
