------------------------------ MODULE MC_OrderApi ------------------------------
(***************************************************************************)
(* The order operations and the traffic recorder in one run.  They share   *)
(* no variable, so their states are added, not multiplied: a behaviour is  *)
(* of one of the two, chosen at the start.                                 *)
(***************************************************************************)
EXTENDS OrderService, TrafficRecorder

VARIABLE part

allVars == <<part, vars, trafficVars>>

\* Business and probe paths, answered with and without success, and no answer.
SampleResponses ==
  [path : {"business", "probe"}, status : {201, 503}] \cup {[path |-> "none", status |-> 0]}

ApiInit == part \in {"orders", "traffic"} /\ Init /\ TrafficInit

ApiNext ==
  /\ UNCHANGED part
  /\ \/ part = "orders" /\ Next /\ UNCHANGED trafficVars
     \/ part = "traffic" /\ TrafficNext /\ UNCHANGED vars

ApiFairness ==
  /\ WF_allVars(part = "orders" /\ Tick /\ UNCHANGED <<part, trafficVars>>)
  /\ \A r \in Requests : WF_allVars(part = "orders" /\ Step(r) /\ UNCHANGED <<part, trafficVars>>)
  /\ \A o \in Orders : WF_allVars(part = "orders" /\ Expire(o) /\ UNCHANGED <<part, trafficVars>>)
  /\ WF_allVars(part = "traffic" /\ (WriterGet \/ WriterWrite) /\ UNCHANGED <<part, vars>>)

ApiSpec == ApiInit /\ [][ApiNext]_allVars /\ ApiFairness
=============================================================================
