----------------------------- MODULE LegacyFaults -----------------------------
(***************************************************************************)
(* The fault API (chaos_service/fault_injection.py and the legacy part of  *)
(* chaos_service/chaos/__init__.py) and the requests it acts on            *)
(* (app/api/hooks.py).  A legacy fault is a record fault:<type> beside an  *)
(* experiment document; both have a TTL and neither is written atomically  *)
(* with the other.  One action is one Redis command of a worker.  Reports  *)
(* and the gauge are ChaosExperiments; only documents are kept here.       *)
(***************************************************************************)
EXTENDS Naturals, FiniteSets

CONSTANTS
  FaultWorkers,  \* the processes and threads that serve HTTP calls
  FaultIds,      \* experiment ids, a fresh uuid each
  FaultTypes,    \* the fault types in use; "exception" is one of them
  Durations,     \* the values of ttl_sec and duration
  FaultClockEnd, \* bound: the clock stops here
  AdminToken,    \* CHAOS_ADMIN_TOKEN, or "unset"
  ChaosEnabled   \* CHAOS_ENABLED

\* fault_inject and chaos_create_experiment pass a duration to SETEX, which
\* refuses 0.
ASSUME FaultAssumption ==
  /\ Durations \subseteq Nat \ {0} /\ FaultClockEnd \in Nat
  /\ "exception" \in FaultTypes /\ ChaosEnabled \in BOOLEAN

VARIABLES
  clock,
  experiment,  \* chaos:experiment:<id>, with what it was created as
  record,      \* fault:<type>: the instant its TTL ends, 0 when absent
  at,          \* where each worker is in its handler, "idle" between handlers
  about,       \* the fault types its handler is about
  span,        \* the duration it was given
  pending,     \* the ids its loop has still to stop
  reach,       \* history: the experiments its clear has to end
  gone,        \* history: the experiments some finished clear has ended
  cut          \* history: the types whose handler a crash cut short

faultLocals    == <<at, about, span, pending, reach>>
faultVars == <<clock, experiment, record, faultLocals, gone, cut>>

Absent == [state |-> "absent", type |-> "exception", legacy |-> FALSE, ends |-> 0, span |-> 0]

Fresh(e)     == experiment[e] = Absent
IsRunning(e) == experiment[e].state = "running"
HasRecord(t) == record[t] > 0

FaultInit ==
  /\ clock = 0
  /\ experiment = [e \in FaultIds |-> Absent]
  /\ record = [t \in FaultTypes |-> 0]
  /\ at = [w \in FaultWorkers |-> "idle"] /\ about = [w \in FaultWorkers |-> {}]
  /\ span = [w \in FaultWorkers |-> 0]
  /\ pending = [w \in FaultWorkers |-> {}] /\ reach = [w \in FaultWorkers |-> {}]
  /\ gone = {} /\ cut = {}

\* A handler is entered: its first command, the types and the duration it is
\* about, the experiments it will have to have ended when it returns.
Enter(w, label, types, d, ids) ==
  /\ at[w] = "idle"
  /\ at' = [at EXCEPT ![w] = label] /\ about' = [about EXCEPT ![w] = types]
  /\ span' = [span EXCEPT ![w] = d] /\ reach' = [reach EXCEPT ![w] = ids]
  /\ pending' = [pending EXCEPT ![w] = {}]

\* The handler returns and its locals are gone.
Leave(w) ==
  /\ at' = [at EXCEPT ![w] = "idle"] /\ about' = [about EXCEPT ![w] = {}]
  /\ span' = [span EXCEPT ![w] = 0] /\ reach' = [reach EXCEPT ![w] = {}]
  /\ pending' = [pending EXCEPT ![w] = {}]
  /\ gone' = gone \union reach[w]

Advance(w, label) == at' = [at EXCEPT ![w] = label] /\ UNCHANGED <<about, span, reach, gone>>

\* token_accepted: without a configured token everything is accepted.
TokenAccepted(token) == AdminToken = "unset" \/ token = AdminToken

\* admin_guard and ensure_enabled: any other call of the admin API is refused
\* with 401 or 403 and changes nothing.
Admitted == ChaosEnabled /\ \E token \in {"missing", "wrong", "right"} : TokenAccepted(token)

\* SETEX of a new experiment document.
PutExperiment(t, legacy, d) ==
  \E e \in FaultIds :
    /\ Fresh(e)
    /\ experiment' = [experiment EXCEPT ![e] =
         [state |-> "running", type |-> t, legacy |-> legacy, ends |-> clock + d, span |-> d]]

-----------------------------------------------------------------------------
(* POST /fault/inject and POST /chaos/experiments *)

BeginInject(w) ==
  /\ Admitted
  /\ \E t \in FaultTypes, d \in Durations : Enter(w, "inj_experiment", {t}, d, {})
  /\ UNCHANGED <<clock, experiment, record, gone, cut>>

\* create_legacy_experiment: SETEX of the experiment document.
InjectExperiment(w) ==
  /\ at[w] = "inj_experiment"
  /\ \A t \in about[w] : PutExperiment(t, TRUE, span[w])
  /\ Advance(w, "inj_record") /\ UNCHANGED <<clock, record, pending, cut>>

\* Mutant: the record lives a second less than its experiment.
InjectRecordShort(w) ==
  /\ at[w] = "inj_record"
  /\ \A t \in about[w] : record' = [record EXCEPT ![t] = clock + span[w] - 1]
  /\ Leave(w) /\ UNCHANGED <<clock, experiment, cut>>

\* SETEX fault:<type> with the experiment's duration.
InjectRecord(w) ==
  /\ at[w] = "inj_record"
  /\ \A t \in about[w] : record' = [record EXCEPT ![t] = clock + span[w]]
  /\ Leave(w) /\ UNCHANGED <<clock, experiment, cut>>

NewExperiment(w) ==
  /\ Admitted /\ at[w] = "idle"
  /\ \E t \in FaultTypes, d \in Durations : PutExperiment(t, FALSE, d)
  /\ UNCHANGED <<clock, record, faultLocals, gone, cut>>

-----------------------------------------------------------------------------
(* /fault/clear, /fault/clear-all and /chaos/experiments/<id>/stop *)

OfTypes(types) == {e \in FaultIds : IsRunning(e) /\ experiment[e].type \in types}

BeginClear(w) ==
  /\ Admitted
  /\ \E types \in {{t} : t \in FaultTypes} \union {FaultTypes} :
       Enter(w, "clear_delete", types, 0, OfTypes(types))
  /\ UNCHANGED <<clock, experiment, record, gone, cut>>

\* DEL of the records.
ClearDelete(w) ==
  /\ at[w] = "clear_delete"
  /\ record' = [t \in FaultTypes |-> IF t \in about[w] THEN 0 ELSE record[t]]
  /\ Advance(w, "list") /\ UNCHANGED <<clock, experiment, pending, cut>>

\* Mutant: only the experiments of the legacy API are stopped.
ListToStopLegacy(w) ==
  /\ at[w] = "list"
  /\ pending' = [pending EXCEPT ![w] = {e \in OfTypes(about[w]) : experiment[e].legacy}]
  /\ Advance(w, "stop") /\ UNCHANGED <<clock, experiment, record, cut>>

\* stop_legacy_fault and stop_all_experiments list the running experiments,
\* whoever created them.
ListToStop(w) ==
  /\ at[w] = "list"
  /\ pending' = [pending EXCEPT ![w] = OfTypes(about[w])]
  /\ Advance(w, "stop") /\ UNCHANGED <<clock, experiment, record, cut>>

\* stop_experiment for one id: GET, and SETEX of the stopped document when
\* there was one.  (ChaosExperiments looks between the two.)
StopOne(w) ==
  /\ at[w] = "stop"
  /\ \E e \in pending[w] :
       /\ pending' = [pending EXCEPT ![w] = @ \ {e}]
       /\ experiment' = IF experiment[e].state = "absent" THEN experiment
                        ELSE [experiment EXCEPT ![e].state = "stopped", ![e].ends = 0]
  /\ UNCHANGED <<clock, record, at, about, span, reach, gone, cut>>

StopsDone(w) ==
  /\ at[w] = "stop" /\ pending[w] = {}
  /\ Leave(w) /\ UNCHANGED <<clock, experiment, record, cut>>

StopById(w) ==
  /\ Admitted /\ at[w] = "idle"
  /\ \E e \in FaultIds :
       /\ experiment[e].state # "absent"
       /\ experiment' = [experiment EXCEPT ![e].state = "stopped", ![e].ends = 0]
  /\ UNCHANGED <<clock, record, faultLocals, gone, cut>>

-----------------------------------------------------------------------------
(* before_request of an ordinary request *)

\* apply_legacy_faults: "exception" when a legacy experiment of that type
\* runs.  The other actions end the request without a further command.
HitsLegacy(e) == IsRunning(e) /\ experiment[e].legacy /\ experiment[e].type = "exception"

RequestHitsFault(w) ==
  /\ \E e \in FaultIds : HitsLegacy(e)
  /\ Enter(w, "get_fault", {"exception"}, 0, {})
  /\ UNCHANGED <<clock, experiment, record, gone, cut>>

\* get_fault: the record's parameters, or the end of every experiment of the
\* type when there is no record.
GetFault(w) ==
  /\ at[w] = "get_fault"
  /\ \/ /\ HasRecord("exception")
        /\ Leave(w)
     \/ /\ ~HasRecord("exception")
        /\ Advance(w, "list") /\ UNCHANGED pending
  /\ UNCHANGED <<clock, experiment, record, cut>>

\* The worker process dies in the middle of a handler (bound: once).
FaultCrash(w) ==
  /\ at[w] # "idle" /\ cut = {}
  /\ cut' = cut \union about[w]
  /\ at' = [at EXCEPT ![w] = "idle"] /\ about' = [about EXCEPT ![w] = {}]
  /\ span' = [span EXCEPT ![w] = 0] /\ reach' = [reach EXCEPT ![w] = {}]
  /\ pending' = [pending EXCEPT ![w] = {}]
  /\ UNCHANGED <<clock, experiment, record, gone>>

\* A second passes; Redis drops the keys whose TTL has ended.
FaultTick ==
  /\ clock < FaultClockEnd
  /\ clock' = clock + 1
  /\ experiment' = [e \in FaultIds |->
       IF IsRunning(e) /\ experiment[e].ends <= clock'
       THEN [experiment[e] EXCEPT !.state = "absent", !.ends = 0] ELSE experiment[e]]
  /\ record' = [t \in FaultTypes |-> IF record[t] <= clock' THEN 0 ELSE record[t]]
  /\ UNCHANGED <<faultLocals, gone, cut>>

FaultStep(w) ==
  \/ InjectExperiment(w) \/ InjectRecord(w) \/ ClearDelete(w)
  \/ ListToStop(w) \/ StopOne(w) \/ StopsDone(w) \/ GetFault(w)

FaultNext ==
  \/ \E w \in FaultWorkers :
       \/ BeginInject(w) \/ NewExperiment(w) \/ BeginClear(w) \/ StopById(w)
       \/ RequestHitsFault(w) \/ FaultStep(w) \/ FaultCrash(w)
  \/ FaultTick

FaultSpec == FaultInit /\ [][FaultNext]_faultVars

-----------------------------------------------------------------------------
(* PROPERTIES *)

\* The documents, the records and the workers' locals have their shape.
FaultTypeOK ==
  /\ clock \in 0 .. FaultClockEnd
  /\ experiment \in [FaultIds -> [state : {"absent", "running", "stopped"}, type : FaultTypes,
                                  legacy : BOOLEAN, ends : Nat, span : Nat]]
  /\ record \in [FaultTypes -> Nat]
  /\ at \in [FaultWorkers -> {"idle", "inj_experiment", "inj_record", "clear_delete",
                              "list", "stop", "get_fault"}]
  /\ about \in [FaultWorkers -> SUBSET FaultTypes] /\ span \in [FaultWorkers -> Nat]
  /\ pending \in [FaultWorkers -> SUBSET FaultIds] /\ reach \in [FaultWorkers -> SUBSET FaultIds]
  /\ gone \subseteq FaultIds /\ cut \subseteq FaultTypes

\* When a clear has returned, none of the experiments that ran when it began
\* runs again, whatever injections, requests and other clears came in between.
ClearTakesHold == \A e \in gone : ~IsRunning(e)

Busy(t)   == \E w \in FaultWorkers : at[w] # "idle" /\ t \in about[w]
Uneven(t) == \E e, f \in FaultIds : /\ experiment[e].legacy /\ experiment[f].legacy
                                    /\ experiment[e].type = t /\ experiment[f].type = t
                                    /\ experiment[e].span # experiment[f].span

\* get_fault ends every experiment of a type when fault:<type> is missing, so
\* a running legacy fault must have its record.  It has, except while a handler
\* for its type is under way or was cut short by a crash, and except after
\* injections of one type with different durations.
RecordCoversFault ==
  \A e \in FaultIds :
    LET t == experiment[e].type IN
    IsRunning(e) /\ experiment[e].legacy /\ ~Busy(t) /\ t \notin cut /\ ~Uneven(t)
      => record[t] >= experiment[e].ends
=============================================================================
