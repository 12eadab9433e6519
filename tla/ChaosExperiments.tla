--------------------------- MODULE ChaosExperiments ---------------------------
(***************************************************************************)
(* chaos_service/chaos: experiments and their reports in Redis, the gauge  *)
(* of active experiments, and the requests that experiments act on.  A     *)
(* worker serves one HTTP call: create, list, show, stop, stop-all, or an  *)
(* ordinary request.  One action is one Redis command with the Python code *)
(* up to the next one.                                                     *)
(*                                                                         *)
(* A report is never updated in place: every writer reads the whole        *)
(* document, changes its copy and writes the whole document back.  All     *)
(* these read-modify-write pairs share the second half, SaveReport.        *)
(***************************************************************************)
EXTENDS Integers, FiniteSets

CONSTANTS
  Workers,       \* the HTTP calls of a behaviour
  Experiments,   \* experiment ids (a fresh uuid each)
  NoExperiment,
  Duration,      \* experiment.duration
  BufferSec,     \* _REPORT_TTL_BUFFER_SEC
  MaxTime,       \* bound: the clock stops here
  MaxInjections  \* bound: injections per experiment

\* chaos_create_experiment refuses a duration below a second.
ASSUME DurationAssumption == Duration \in Nat \ {0} /\ BufferSec \in Nat \ {0}

ASSUME SetsAssumption == NoExperiment \notin Experiments /\ IsFiniteSet(Workers)

ASSUME BoundsAssumption == MaxTime \in Nat /\ MaxInjections \in Nat

VARIABLES
  now,      \* the wall clock
  exp,      \* chaos:experiment:<id>
  report,   \* chaos:report:<id>
  gauge,    \* chaos_active_experiment, the share of each experiment
  pc, op,   \* where each call is, and what it does
  tgt,      \* the experiment a call is working on
  todo,     \* the ids its loop has still to visit
  matched,  \* _chaos_experiments of a request; the ids a stop or a show is about
  copy,     \* the report document a call has read and changed
  ret,      \* where the call goes on after it has saved the copy
  clk,      \* the clock reading of each call
  failed,   \* the response of a request is 5xx
  seen,     \* history: what was really observed of each experiment
  excused,  \* auxiliary: experiments with overlapping writers, settled twice,
            \*   or settled without the metrics
  ended     \* auxiliary: experiments that had ended when a call began

locals == <<op, tgt, todo, matched, copy, ret, clk, failed, ended>>
vars   == <<now, exp, report, gauge, pc, locals, seen, excused>>

-----------------------------------------------------------------------------
Counters == {"injected", "fallbacks", "requests", "errors"}
Ops      == {"create", "list", "show", "stop", "stop_all", "request"}
PC       == {"new", "create_exp", "create_report", "create_count",
             "sweep_keys", "sweep", "list_keys", "list", "breaker", "service",
             "raised", "fallback", "respond", "stop", "stop_save", "recover",
             "show", "show_report", "show_check", "save", "done"}

NoExp    == [status |-> "absent", exp |-> 0]
NoReport == [live |-> FALSE, recovered |-> FALSE, created |-> 0, exp |-> 0,
             counts |-> [c \in Counters |-> 0]]

Running(e) == exp[e].status = "running"
Ended(e)   == /\ seen[e]["created"] > 0 /\ ~Running(e)
              /\ \A w \in Workers : ~(tgt[w] = e /\ pc[w] = "create_exp")

Init ==
  /\ now = 0
  /\ exp = [e \in Experiments |-> NoExp]
  /\ report = [e \in Experiments |-> NoReport]
  /\ gauge = [e \in Experiments |-> 0]
  /\ pc = [w \in Workers |-> "new"] /\ op = [w \in Workers |-> "request"]
  /\ tgt = [w \in Workers |-> NoExperiment]
  /\ todo = [w \in Workers |-> {}] /\ matched = [w \in Workers |-> {}]
  /\ copy = [w \in Workers |-> NoReport] /\ ret = [w \in Workers |-> "done"]
  /\ clk = [w \in Workers |-> 0] /\ failed = [w \in Workers |-> FALSE]
  /\ seen = [e \in Experiments |-> [c \in Counters \union {"created"} |-> 0]]
  /\ excused = {}
  /\ ended = [w \in Workers |-> {}]

Goto(w, label) == pc' = [pc EXCEPT ![w] = label]
Set(f, w, v)   == [f EXCEPT ![w] = v]

-----------------------------------------------------------------------------
(* The shared halves of every read-modify-write of a report. *)

\* The call has read report e and holds the changed document new.
Hold(w, e, new, after) ==
  /\ copy' = Set(copy, w, new) /\ tgt' = Set(tgt, w, e)
  /\ ret' = Set(ret, w, after)
  /\ Goto(w, "save")

Recovered(e) == [report[e] EXCEPT !.recovered = TRUE]

\* record_report_recovered_metrics: the gauge is decremented, whatever the
\* report says.
Settle(e) == gauge' = [gauge EXCEPT ![e] = @ - 1]

\* Mutant: a 5xx response is counted under errors only.
BumpErrorsOnly(e, what) ==
  [report[e] EXCEPT !.counts = [c \in Counters |->
     IF c \in what /\ ~(c = "requests" /\ "errors" \in what) THEN @[c] + 1 ELSE @[c]]]

\* record_injected, record_fallback, record_response: the document with the
\* counters of `what` incremented.
Bump(e, what) ==
  [report[e] EXCEPT !.counts = [c \in Counters |->
     IF c \in what THEN @[c] + 1 ELSE @[c]]]

\* The read half of record_injected / record_fallback / record_response; a
\* missing report is skipped.
Observe(w, e, what, after) ==
  /\ seen' = [seen EXCEPT ![e] = [c \in DOMAIN @ |-> IF c \in what THEN @[c] + 1 ELSE @[c]]]
  /\ IF report[e].live THEN Hold(w, e, Bump(e, what), after)
     ELSE Goto(w, after) /\ UNCHANGED <<copy, tgt, ret>>

\* save_report: SETEX of the whole document, with a fresh TTL.
SaveReport(w) ==
  /\ pc[w] = "save"
  /\ report' = [report EXCEPT ![tgt[w]] =
       [copy[w] EXCEPT !.live = TRUE, !.exp = now + Duration + BufferSec]]
  /\ excused' = IF \E v \in Workers \ {w} : pc[v] = "save" /\ tgt[v] = tgt[w]
                 THEN excused \union {tgt[w]} ELSE excused
  /\ Goto(w, ret[w])
  /\ UNCHANGED <<now, exp, gauge, locals, seen>>

-----------------------------------------------------------------------------
(* create_experiment: two SETEX, then record_created. *)

\* A call begins: what it does, about which experiments, its clock reading.
Begin(w, o, about, label) ==
  /\ pc[w] = "new"
  /\ op' = Set(op, w, o) /\ matched' = Set(matched, w, about) /\ clk' = Set(clk, w, now)
  /\ ended' = Set(ended, w, {e \in Experiments : Ended(e)})
  /\ Goto(w, label)
  /\ UNCHANGED <<now, exp, report, gauge, copy, ret, failed, excused>>

BeginCreate(w, e) ==
  /\ seen[e]["created"] = 0
  /\ seen' = [seen EXCEPT ![e]["created"] = 1]
  /\ Begin(w, "create", {e}, "create_exp")
  /\ tgt' = Set(tgt, w, e) /\ UNCHANGED todo

\* Mutant: SET without a TTL.
CreateExperimentNoTtl(w) ==
  /\ pc[w] = "create_exp"
  /\ exp' = [exp EXCEPT ![tgt[w]] = [status |-> "running", exp |-> MaxTime + 1]]
  /\ Goto(w, "create_report")
  /\ UNCHANGED <<now, report, gauge, locals, seen, excused>>

CreateExperiment(w) ==
  /\ pc[w] = "create_exp"
  /\ exp' = [exp EXCEPT ![tgt[w]] = [status |-> "running", exp |-> now + Duration]]
  /\ Goto(w, "create_report")
  /\ UNCHANGED <<now, report, gauge, locals, seen, excused>>

CreateReport(w) ==
  /\ pc[w] = "create_report"
  /\ report' = [report EXCEPT ![tgt[w]] =
       [NoReport EXCEPT !.live = TRUE, !.created = clk[w], !.exp = now + Duration + BufferSec]]
  /\ Goto(w, "create_count")
  /\ UNCHANGED <<now, exp, gauge, locals, seen, excused>>

RecordCreated(w) ==
  /\ pc[w] = "create_count"
  /\ gauge' = [gauge EXCEPT ![tgt[w]] = @ + 1]
  /\ Goto(w, "done")
  /\ UNCHANGED <<now, exp, report, locals, seen, excused>>

-----------------------------------------------------------------------------
(* finalize_expired_reports, the first thing list, show and a request do. *)

BeginSweep(w, o, about) ==
  Begin(w, o, about, "sweep_keys") /\ UNCHANGED <<tgt, todo, seen>>

SweepKeys(w) ==
  /\ pc[w] = "sweep_keys"
  /\ todo' = Set(todo, w, {e \in Experiments : report[e].live})
  /\ Goto(w, "sweep")
  /\ UNCHANGED <<now, exp, report, gauge, op, tgt, matched, copy, ret, clk, failed, ended,
                 seen, excused>>

\* Mutant: a report that is already recovered is settled again.
DueAgain(w, e) == report[e].live /\ report[e].created + Duration <= clk[w]

\* The report of an experiment whose time is over and that nobody settled.
Due(w, e) == report[e].live /\ ~report[e].recovered /\ report[e].created + Duration <= clk[w]

SweepGet(w, e) ==
  /\ pc[w] = "sweep" /\ e \in todo[w]
  /\ todo' = Set(todo, w, todo[w] \ {e})
  /\ \/ Due(w, e) /\ Settle(e) /\ Hold(w, e, Recovered(e), "sweep")
     \/ ~Due(w, e) /\ UNCHANGED <<gauge, copy, tgt, ret, pc>>
  /\ UNCHANGED <<now, exp, report, op, matched, clk, failed, ended, seen, excused>>

\* A loop of call w is through: it goes on at label with the ids in next.
EndLoop(w, label, next) ==
  /\ todo[w] = {}
  /\ todo' = Set(todo, w, next)
  /\ Goto(w, label)
  /\ UNCHANGED <<now, exp, report, gauge, op, tgt, matched, copy, ret, clk, ended,
                 seen, excused>>

SweepEnd(w) ==
  /\ pc[w] = "sweep"
  /\ EndLoop(w, IF op[w] = "show" THEN "show" ELSE "list_keys", {})
  /\ UNCHANGED failed

-----------------------------------------------------------------------------
(* list_experiments: KEYS, then a GET per key. *)

BeginStopAll(w) == Begin(w, "stop_all", {}, "list_keys") /\ UNCHANGED <<tgt, todo, seen>>

ListKeys(w) ==
  /\ pc[w] = "list_keys"
  /\ todo' = Set(todo, w, {e \in Experiments : exp[e].status # "absent"})
  /\ Goto(w, "list")
  /\ UNCHANGED <<now, exp, report, gauge, op, tgt, matched, copy, ret, clk, failed, ended,
                 seen, excused>>

\* Mutant: the status of the experiment is not looked at.
ActiveAnyStatus(e) == exp[e].status # "absent"

\* list_experiments(include_stopped=False).
Active(e) == exp[e].status = "running"

\* The experiment read is not active or the request does not match it; or it
\* is taken into the list.
ListGet(w, e) ==
  /\ pc[w] = "list" /\ e \in todo[w]
  /\ todo' = Set(todo, w, todo[w] \ {e})
  /\ \/ /\ ~Active(e) \/ op[w] # "stop_all"
        /\ UNCHANGED matched
     \/ /\ Active(e) /\ op[w] # "list"
        /\ matched' = Set(matched, w, matched[w] \union {e})
  /\ UNCHANGED <<now, exp, report, gauge, pc, op, tgt, copy, ret, clk, failed, ended,
                 seen, excused>>

ListEnd(w) ==
  /\ pc[w] = "list"
  /\ \/ op[w] = "request"  /\ EndLoop(w, "breaker", {})
     \/ op[w] = "stop_all" /\ EndLoop(w, "stop", matched[w])
     \/ op[w] = "list"     /\ EndLoop(w, "done", {})
  /\ UNCHANGED failed

-----------------------------------------------------------------------------
(* An ordinary request under the experiments it matched. *)

\* Request w, at this point, may have a fault of experiment e injected.
CanInject(w, e) ==
  /\ op[w] = "request" /\ todo[w] = {} /\ e \in matched[w]
  /\ seen[e]["injected"] < MaxInjections

\* latency and slow_db: record_injected and a delay, before the request is
\* handled or at a store call (whose timeout the retry policy may repeat).
InjectDelay(w, e) ==
  /\ pc[w] \in {"list", "service", "raised"} /\ CanInject(w, e)
  /\ Observe(w, e, {"injected"}, pc[w])
  /\ UNCHANGED <<now, exp, report, gauge, op, todo, matched, clk, failed, ended, excused>>

\* drop and exception: record_injected, then the request ends in 503 or 500.
InjectRaise(w, e) ==
  /\ pc[w] = "service" /\ CanInject(w, e)
  /\ Observe(w, e, {"injected"}, "raised")
  /\ failed' = Set(failed, w, TRUE)
  /\ UNCHANGED <<now, exp, report, gauge, op, todo, matched, clk, ended, excused>>

\* The breaker rejects the order: record_fallback for every matched experiment.
Reject(w) ==
  /\ pc[w] = "breaker"
  /\ EndLoop(w, "fallback", matched[w])
  /\ UNCHANGED failed

RecordFallback(w, e) ==
  /\ pc[w] = "fallback" /\ e \in todo[w]
  /\ todo' = Set(todo, w, todo[w] \ {e})
  /\ Observe(w, e, {"fallbacks"}, "fallback")
  /\ UNCHANGED <<now, exp, report, gauge, op, matched, clk, failed, ended, excused>>

Admit(w) ==
  /\ pc[w] = "breaker"
  /\ EndLoop(w, "service", {})
  /\ UNCHANGED failed

\* after_request: the status code is known.
Respond(w) ==
  \/ /\ pc[w] \in {"fallback", "raised"}
     /\ EndLoop(w, "respond", matched[w])
     /\ UNCHANGED failed
  \/ /\ pc[w] = "service"
     /\ EndLoop(w, "respond", matched[w])
     /\ \E bad \in BOOLEAN : failed' = Set(failed, w, bad)

RecordResponse(w, e) ==
  /\ pc[w] = "respond" /\ e \in todo[w]
  /\ todo' = Set(todo, w, todo[w] \ {e})
  /\ Observe(w, e, IF failed[w] THEN {"requests", "errors"} ELSE {"requests"}, "respond")
  /\ UNCHANGED <<now, exp, report, gauge, op, matched, clk, failed, ended, excused>>

RespondEnd(w) ==
  /\ pc[w] = "respond"
  /\ EndLoop(w, "done", {})
  /\ UNCHANGED failed

-----------------------------------------------------------------------------
(* stop_experiment, for one id or for all that were listed. *)

BeginStop(w, e) ==
  /\ Begin(w, "stop", {e}, "stop")
  /\ todo' = Set(todo, w, {e})
  /\ UNCHANGED <<tgt, seen>>

StopGet(w, e) ==
  /\ pc[w] = "stop" /\ e \in todo[w]
  /\ todo' = Set(todo, w, todo[w] \ {e})
  /\ \/ exp[e].status = "absent" /\ UNCHANGED <<pc, tgt>>
     \/ exp[e].status # "absent" /\ Goto(w, "stop_save") /\ tgt' = Set(tgt, w, e)
  /\ UNCHANGED <<now, exp, report, gauge, op, matched, copy, ret, clk, failed, ended,
                 seen, excused>>

\* Mutant: a status no reader knows.
StopSaveUnknown(w) ==
  /\ pc[w] = "stop_save"
  /\ exp' = [exp EXCEPT ![tgt[w]] = [status |-> "finished", exp |-> now + BufferSec]]
  /\ Goto(w, "recover")
  /\ UNCHANGED <<now, report, gauge, locals, seen, excused>>

\* SETEX with the buffer as TTL, even if the key has expired since the GET.
StopSave(w) ==
  /\ pc[w] = "stop_save"
  /\ exp' = [exp EXCEPT ![tgt[w]] = [status |-> "stopped", exp |-> now + BufferSec]]
  /\ Goto(w, "recover")
  /\ UNCHANGED <<now, report, gauge, locals, seen, excused>>

\* record_recovered, up to its save_report.
RecordRecovered(w) ==
  /\ pc[w] = "recover"
  /\ LET e == tgt[w] IN
     \/ ~report[e].live /\ Goto(w, "stop") /\ UNCHANGED <<gauge, copy, tgt, ret, excused>>
     \/ /\ report[e].live
        /\ Settle(e)
        /\ Hold(w, e, Recovered(e), "stop")
        /\ excused' = IF report[e].recovered THEN excused \union {e} ELSE excused
  /\ UNCHANGED <<now, exp, report, op, todo, matched, clk, failed, ended, seen>>

StopEnd(w) ==
  /\ pc[w] = "stop"
  /\ EndLoop(w, "done", {})
  /\ UNCHANGED failed

-----------------------------------------------------------------------------
(* GET /chaos/experiments/<id>: get_experiment, then build_report. *)

ShowExperiment(w) ==
  /\ pc[w] = "show"
  /\ \E e \in matched[w] :
       Goto(w, IF exp[e].status = "absent" THEN "done" ELSE "show_report")
  /\ UNCHANGED <<now, exp, report, gauge, locals, seen, excused>>

ShowReport(w) ==
  /\ pc[w] = "show_report"
  /\ \E e \in matched[w] :
       /\ copy' = Set(copy, w, report[e]) /\ tgt' = Set(tgt, w, e)
       /\ ret' = Set(ret, w, "done")
  /\ Goto(w, "show_check")
  /\ UNCHANGED <<now, exp, report, gauge, op, todo, matched, clk, failed, ended, seen, excused>>

\* An expired experiment is marked recovered, without the metrics.
ShowCheck(w) ==
  /\ pc[w] = "show_check"
  /\ IF copy[w].live /\ ~copy[w].recovered /\ exp[tgt[w]].status = "absent"
       THEN /\ copy' = [copy EXCEPT ![w].recovered = TRUE]
            /\ excused' = excused \union {tgt[w]}
            /\ Goto(w, "save")
       ELSE Goto(w, "done") /\ UNCHANGED <<copy, excused>>
  /\ UNCHANGED <<now, exp, report, gauge, op, tgt, todo, matched, ret, clk, failed, ended,
                 seen>>

-----------------------------------------------------------------------------
\* A second passes; Redis drops the keys whose TTL has ended.
Tick ==
  /\ now < MaxTime
  /\ now' = now + 1
  /\ exp' = [e \in Experiments |-> IF exp[e].exp <= now + 1 THEN NoExp ELSE exp[e]]
  /\ report' = [e \in Experiments |-> IF report[e].exp <= now + 1 THEN NoReport ELSE report[e]]
  /\ UNCHANGED <<gauge, pc, locals, seen, excused>>

Step(w) ==
  \/ SaveReport(w)
  \/ CreateExperiment(w) \/ CreateReport(w) \/ RecordCreated(w)
  \/ SweepKeys(w) \/ SweepEnd(w) \/ ListKeys(w) \/ ListEnd(w)
  \/ Reject(w) \/ Admit(w) \/ Respond(w) \/ RespondEnd(w)
  \/ StopSave(w) \/ RecordRecovered(w) \/ StopEnd(w)
  \/ ShowExperiment(w) \/ ShowReport(w) \/ ShowCheck(w)
  \/ \E e \in Experiments :
       \/ SweepGet(w, e) \/ ListGet(w, e) \/ InjectDelay(w, e) \/ InjectRaise(w, e)
       \/ RecordFallback(w, e) \/ RecordResponse(w, e) \/ StopGet(w, e)

Arrive(w) ==
  \/ BeginStopAll(w)
  \/ BeginSweep(w, "request", {}) \/ BeginSweep(w, "list", {})
  \/ \E e \in Experiments :
       BeginCreate(w, e) \/ BeginStop(w, e) \/ BeginSweep(w, "show", {e})

Next == Tick \/ \E w \in Workers : Arrive(w) \/ Step(w)

Spec == Init /\ [][Next]_vars

\* Time passes.
FairSpec == Spec /\ WF_vars(Tick)

-----------------------------------------------------------------------------
(* PROPERTIES *)

Reports == [live : BOOLEAN, recovered : BOOLEAN, created : Nat, exp : Nat,
            counts : [Counters -> Nat]]
ExpDocs == [status : {"absent", "running", "stopped"}, exp : Nat]

\* The shape of the documents in Redis, the gauge and the calls.
TypeOK ==
  /\ now \in Nat
  /\ exp \in [Experiments -> ExpDocs]
  /\ report \in [Experiments -> Reports]
  /\ gauge \in [Experiments -> Int]
  /\ pc \in [Workers -> PC] /\ op \in [Workers -> Ops]
  /\ tgt \in [Workers -> Experiments \union {NoExperiment}]
  /\ todo \in [Workers -> SUBSET Experiments] /\ matched \in [Workers -> SUBSET Experiments]
  /\ copy \in [Workers -> Reports] /\ ret \in [Workers -> PC]
  /\ clk \in [Workers -> Nat] /\ failed \in [Workers -> BOOLEAN]
  /\ seen \in [Experiments -> [Counters \union {"created"} -> Nat]]
  /\ excused \subseteq Experiments
  /\ ended \in [Workers -> SUBSET Experiments]

\* A report never claims more than was observed, and its error rate never
\* exceeds 1, although concurrent read-modify-writes lose updates and a late
\* save brings an expired report back.
SoundFor(doc, e) ==
  /\ \A c \in Counters : doc.counts[c] <= seen[e][c]
  /\ doc.counts["errors"] <= doc.counts["requests"]
ReportSound == \A e \in Experiments : SoundFor(report[e], e)

\* No call is between the metrics and the write that settle report e.
Quiet(e) == \A w \in Workers :
  tgt[w] = e => /\ pc[w] # "create_count"
                /\ pc[w] = "save" => copy[w].recovered = report[e].recovered

\* The gauge counts an experiment once from its creation until its report is
\* recovered by a stop or a sweep, provided that no two writers of the report
\* overlapped, that nobody stopped it again and that build_report did not
\* settle it.
GaugeAccurate ==
  \A e \in Experiments \ excused :
    report[e].live /\ Quiet(e) => gauge[e] = IF report[e].recovered THEN 0 ELSE 1

\* Once an experiment has been stopped or has expired, no request that arrives
\* later is put under it, however late the stop's write comes and whoever
\* reads the list meanwhile.
EndedStaysOff ==
  \A w \in Workers : op[w] = "request" => matched[w] \intersect ended[w] = {}

\* Every experiment ends by itself, also when nobody stops it or the stopping
\* call dies half way (the antecedent leaves room for one duration).
AutoRecovers ==
  \A e \in Experiments : (Running(e) /\ now + Duration <= MaxTime) ~> ~Running(e)

\* What the help text of chaos_active_experiment says: the current number of
\* active experiments, so never a negative share.
ActiveGaugeCounts == \A e \in Experiments : gauge[e] >= 0 \/ ~Quiet(e)
=============================================================================
