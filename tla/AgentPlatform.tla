----------------------------- MODULE AgentPlatform -----------------------------
(***************************************************************************)
(* One process of the agent platform (ai_platform): the service singleton, *)
(* its runs through security check, workflow, tools, evaluation and gate,  *)
(* and the global collector and logger every run writes to.                *)
(*                                                                         *)
(* agent_run is a coroutine that never awaits, so the runs of a process    *)
(* follow one another; what they share is what an earlier run left behind. *)
(* A process may build a service again (demos and tests do), with          *)
(* observability on in one and off in another.  A trace has the number of  *)
(* the run that started it.                                                *)
(***************************************************************************)
EXTENDS AgentSecurity, FiniteSets

CONSTANTS
  Configs,      \* the configurations a service may be built with; "guarded":
                \* the executor of its workflow's ToolNode was given the policy
  RunPlans,     \* the plans a planner may return, as sequences of tools
  RunRetries,   \* AGENT_MAX_RETRY
  MaxRuns       \* bound: runs of the process

ASSUME PlatformAssumption ==
  /\ Configs \subseteq [observe : BOOLEAN, evaluate : BOOLEAN, gated : BOOLEAN,
                         workflow : BOOLEAN, guarded : BOOLEAN, policy : Policy]
  /\ RunPlans \subseteq Seq(Tools) /\ << >> \notin RunPlans
  /\ RunRetries \in Nat /\ MaxRuns \in Nat

VARIABLES
  service,   \* ai_platform_api._service, or NoService
  collector, \* the global Collector: active trace, and of each trace its open
             \* spans, the runs that wrote to it and the agent events it holds
  gauge,     \* the gauge agent.running
  logId,     \* the logger's default trace id, 0 for None
  run,       \* the run in progress, or NoRun
  result,    \* the PlatformResult of the last run, or NoResult
  runs,      \* how many runs the process has started
  observed,  \* history: the runs made with observability on
  blocked,   \* history: those of them the input check blocked
  denied     \* history: the tool spans of calls that were not permitted

platformVars ==
  <<service, collector, gauge, logId, run, result, runs, observed, blocked, denied>>

NoService == [kind |-> "no service"]
NoRun == [pc |-> "idle"]
NoResult == [kind |-> "no result"]
NoTrace == 0

RunIds == 1 .. MaxRuns
NoSpan == [open |-> {}, by |-> {}, events |-> {}]
NewCollector == [active |-> NoTrace, trace |-> [t \in RunIds |-> NoSpan]]

PlatformInit ==
  /\ service = NoService
  /\ collector = NewCollector
  /\ gauge = 0
  /\ logId = NoTrace
  /\ run = NoRun
  /\ result = NoResult
  /\ runs = 0
  /\ observed = {}
  /\ blocked = {}
  /\ denied = {}

-----------------------------------------------------------------------------
(* Collector *)

\* Changed form of StartTrace: a trace that is still active stays so.
StartTraceIfNone(c, r) ==
  [c EXCEPT !.active = IF @ = NoTrace THEN r ELSE @, !.trace[r].by = {r}]

\* start_trace: a new trace, active from now on.
StartTrace(c, r) == [c EXCEPT !.active = r, !.trace[r].by = {r}]

\* create_span in the active trace, whosever it is; nothing is recorded when
\* no trace is active.
OpenSpan(c, r, span) ==
  IF c.active = NoTrace THEN c
  ELSE [c EXCEPT !.trace[c.active].open = @ \cup {span},
                 !.trace[c.active].by = @ \cup {r}]

\* Span.finish.
CloseSpan(c, span) ==
  IF c.active = NoTrace THEN c ELSE [c EXCEPT !.trace[c.active].open = @ \ {span}]

\* record: an agent event goes to the run's own trace.
RecordEvent(c, trace, event) ==
  IF trace = NoTrace THEN c ELSE [c EXCEPT !.trace[trace].events = @ \cup {event}]

-----------------------------------------------------------------------------
(* ai_platform_api.get_service, create_platform_service *)

\* A service is built from the environment; a policy file that is refused
\* raises, and the next request tries again.
CreateService(config, file, explicit) ==
  /\ run = NoRun
  /\ service' = IF PolicyRefused(file, explicit) THEN NoService ELSE config
  /\ UNCHANGED <<collector, gauge, logId, run, result, runs, observed, blocked, denied>>

\* PlatformFactory.reset: the collector is dropped, with every metric.
ResetCollector ==
  /\ run = NoRun
  /\ collector' = NewCollector
  /\ gauge' = 0
  /\ UNCHANGED <<service, logId, run, result, runs, observed, blocked, denied>>

\* A span is known by its run, its name and the step of the plan it is of.
NodeSpan(node) == <<run.id, node, 0>>
ToolSpan == <<run.id, Head(run.plan), Len(run.plan)>>

-----------------------------------------------------------------------------
(* AgentRuntime.run_state *)

\* Trace, start event, gauge and logger, when the service observes.
StartRun(text) ==
  /\ run = NoRun /\ service # NoService /\ runs < MaxRuns
  /\ LET r == runs + 1
         trace == IF service.observe THEN r ELSE NoTrace
         started == IF service.observe THEN StartTrace(collector, r) ELSE collector
     IN  /\ runs' = r
         /\ run' = [pc |-> "check", id |-> r, trace |-> trace, text |-> text,
                    status |-> "new", error |-> "", plan |-> << >>, tries |-> 0,
                    sent |-> {}]
         /\ collector' = RecordEvent(started, trace, "start")
         /\ IF service.observe
              THEN gauge' = gauge + 1 /\ logId' = r /\ observed' = observed \cup {r}
              ELSE UNCHANGED <<gauge, logId, observed>>
  /\ result' = NoResult
  /\ UNCHANGED <<service, blocked, denied>>

\* The input check refuses: the trace is finished and the state returned
\* before the block whose "finally" takes the gauge back and clears the logger.
BlockInput ==
  /\ run.pc = "check"
  /\ service.policy.enabled /\ ~CheckInput(service.policy, run.text).passed
  /\ run' = [run EXCEPT !.pc = "report", !.status = "failed", !.error = "SecurityBlockedError"]
  /\ collector' = RecordEvent(collector, run.trace, "block")
  /\ blocked' = blocked \cup ({run.trace} \ {NoTrace})
  /\ UNCHANGED <<service, gauge, logId, result, runs, observed, denied>>

\* _dispatch: without a workflow the state is the result; with one the engine
\* takes its nodes in the router's order, planner, tool, judge.
Dispatch ==
  /\ run.pc = "check"
  /\ service.policy.enabled => CheckInput(service.policy, run.text).passed
  /\ run' = [run EXCEPT !.pc = IF service.workflow THEN "planner" ELSE "end",
                        !.status = "running"]
  /\ collector' = IF service.workflow THEN OpenSpan(collector, run.id, NodeSpan("planner"))
                  ELSE collector
  /\ UNCHANGED <<service, gauge, logId, result, runs, observed, blocked, denied>>

\* PlannerNode.execute: the model's plan or, when it fails, the rule's; an
\* invalid one becomes ask_user.
PlannerNode(plan) ==
  /\ run.pc = "planner"
  /\ run' = [run EXCEPT !.pc = "tool", !.plan = plan]
  /\ collector' = OpenSpan(CloseSpan(collector, NodeSpan("planner")), run.id, NodeSpan("tool"))
  /\ UNCHANGED <<service, gauge, logId, result, runs, observed, blocked, denied>>

-----------------------------------------------------------------------------
(* ToolNode.execute, ToolExecutor.execute, LegacyToolAdapter *)

\* Only an executor that was given the policy checks a tool: the one a ToolNode
\* builds for itself was not, and neither the service nor the runtime hands it
\* over.
Admits(tool) == service.guarded => Permits(service.policy, tool)

\* The next step of the plan opens its span.  A tool that is not admitted is
\* answered at once: the block is recorded in the active trace, whosever it is,
\* and that return leaves the span open.
CallTool ==
  /\ run.pc = "tool" /\ run.plan # << >> /\ run.tries = 0
  /\ LET opened == OpenSpan(collector, run.id, ToolSpan)
     IN  \/ /\ Admits(Head(run.plan))
            /\ collector' = opened
            /\ run' = [run EXCEPT !.pc = "call"]
            /\ UNCHANGED denied
         \/ /\ ~Admits(Head(run.plan))
            /\ collector' = RecordEvent(opened, opened.active, "block")
            /\ run' = [run EXCEPT !.plan = Tail(@)]
            /\ denied' = denied \cup {ToolSpan}
  /\ UNCHANGED <<service, gauge, logId, result, runs, observed, blocked>>

\* One attempt of the tool: the client answers, and place_order may go again.
AttemptTool(o) ==
  /\ run.pc = "call"
  /\ LET tool == Head(run.plan)
         again == MayRetry(tool, o, run.tries, RunRetries)
     IN  /\ run' = IF again THEN [run EXCEPT !.tries = @ + 1, !.sent = @ \cup {tool}]
                   ELSE [run EXCEPT !.pc = "tool", !.tries = 0, !.plan = Tail(@),
                                    !.sent = @ \cup {tool}]
         /\ collector' = IF again THEN collector ELSE CloseSpan(collector, ToolSpan)
  /\ UNCHANGED <<service, gauge, logId, result, runs, observed, blocked, denied>>

\* A tool that is not registered, or refuses its parameters, or raises, is an
\* error result; nothing is sent.
ToolError ==
  /\ run.pc = "call" /\ run.tries = 0
  /\ run' = [run EXCEPT !.pc = "tool", !.plan = Tail(@)]
  /\ collector' = CloseSpan(collector, ToolSpan)
  /\ UNCHANGED <<service, gauge, logId, result, runs, observed, blocked, denied>>

\* The plan is done: the answer is set and the judge node begins.
EndOfPlan ==
  /\ run.pc = "tool" /\ run.plan = << >>
  /\ run' = [run EXCEPT !.pc = "judge"]
  /\ collector' = OpenSpan(CloseSpan(collector, NodeSpan("tool")), run.id, NodeSpan("judge"))
  /\ UNCHANGED <<service, gauge, logId, result, runs, observed, blocked, denied>>

\* JudgeNode.execute.
JudgeNode ==
  /\ run.pc = "judge"
  /\ run' = [run EXCEPT !.pc = "end"]
  /\ collector' = CloseSpan(collector, NodeSpan("judge"))
  /\ UNCHANGED <<service, gauge, logId, result, runs, observed, blocked, denied>>

\* Changed form of NodeRaises: the engine leaves the node's span open.
NodeRaisesSpanOpen ==
  /\ run.pc \in {"planner", "tool", "judge"} /\ run.tries = 0
  /\ run' = [run EXCEPT !.pc = "end", !.status = "failed", !.error = "AgentError"]
  /\ UNCHANGED <<collector, service, gauge, logId, result, runs, observed, blocked, denied>>

\* A node raises: the engine finishes its span with an error and raises
\* again, and run_state turns it into a failed state.
NodeRaises ==
  /\ run.pc \in {"planner", "tool", "judge"} /\ run.tries = 0
  /\ run' = [run EXCEPT !.pc = "end", !.status = "failed", !.error = "AgentError"]
  /\ collector' = CloseSpan(collector, NodeSpan(run.pc))
  /\ UNCHANGED <<service, gauge, logId, result, runs, observed, blocked, denied>>

\* Changed form of FinishRun: the gauge is taken back only on success.
FinishRunOnSuccess ==
  /\ run.pc = "end"
  /\ run' = [run EXCEPT !.pc = "report",
                        !.status = IF @ = "failed" THEN @ ELSE "succeeded"]
  /\ collector' = RecordEvent(collector, run.trace, IF run.status = "failed" THEN "error" ELSE "end")
  /\ IF run.trace # NoTrace /\ run.status # "failed" THEN gauge' = gauge - 1 /\ logId' = NoTrace
     ELSE UNCHANGED <<gauge, logId>>
  /\ UNCHANGED <<service, result, runs, observed, blocked, denied>>

\* The end of run_state and its "finally".
FinishRun ==
  /\ run.pc = "end"
  /\ run' = [run EXCEPT !.pc = "report",
                        !.status = IF @ = "failed" THEN @ ELSE "succeeded"]
  /\ collector' = RecordEvent(collector, run.trace, IF run.status = "failed" THEN "error" ELSE "end")
  /\ IF run.trace # NoTrace THEN gauge' = gauge - 1 /\ logId' = NoTrace
     ELSE UNCHANGED <<gauge, logId>>
  /\ UNCHANGED <<service, result, runs, observed, blocked, denied>>

-----------------------------------------------------------------------------
(* AIPlatformService.run, from the state to the PlatformResult *)

Answer(success, error, trace) ==
  [id |-> run.id, success |-> success, error |-> error, trace |-> trace, sent |-> run.sent]

\* The names EvaluationResult.merge gives the metrics of an evaluator: its own
\* name in front.  The gate asks for the bare ones.
Namespaced(evaluator) == {<<evaluator, m>> : m \in {"tool_selection_accuracy", "retry_rate"}}
MetricNames(evaluators) ==
  UNION {Namespaced(e) : e \in evaluators} \cup {<<"", "security_assessed">>}
GateReads == {<<"", "tool_selection_accuracy">>, <<"", "retry_rate">>}

\* A failed state is an error; a good one carries the id of whatever trace is
\* active, is evaluated (which may raise) and then gated.  QualityGate looks
\* up metrics by their bare names, so what the engine merged fails it.
Report(evaluators, raises) ==
  /\ run.pc = "report"
  /\ LET trace == collector.active
         gateOk == GateReads \subseteq MetricNames(evaluators)
     IN  result' = CASE run.status = "failed" ->
                          Answer(FALSE, IF run.error = "SecurityBlockedError"
                                        THEN "SecurityBlocked" ELSE run.error, NoTrace)
                     [] run.status # "failed" /\ service.evaluate /\ raises ->
                          Answer(FALSE, "EvaluationFailed", trace)
                     [] run.status # "failed" /\ service.evaluate /\ ~raises
                          /\ service.gated /\ ~gateOk ->
                          Answer(FALSE, "EvaluationFailed", trace)
                     [] OTHER -> Answer(TRUE, "", trace)
  /\ run' = NoRun
  /\ UNCHANGED <<service, collector, gauge, logId, runs, observed, blocked, denied>>

-----------------------------------------------------------------------------
PlatformNext ==
  \/ \E c \in Configs, f \in FileStates, explicit \in BOOLEAN :
       CreateService(c, f, explicit)
  \/ ResetCollector
  \/ \E t \in Texts : StartRun(t)
  \/ BlockInput
  \/ Dispatch
  \/ \E plan \in RunPlans : PlannerNode(plan)
  \/ CallTool
  \/ \E o \in HttpOutcomes : AttemptTool(o)
  \/ ToolError
  \/ EndOfPlan
  \/ JudgeNode
  \/ NodeRaises
  \/ FinishRun
  \/ \E evs \in SUBSET {"score"}, raises \in BOOLEAN : Report(evs, raises)

PlatformSpec == PlatformInit /\ [][PlatformNext]_platformVars

-----------------------------------------------------------------------------
(* Properties *)

\* The trace of an observed run that run_state has not returned from.
InFlight == IF run.pc \in {"idle", "report"} THEN {} ELSE {run.trace} \ {NoTrace}
Known == {t \in RunIds : collector.trace[t].by # {}}

\* The gauge agent.running ("Currently running agents") counts the observed
\* run in progress and, for good, every run of this collector whose input was
\* blocked; and the logger keeps a trace id after a run only if that run was
\* blocked (runtime.py:70-82 returns before the "finally" at 117).
OnlyBlockedRunsLeak ==
  /\ gauge = Cardinality((blocked \cap Known) \cup InFlight)
  /\ logId # NoTrace => logId \in blocked \cup InFlight

\* Whatever earlier runs left active, an observed run writes to its own trace
\* and answers with its own id; a trace holds, besides its own run, only what
\* runs without observability wrote (collector.py:42 leaves it active).
TracesAttributed ==
  /\ \A t \in RunIds : collector.trace[t].by \cap observed \subseteq {t}
  /\ result # NoResult /\ result.success /\ result.id \in observed
       => result.trace = result.id

\* Between runs a trace has exactly one of the events that end a run, or none
\* if its input was blocked; the only spans still open are those of denied
\* calls (executor.py:83 returns without finishing them), and a security block
\* is recorded in a trace exactly when its input was blocked or such a span was
\* left in it, by its own run or by a later one without observability.
TracesFinished ==
  run = NoRun =>
    \A t \in Known :
      LET trace == collector.trace[t]
      IN  /\ Cardinality(trace.events \cap {"end", "error"}) = IF t \in blocked THEN 0 ELSE 1
          /\ trace.open \subseteq denied
          /\ "block" \in trace.events <=> t \in blocked \/ trace.open # {}

\* An executor that was given the policy hands to the order service only what
\* the policy's lists allow (permission.py:47-66; two allow-lists that share no
\* tool forbid nothing).  A call denied once is not sent by another step of the
\* run, an executor without the policy (the default of tool_node.py:34) denies
\* nothing, and a run blocked at its input sends nothing (runtime.py:72).
OnlyPermittedSent ==
  /\ run # NoRun /\ service.guarded /\ service.policy.enabled /\ service.policy.permission =>
       \A tool \in run.sent : ListsAllow(service.policy, tool)
  /\ run # NoRun => \A span \in denied :
       span[1] = run.id => service.guarded /\ span[2] \notin run.sent
  /\ result # NoResult /\ result.error = "SecurityBlocked" => result.sent = {}
=============================================================================
