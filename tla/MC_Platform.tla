------------------------------ MODULE MC_Platform ------------------------------
(***************************************************************************)
(* The agent platform, one evaluation of the agent and the report          *)
(* pipeline in one run.  They share no variable: a behaviour is of one of  *)
(* the three, chosen at the start, and their states are added.             *)
(***************************************************************************)
EXTENDS AgentPlatform, AgentEvaluation, ReportPipeline

VARIABLE part

allVars == <<part, platformVars, evaluationVars, pipelineVars>>

-----------------------------------------------------------------------------
(* The platform's configurations *)

OpenPolicy ==
  [enabled |-> TRUE, permission |-> TRUE, injection |-> TRUE, blockInput |-> TRUE,
   blockInjection |-> TRUE, blocked |-> {}, allowed |-> {}, role |-> "none",
   roleBlocked |-> {}, roleAllowed |-> {}]

FullConfig ==
  [observe |-> TRUE, evaluate |-> FALSE, gated |-> FALSE, workflow |-> TRUE,
   guarded |-> TRUE, policy |-> OpenPolicy]

\* Lenient checks with a blocked tool; all off; evaluated and gated without a
\* workflow; lists that meet; lists that do not; a role the policy lacks; and
\* blocked tools with an executor that was not given the policy.
SampleConfigs ==
  {[FullConfig EXCEPT !.policy.blockInput = FALSE, !.policy.blockInjection = FALSE,
                      !.policy.blocked = {"cancel_order"}],
   [FullConfig EXCEPT !.observe = FALSE, !.policy.enabled = FALSE],
   [FullConfig EXCEPT !.workflow = FALSE, !.evaluate = TRUE, !.gated = TRUE],
   [FullConfig EXCEPT !.evaluate = TRUE, !.policy.role = "known",
                      !.policy.roleBlocked = {"place_order"},
                      !.policy.allowed = {"place_order", "query_order"},
                      !.policy.roleAllowed = {"place_order", "cancel_order"}],
   [FullConfig EXCEPT !.observe = FALSE, !.policy.role = "known",
                      !.policy.allowed = {"query_order"},
                      !.policy.roleAllowed = {"place_order"}],
   [FullConfig EXCEPT !.policy.role = "unknown"],
   [FullConfig EXCEPT !.guarded = FALSE, !.policy.blocked = {"place_order", "query_order"}]}

SamplePlans == {<<"place_order", "cancel_order">>, <<"query_order">>}

-----------------------------------------------------------------------------
(* The evaluation's suites *)

SamplePolicy == [OpenPolicy EXCEPT !.roleBlocked = {"cancel_order"}]

EvalCase(text, expected, hasArgs, category, role, denies) ==
  [text |-> text, expected |-> expected, hasArgs |-> hasArgs, category |-> category,
   role |-> role, denied |-> denies]

SampleSuites ==
  {<<EvalCase({"place", "args"}, <<"place_order">>, TRUE, "normal", "", {}),
     EvalCase({"query", "cancel", "id"}, <<"cancel_order", "query_order">>, TRUE,
              "permission", "known", {"cancel_order"})>>,
   <<EvalCase({"attack", "query"}, Ask, FALSE, "attack", "", {}),
     EvalCase({"refund", "id"}, <<"cancel_order">>, TRUE, "normal", "", {})>>}

SampleLlmPlans == {<<"place_order">>, <<"query_order", "cancel_order">>}

-----------------------------------------------------------------------------
(* The pipeline's measurements and settings *)

\* Of a hundred requests some are queued, some limited and some fail.
Sample(p95, errors) ==
  RunBenchmark([s \in {201, 202, 429, 503} |->
                  CASE s = 202 -> 10 [] s = 429 -> 5 [] s = 503 -> errors [] OTHER -> 85 - errors],
               p95, p95 + 100)
SampleRuns == {Sample(100, 0), Sample(130, 6)}

\* A service that is down, and one whose answers to the probes are refusals.
SampleWorlds ==
  {[healthy |-> h, probe |-> [class |-> 4, dbSignal |-> FALSE, echo |-> TRUE],
    pathBroken |-> FALSE, leak |-> FALSE] : h \in BOOLEAN}

GoodScore ==
  [tool |-> 95, arg |-> 90, calls |-> 20, retry |-> 5, hallucination |-> 0, invalid |-> 0,
   tokens |-> 100, maxTokens |-> 200, p99Tokens |-> 180, failTokens |-> None,
   retryTokens |-> 150, plainTokens |-> 90, retryCases |-> 5]
PoorScore ==
  [GoodScore EXCEPT !.tool = 80, !.retry = 40, !.tokens = 160, !.failTokens = 200,
                    !.retryTokens = 300, !.hallucination = 6]
SampleScores == {GoodScore, PoorScore}

SampleSettings ==
  {[trend |-> strict, trendRequired |-> strict, securityRequired |-> strict,
    skipAgent |-> ~strict, attempts |-> IF strict THEN 2 ELSE 1] : strict \in BOOLEAN}

\* A definition that leaves one tolerance to its default, and one without a
\* floor that has to be there.
SampleDefinition ==
  [unknownKeys |-> FALSE, version |-> 1, mode |-> "rule", chaos |-> "mixed",
   floor |-> [tool |-> 85, arg |-> 80, retry |-> 20],
   tolerance |-> [tokenSurge |-> 40, retrySurge |-> 30]]
SampleDefinitions ==
  {SampleDefinition, [SampleDefinition EXCEPT !.floor = [tool |-> 85, arg |-> 80]]}

\* An empty directory, and one with good reports of an earlier day.
NoReports == [a \in Artifacts |-> NoFile]
GoodReports ==
  LET runs2 == SummarizeRuns(<<Sample(100, 0), Sample(100, 0)>>)
  IN  [NoReports EXCEPT
         !["benchmark"] = [at |-> 0, baseline |-> runs2, protected |-> runs2],
         !["security"] = [at |-> 0, highest |-> 0],
         !["raw"] = [at |-> 0, metrics |-> GoodScore],
         !["score"] = [at |-> 0, metrics |-> GoodScore],
         !["compare"] = [at |-> 0, of |-> 0, base |-> GoodScore, chaos |-> GoodScore,
                         failed |-> {}]]
SampleReports == {NoReports, GoodReports}

-----------------------------------------------------------------------------
AllInit ==
  /\ part \in {"agent", "evaluation", "reports"}
  /\ PlatformInit /\ EvaluationInit /\ PipelineInit
  /\ part # "reports" => files = NoReports

AllNext ==
  /\ UNCHANGED part
  /\ \/ part = "agent" /\ PlatformNext /\ UNCHANGED <<evaluationVars, pipelineVars>>
     \/ part = "evaluation" /\ EvaluationNext /\ UNCHANGED <<platformVars, pipelineVars>>
     \/ part = "reports" /\ PipelineNext /\ UNCHANGED <<platformVars, evaluationVars>>

AllSpec == AllInit /\ [][AllNext]_allVars
=============================================================================
