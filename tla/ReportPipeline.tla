----------------------------- MODULE ReportPipeline -----------------------------
(***************************************************************************)
(* The report files of the repository and the programs that write and read *)
(* them: benchmark_compare, security_scan, run_agent_eval and              *)
(* score_agent_eval, chaos_compare, run_experiment, prompt_regression,     *)
(* unified_quality_gate and unified_summary.                               *)
(*                                                                         *)
(* Every program overwrites its own "latest" file and reads whatever the   *)
(* others left there.  The gate, the comparison and the experiment take    *)
(* several steps and may die at any of them; beside the one of these that  *)
(* is running, the others may run and time passes.  A score is its metrics *)
(* (one of Scores); raw results are the metrics they will score to.        *)
(***************************************************************************)
EXTENDS QualityGates

CONSTANTS
  Samples,      \* what one benchmark run may measure
  BenchmarkRuns,\* BENCHMARK_RUNS: runs per side
  Worlds,       \* what a security scan may meet
  Scores,       \* the metrics an evaluation may score to
  Settings,     \* the environments a gate may be started with
  Definitions,  \* the experiment definitions there are, valid or not
  OldReports,   \* the contents the reports directory may start with
  MaxAge,       \* QUALITY_GATE_MAX_REPORT_AGE_SEC
  TrendWindow,  \* BENCHMARK_TREND_WINDOW
  HistoryKeep,  \* BENCHMARK_HISTORY_KEEP
  MaxTime,      \* bound: the clock
  MaxJobs       \* bound: programs started

NoFile == [kind |-> "no file"]
Artifacts == {"benchmark", "trend", "security", "raw", "score", "compare", "prompt",
              "gate", "experiment", "summary"}

ASSUME PipelineAssumption ==
  /\ Settings \subseteq [trend : BOOLEAN, trendRequired : BOOLEAN, securityRequired : BOOLEAN,
                          skipAgent : BOOLEAN, attempts : Nat \ {0}]
  /\ \A files \in OldReports : DOMAIN files = Artifacts
  /\ {MaxAge, MaxTime, MaxJobs} \subseteq Nat
  /\ {BenchmarkRuns, TrendWindow, HistoryKeep} \subseteq Nat \ {0}

VARIABLES
  now,      \* the wall clock
  files,    \* the latest report of each kind, or NoFile
  history,  \* reports/benchmark_history, by file name
  job,      \* the program of several steps that is running, or NoJob
  jobs      \* how many programs have been started

pipelineVars == <<now, files, history, job, jobs>>

NoJob == [kind |-> "no job"]

\* What a comparison started by hand declares.
NoDefinition == [tolerance |-> << >>]

PipelineInit ==
  /\ now = 0
  /\ files \in OldReports
  /\ history = << >>
  /\ job = NoJob
  /\ jobs = 0

\* One more program starts.
Started == jobs < MaxJobs /\ jobs' = jobs + 1

PipelineTick ==
  /\ now < MaxTime
  /\ now' = now + 1
  /\ UNCHANGED <<files, history, job, jobs>>

-----------------------------------------------------------------------------
(* Programs of one step: they write when they are done, or not at all *)

\* benchmark_compare.main, when both services answer /healthz: the history is
\* read, then the report written, archived, and compared with what was read.
Benchmark(base, prot, before) ==
  LET report == [at |-> now, baseline |-> SummarizeRuns(base), protected |-> SummarizeRuns(prot)]
      p95 == report.protected.p95
      n == Len(history)
      window == SubSeq(history, IF n > TrendWindow THEN n - TrendWindow + 1 ELSE 1, n)
      past == [i \in DOMAIN window |-> window[i].p95]
  IN  /\ Started
      /\ before <= n /\ MayLandBefore(history, now, before)
      /\ history' = Archived(history, now, p95, before, HistoryKeep)
      /\ files' = [files EXCEPT !["benchmark"] = report,
                                !["trend"] = TrendReport(p95, past)]
      /\ UNCHANGED <<now, job>>

\* security_scan.main writes its report whatever it found.
SecurityScan(world, contextAware) ==
  /\ Started
  /\ files' = [files EXCEPT !["security"] =
                 [at |-> now, highest |-> Highest(ScanFindings(world, contextAware))]]
  /\ UNCHANGED <<now, history, job>>

\* run_agent_eval.main and score_agent_eval.main, started by hand; scoring
\* needs the raw results of some run.
RunAgentEval(s) ==
  /\ Started
  /\ files' = [files EXCEPT !["raw"] = [at |-> now, metrics |-> s]]
  /\ UNCHANGED <<now, history, job>>

ScoreAgentEval ==
  /\ Started /\ files["raw"] # NoFile
  /\ files' = [files EXCEPT !["score"] = files["raw"]]
  /\ UNCHANGED <<now, history, job>>

\* prompt_regression.main: both arms have raw and score files of their own.
PromptRegression(b, c) ==
  /\ Started
  /\ files' = [files EXCEPT !["prompt"] = [at |-> now, reasons |-> PromptReasons(b, c)]]
  /\ UNCHANGED <<now, history, job>>

-----------------------------------------------------------------------------
(* chaos_compare.py, alone or under run_experiment.py *)

\* "by" is the experiment's definition.  Starting a process takes longer than
\* the clock's resolution.
StartCompare(by) ==
  /\ Started /\ job = NoJob /\ now < MaxTime
  /\ now' = now + 1
  /\ job' = [kind |-> "compare", pc |-> "run", arm |-> "baseline", by |-> by,
             id |-> jobs + 1, started |-> now + 1, base |-> NoFile, chaos |-> NoFile]
  /\ UNCHANGED <<files, history>>

\* run_experiment.main: only a definition that loads starts a comparison; any
\* other ends the program, and the last verdict stays.
StartExperiment(def) == Loads(def) /\ StartCompare(def)

RefuseDefinition(def) ==
  /\ Started /\ ~Loads(def)
  /\ UNCHANGED <<now, files, history, job>>

\* run_one: run_agent_eval, then score_agent_eval; the agent gate's verdict is
\* only noted, and the report is read back from the shared latest file.
CompareRun(s) ==
  /\ job.kind = "compare" /\ job.pc = "run"
  /\ files' = [files EXCEPT !["raw"] = [at |-> now, metrics |-> s]]
  /\ job' = [job EXCEPT !.pc = "score"]
  /\ UNCHANGED <<now, history, jobs>>

CompareScore ==
  /\ job.kind = "compare" /\ job.pc = "score"
  /\ files' = [files EXCEPT !["score"] = files["raw"]]
  /\ job' = [job EXCEPT !.pc = "read"]
  /\ UNCHANGED <<now, history, jobs>>

CompareRead ==
  /\ job.kind = "compare" /\ job.pc = "read"
  /\ job' = IF job.arm = "baseline"
              THEN [job EXCEPT !.pc = "run", !.arm = "chaos", !.base = files["score"].metrics]
              ELSE [job EXCEPT !.pc = "write", !.chaos = files["score"].metrics]
  /\ UNCHANGED <<now, files, history, jobs>>

\* What a process leaves when it ends: nothing more to do, or the experiment
\* that started it.
AfterCompare == IF job.by # NoDefinition THEN [job EXCEPT !.pc = "judge"] ELSE NoJob

CompareWrite ==
  /\ job.kind = "compare" /\ job.pc = "write"
  /\ files' = [files EXCEPT !["compare"] =
                 [at |-> now, of |-> job.id, base |-> job.base, chaos |-> job.chaos,
                  failed |-> FailedSubGates(job.base, job.chaos, EffectiveTolerance(job.by.tolerance))]]
  /\ job' = AfterCompare
  /\ UNCHANGED <<now, history, jobs>>

\* A command of an arm fails or times out (run_cmd raises): the comparison
\* ends without a report, and an experiment goes on to its freshness check.
CompareFails ==
  /\ job.kind = "compare" /\ job.pc \in {"run", "score", "read"}
  /\ job' = AfterCompare
  /\ UNCHANGED <<now, files, history, jobs>>

\* The comparison as a whole overruns run_experiment's own time limit: the
\* child is killed and TimeoutExpired ends the experiment.
ExperimentTimesOut ==
  /\ job.kind = "compare" /\ job.by # NoDefinition /\ job.pc # "judge"
  /\ job' = NoJob
  /\ UNCHANGED <<now, files, history, jobs>>

\* Changed form of Judge: whatever comparison is there is judged.
JudgeAnyReport ==
  /\ job.kind = "compare" /\ job.pc = "judge"
  /\ LET c == files["compare"]
     IN  files' = IF c = NoFile THEN files
                  ELSE [files EXCEPT !["experiment"] =
                          [at |-> now, id |-> job.id, of |-> c.of, def |-> job.by,
                           steady |-> SteadyState(c.base, job.by.floor),
                           pass |-> SteadyState(c.base, job.by.floor) /\ c.failed = {},
                           reasons |-> c.failed \cap ExplainedSubGates]]
  /\ job' = NoJob
  /\ UNCHANGED <<now, history, jobs>>

\* run_experiment.main after the comparison: a report that is missing or older
\* than the experiment is refused and no verdict is written.
Judge ==
  /\ job.kind = "compare" /\ job.pc = "judge"
  /\ LET c == files["compare"]
     IN  files' = IF c = NoFile \/ (c # NoFile /\ c.at < job.started) THEN files
                  ELSE [files EXCEPT !["experiment"] =
                          [at |-> now, id |-> job.id, of |-> c.of, def |-> job.by,
                           steady |-> SteadyState(c.base, job.by.floor),
                           pass |-> SteadyState(c.base, job.by.floor) /\ c.failed = {},
                           reasons |-> c.failed \cap ExplainedSubGates]]
  /\ job' = NoJob
  /\ UNCHANGED <<now, history, jobs>>

-----------------------------------------------------------------------------
(* unified_quality_gate.py *)

Checks == <<"benchmark", "security", "benchmark_trend", "agent_eval">>

StartGate(settings) ==
  /\ Started /\ job = NoJob
  /\ job' = [kind |-> "gate", at |-> 1, try |-> 1, settings |-> settings, began |-> now,
             checks |-> << >>, read |-> << >>]
  /\ UNCHANGED <<now, files, history>>

\* check_report_freshness: neither from the future nor too old.
Fresh(report) == now - report.at \in 0 .. MaxAge

\* What each check says now.  A missing benchmark report is not a
\* QualityGateError: it is a crash.
Verdict(check, settings) ==
  CASE check = "benchmark" ->
         IF files["benchmark"] = NoFile THEN "CRASH"
         ELSE IF Fresh(files["benchmark"]) /\ BenchmarkOk(files["benchmark"]) THEN "PASS" ELSE "FAIL"
    [] check = "security" ->
         IF files["security"] = NoFile
           THEN IF settings.securityRequired THEN "FAIL" ELSE "SKIPPED"
         ELSE IF Fresh(files["security"]) /\ SecurityOk(files["security"].highest)
           THEN "PASS" ELSE "FAIL"
    [] check = "benchmark_trend" ->
         IF ~settings.trend THEN "SKIPPED"
         ELSE IF files["trend"] = NoFile
           THEN IF settings.trendRequired THEN "FAIL" ELSE "SKIPPED"
         ELSE IF ~TrendDecided(files["trend"]) THEN "SKIPPED"
         ELSE IF TrendOk(files["trend"]) THEN "PASS" ELSE "FAIL"
    [] check = "agent_eval" ->
         IF settings.skipAgent THEN "SKIPPED"
         ELSE IF files["score"] = NoFile THEN "FAIL"
         ELSE IF AgentOk(files["score"].metrics) THEN "PASS" ELSE "FAIL"

\* The file each check reads.
Reads(check) == CASE check = "benchmark_trend" -> "trend" [] check = "agent_eval" -> "score"
                  [] OTHER -> check

\* One attempt at the check at hand (run_check_with_retries; agent_eval has a
\* single one).  A failure with attempts left is tried again later.
GateCheck ==
  /\ job.kind = "gate" /\ job.at <= Len(Checks)
  /\ LET check == Checks[job.at]
         verdict == Verdict(check, job.settings)
     IN  /\ verdict # "CRASH"
         /\ job' = IF /\ verdict = "FAIL" /\ check # "agent_eval"
                      /\ job.try < job.settings.attempts
                     THEN [job EXCEPT !.try = @ + 1]
                     ELSE [job EXCEPT !.at = @ + 1, !.try = 1,
                                      !.checks = Append(@, verdict),
                                      !.read = Append(@, files[Reads(check)])]
  /\ UNCHANGED <<now, files, history, jobs>>

\* The crash leaves the document of an earlier gate in place.
GateCrashes ==
  /\ job.kind = "gate" /\ job.at <= Len(Checks)
  /\ Verdict(Checks[job.at], job.settings) = "CRASH"
  /\ job' = NoJob
  /\ UNCHANGED <<now, files, history, jobs>>

\* Changed form of FailedChecks: a check that was skipped hides the one before.
FailedChecksLast(checks) ==
  {Checks[i] : i \in {j \in DOMAIN checks : checks[j] = "FAIL" /\ j = Len(checks)}}

FailedChecks(checks) == {Checks[i] : i \in {j \in DOMAIN checks : checks[j] = "FAIL"}}

GateWrite ==
  /\ job.kind = "gate" /\ job.at > Len(Checks)
  /\ files' = [files EXCEPT !["gate"] =
                 [at |-> now, began |-> job.began, checks |-> job.checks, read |-> job.read,
                  reasons |-> FailedChecks(job.checks),
                  pass |-> FailedChecks(job.checks) = {}]]
  /\ job' = NoJob
  /\ UNCHANGED <<now, history, jobs>>

-----------------------------------------------------------------------------
(* unified_summary.py *)

\* The P95s of the archive got worse this many times in a row, up to the last.
Streak(h) ==
  Cardinality({i \in 2 .. Len(h) : \A j \in i .. Len(h) : h[j].p95 > h[j - 1].p95})

\* _p95_ratio above its warning level; there is none without a positive baseline.
P95Regressed(bench) ==
  /\ bench # NoFile /\ bench.baseline.p95 > 0
  /\ bench.protected.p95 * 100 > bench.baseline.p95 * 110

\* The retry rate of the chaos arm rose above its warning level.
RetriesRose(compare) == compare # NoFile /\ compare.chaos.retry - compare.base.retry > 12

\* The hints that change no decision.
Signals(bench, compare, agent) ==
  {s \in {"retry_explosion", "token_surge", "p95_regression", "hallucination_rate", "retry_rate"} :
     CASE s = "retry_explosion" -> RetriesRose(compare)
       [] s = "token_surge" -> compare # NoFile /\ "token_surge" \in compare.failed
       [] s = "p95_regression" -> P95Regressed(bench)
       [] s = "hallucination_rate" -> agent # NoFile /\ agent.metrics.hallucination >= 5
       [] s = "retry_rate" -> agent # NoFile /\ agent.metrics.retry >= 15}

\* _semantic_eval_status: the agent's check and the prompt regression together.
SemanticOk(failed, prompts) == "agent_eval" \notin failed /\ prompts = {}

\* _build_key_regressions: what the first page lists.
KeyRegressions(failed, compare, prompts) ==
  (failed \cap {"benchmark", "benchmark_trend", "agent_eval"})
    \cup (IF RetriesRose(compare) THEN {"retry"} ELSE {})
    \cup (IF prompts # {} THEN {"prompt"} ELSE {})
    \cup (IF compare # NoFile /\ compare.failed # {} THEN {"tokens"} ELSE {})

\* _build_trend_bullets: a streak of three speaks alone, otherwise a P95 above
\* the median of the history does.
TrendBullets(trend, h) ==
  IF Streak(h) >= 3 THEN {"streak"}
  ELSE {b \in {"above_median"} : trend # NoFile /\ trend.prev # None /\ trend.cur > trend.prev}

\* build_summary: the gate's decision, or PASS without one, turned to FAIL by a
\* failed comparison or prompt regression; no report is too old for it.
Summary ==
  LET gate == files["gate"]
      compare == files["compare"]
      tokens == compare # NoFile /\ compare.failed # {}
      prompts == IF files["prompt"] = NoFile THEN {} ELSE files["prompt"].reasons
      failed == IF gate = NoFile THEN {} ELSE gate.reasons
  IN  [at |-> now,
       pass |-> (gate = NoFile \/ gate.pass) /\ ~tokens /\ prompts = {},
       reasons |-> (failed \X {"gate"}) \cup (prompts \X {"prompt"})
                     \cup (IF tokens THEN {<<"token_black_hole_gate", "compare">>} ELSE {}),
       semantic |-> SemanticOk(failed, prompts),
       signals |-> Signals(files["benchmark"], compare, files["score"]),
       regressions |-> KeyRegressions(failed, compare, prompts),
       trend |-> TrendBullets(files["trend"], history),
       streak |-> Streak(history)]

WriteSummary ==
  /\ Started
  /\ files' = [files EXCEPT !["summary"] = Summary]
  /\ UNCHANGED <<now, history, job>>

-----------------------------------------------------------------------------
\* A program is started, by hand or by a schedule.
StartProgram ==
  \/ \E base, prot \in [1 .. BenchmarkRuns -> Samples], before \in 0 .. HistoryKeep :
       Benchmark(base, prot, before)
  \/ \E world \in Worlds, contextAware \in BOOLEAN : SecurityScan(world, contextAware)
  \/ \E s \in Scores : RunAgentEval(s)
  \/ ScoreAgentEval
  \/ \E b, c \in Scores : PromptRegression(b, c)
  \/ StartCompare(NoDefinition)
  \/ \E def \in Definitions : StartExperiment(def) \/ RefuseDefinition(def)
  \/ \E settings \in Settings : StartGate(settings)
  \/ WriteSummary

\* The program that is running takes its next step.
JobStep ==
  \/ \E s \in Scores : CompareRun(s)
  \/ CompareScore \/ CompareRead \/ CompareWrite \/ CompareFails
  \/ ExperimentTimesOut \/ Judge
  \/ GateCheck \/ GateCrashes \/ GateWrite

PipelineNext ==
  \/ PipelineTick
  \/ jobs < MaxJobs /\ StartProgram
  \/ job # NoJob /\ JobStep

PipelineSpec == PipelineInit /\ [][PipelineNext]_pipelineVars

-----------------------------------------------------------------------------
(* Properties *)

\* What VerdictFromOwnRun says of the files f: an experiment judged its own
\* comparison, and PASS means that every floor and every sub-gate held.
OwnVerdict(f) ==
  LET e == f["experiment"]
  IN  e # NoFile =>
        /\ e.of = e.id
        /\ e.pass /\ f["compare"].of = e.of =>
             /\ SteadyState(f["compare"].base, e.def.floor)
             /\ FailedSubGates(f["compare"].base, f["compare"].chaos,
                               EffectiveTolerance(e.def.tolerance)) = {}

\* What PassRestsOnReports says of the files f, for the gate's document and for
\* the summary.
GateRests(f) ==
  LET g == f["gate"]
      OldEnough(i) == g.at - g.read[i].at <= MaxAge + (g.at - g.began)
  IN  g # NoFile /\ g.pass =>
        /\ g.read[1] # NoFile /\ BenchmarkOk(g.read[1]) /\ OldEnough(1)
        /\ g.checks[2] = "PASS" => SecurityOk(g.read[2].highest) /\ OldEnough(2)
        /\ g.checks[4] = "PASS" => AgentOk(g.read[4].metrics)
        /\ g.read[2] # NoFile => g.checks[2] = "PASS"
SummaryRests(f) == f["summary"] # NoFile => (f["summary"].pass <=> f["summary"].reasons = {})

\* What the directory starts with was left by earlier runs of the same
\* programs: it is dated, older than they are, and as right as what they write.
ASSUME OldReportsAssumption ==
  \A old \in OldReports :
    /\ \A a \in {"benchmark", "security"} : old[a] # NoFile => old[a].at \in Int
    /\ old["compare"] # NoFile =>
         /\ old["compare"].at \in Int /\ old["compare"].at <= 0
         /\ old["compare"].of \in Int /\ old["compare"].of <= 0
    /\ old["experiment"] # NoFile =>
         old["experiment"].id \in Int /\ old["experiment"].id <= 0
    /\ old["gate"] # NoFile => (old["gate"].pass <=> old["gate"].reasons = {})
    /\ OwnVerdict(old) /\ GateRests(old) /\ SummaryRests(old)

\* An experiment's verdict is that of its own comparison: whenever its own
\* failed it writes none, whatever reports earlier jobs left behind
\* (run_experiment.py:195, "绝不能拿历史报告误判"); and PASS means that every
\* steady-state floor and every sub-gate held.
VerdictFromOwnRun == OwnVerdict(files)

\* A decision rests on the reports it names.  The gate passes only on a
\* benchmark and a security report that were good when it read them and not
\* older, when it wrote, than the age limit and its own running time; and a
\* summary says PASS exactly when it gives no reason.
PassRestsOnReports == GateRests(files) /\ SummaryRests(files)
=============================================================================
