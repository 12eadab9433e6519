------------------------------ MODULE QualityGates ------------------------------
(***************************************************************************)
(* The decisions of the report pipeline as operators: what the benchmark   *)
(* and the security scan make of their measurements, and the gates that    *)
(* read the reports.  Rates are percentages, ratios are compared by        *)
(* multiplying out, and None stands for a mean over no cases.              *)
(***************************************************************************)
EXTENDS Integers, Sequences, FiniteSets

Sets == INSTANCE FiniteSetsExt

None == -1

-----------------------------------------------------------------------------
(* benchmark_compare.py *)

\* run_benchmark: the shares of the statuses of one run's requests ("count" is
\* how many were answered with each status, 0 for no answer) beside the
\* percentiles of their latencies.  A 429 is neither an error nor degraded.
RunBenchmark(count, p95, p99) ==
  LET Share(S) == (100 * Sets!MapThenSumSet(LAMBDA s : count[s], S))
                    \div Sets!MapThenSumSet(LAMBDA s : count[s], DOMAIN count)
  IN  [p95 |-> p95, p99 |-> p99,
       error |-> Share({s \in DOMAIN count : s >= 500 \/ s = 0}),
       degraded |-> Share(DOMAIN count \cap {202})]

\* The k-th smallest element, and twice the median, of a sequence of numbers.
KthSmallest(s, k) ==
  CHOOSE v \in {s[i] : i \in DOMAIN s} :
    /\ Cardinality({i \in DOMAIN s : s[i] <= v}) >= k
    /\ Cardinality({i \in DOMAIN s : s[i] < v}) < k
Median2(s) == KthSmallest(s, (Len(s) + 1) \div 2) + KthSmallest(s, (Len(s) \div 2) + 1)

\* summarize_runs: of every metric the median over the runs (here doubled).
SummarizeRuns(runs) ==
  [m \in {"p95", "p99", "error", "degraded"} |-> Median2([i \in DOMAIN runs |-> runs[i][m]])]

\* build_trend_report: the current P95 and the median of the reports before it
\* (both doubled once more), None without any.
TrendReport(current, previous) ==
  [cur |-> 2 * current, prev |-> IF previous = << >> THEN None ELSE Median2(previous)]

\* archive_report keeps the newest reports by file name.  The name starts with
\* the second of the report; within one second the order is that of random
\* session ids, so a report may land before others of its second.
Archived(history, at, p95, before, keep) ==
  LET n == Len(history)
      all == SubSeq(history, 1, n - before) \o <<[at |-> at, p95 |-> p95]>>
               \o SubSeq(history, n - before + 1, n)
  IN  IF Len(all) > keep THEN SubSeq(all, Len(all) - keep + 1, Len(all)) ELSE all
MayLandBefore(history, at, before) ==
  \A i \in (Len(history) - before + 1) .. Len(history) : history[i].at = at

-----------------------------------------------------------------------------
(* security_scan.py *)

SevLow == 1
SevMedium == 2
SevHigh == 3

\* analyze_sqli_probe: the severities of one probe's answer.  "class" is the
\* first digit of the status, 0 without one.
ProbeFindings(answer, contextAware) ==
  LET broken == answer.class \in {0, 5}
      echoed == IF ~contextAware THEN SevMedium
                ELSE IF answer.class \in {2, 3} THEN SevLow ELSE SevMedium
  IN  (IF ~broken THEN {}
       ELSE IF ~contextAware \/ answer.dbSignal THEN {SevHigh} ELSE {SevMedium})
        \cup (IF answer.echo THEN {echoed} ELSE {})

\* scan: a service that does not answer /healthz is one high finding and
\* nothing else is tried; otherwise the probes, the path probe and the leaks.
ScanFindings(world, contextAware) ==
  IF ~world.healthy THEN {SevHigh}
  ELSE ProbeFindings(world.probe, contextAware)
         \cup (IF world.pathBroken THEN {SevHigh} ELSE {})
         \cup (IF world.leak THEN {SevMedium} ELSE {})

\* The highest severity of a set of findings, 0 without any.
Highest(findings) ==
  IF findings = {} THEN 0 ELSE CHOOSE f \in findings : \A g \in findings : g <= f

-----------------------------------------------------------------------------
(* The gates on one report *)

\* check_benchmark_gate with its default thresholds (the medians are doubled;
\* the jitter limit is off by default).
BenchmarkOk(r) ==
  /\ r.protected.error <= 2 * 5
  /\ r.protected.p99 <= 2 * 450
  /\ r.protected.p95 * 100 <= r.baseline.p95 * 110
  /\ r.protected.degraded + r.protected.error <= 2 * 35

\* check_benchmark_trend_gate on the report's numbers.
TrendDecided(t) == t.prev # None /\ t.prev > 0
TrendOk(t) == TrendDecided(t) => t.cur * 100 <= t.prev * 115

\* check_security_gate, SECURITY_FAIL_ON=medium.
SecurityOk(highest) == highest < SevMedium

\* QualityGate._assert with the thresholds of eval_config.yaml ("calls" is in
\* tenths).
AgentOk(s) ==
  /\ s.tool >= 85 /\ s.arg >= 80 /\ s.calls <= 35
  /\ s.retry <= 20 /\ s.hallucination <= 10 /\ s.invalid <= 15

\* compare_prompt_regression_scores with the thresholds of eval_config.yaml:
\* the reasons it fails for.
PromptReasons(b, c) ==
  {m \in {"tool", "arg", "retry", "invalid"} :
     CASE m = "tool" -> c.tool < b.tool
       [] m = "arg" -> c.arg < b.arg - 5
       [] m = "retry" -> c.retry > b.retry + 15
       [] m = "invalid" -> c.invalid > b.invalid + 10}

-----------------------------------------------------------------------------
(* chaos_compare.py *)

\* A rise of c over b by more than max percent.  Without a positive b there is
\* none.
Surges(b, c, max) == b > 0 /\ (c - b) * 100 > max * b

\* fail_path_surge_ratio and retry_tax_ratio: only where both means exist.
PathSurges(b, c, max) == b # None /\ c # None /\ Surges(b, c, max)

RetryTaxMinSamples == 5

DefaultTolerance == [tokenSurge |-> 30, retrySurge |-> 25, failPath |-> 50]

\* evaluate_token_black_hole_gate: the sub-gates that fail.
FailedSubGates(b, c, tol) ==
  {g \in {"token_surge", "token_max", "token_p99", "retry_surge", "fail_path",
          "retry_path", "retry_tax"} :
     CASE g = "token_surge" -> Surges(b.tokens, c.tokens, tol.tokenSurge)
       [] g = "token_max" -> c.maxTokens > 500
       [] g = "token_p99" -> c.p99Tokens > 300
       [] g = "retry_surge" -> c.retry - b.retry > tol.retrySurge
       [] g = "fail_path" -> PathSurges(b.failTokens, c.failTokens, tol.failPath)
       [] g = "retry_path" -> /\ b.retryCases > 0 /\ c.retryCases > 0
                              /\ PathSurges(b.retryTokens, c.retryTokens, 60)
       [] g = "retry_tax" -> /\ c.retryCases >= RetryTaxMinSamples
                             /\ PathSurges(c.plainTokens, c.retryTokens, 150)}

-----------------------------------------------------------------------------
(* run_experiment.py *)

\* load_experiment: a definition of a known version and mode, without unknown
\* keys and with every steady-state floor; tolerances may be left out.
Loads(def) ==
  /\ ~def.unknownKeys /\ def.version = 1
  /\ def.mode \in {"rule", "ollama", "llm"}
  /\ def.chaos \in {"latency", "error", "mixed"}
  /\ DOMAIN def.floor = {"tool", "arg", "retry"}

\* run_compare hands the tolerances that are declared to chaos_compare through
\* its environment; for the others its own defaults hold.
EffectiveTolerance(declared) ==
  [k \in DOMAIN DefaultTolerance |->
     IF k \in DOMAIN declared THEN declared[k] ELSE DefaultTolerance[k]]

\* evaluate_steady_state on the baseline arm.
SteadyState(b, floor) == b.tool >= floor.tool /\ b.arg >= floor.arg /\ b.retry <= floor.retry

\* The sub-gates main looks up when it explains a FAIL: it asks for
\* "fail_path_token_surge_pass", which the report calls "fail_path_surge_pass",
\* and never for the retry path.
ExplainedSubGates == {"token_surge", "retry_surge", "token_max", "token_p99", "retry_tax"}

=============================================================================
