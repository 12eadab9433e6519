# Verification of chaos-demo

TLA+ models of chaos-demo, the TLC runs that check them on small instances and
the TLAPS proofs of their main properties for every value of the constants.
`PROJECT.json` lists components, runs, mutants, the map from definitions to
source lines, findings, hazards and theorems.

    tlc -workers 2 -config breaker_safety.cfg MC_CircuitBreaker     # one run
    tlapm CircuitBreakerProofs.tla                                  # one proof module

## 1. Inventory

chaos-demo is an order service (Flask, Redis) with four resilience mechanisms
and programmable fault injection, and a quality platform beside it: an agent
pipeline behind FastAPI, an evaluation of the agent against the order service,
benchmarks, a security scan, and gates over the report files all of these leave.

Several workers serve HTTP calls at the same time; **everything they share is in
Redis**, and every Redis command (or Lua script) is atomic. What lies between
two commands of a call is Python code on local values, possibly long: a sleep, a
retry, a clock reading used later. The agent platform shares a collector, a gauge
and a logger between runs of one process. The quality programs share **files**:
each overwrites its own "latest" report and reads what others left. That is
where the hard behaviour comes from.

| Component | State | Operations | Interacts with |
|---|---|---|---|
| Circuit breaker (`chaos_service/resilience/breaker`) | Redis keys `open_until`, `probe` (TTL), sorted sets `failures`, `totals` (TTL); `_probe_acquired` per request | `allow_request`, `record_success/failure/timeout`, `close`, `reopen`, `snapshot`, `circuit_breaker.lua` | called by `create_order` |
| Rate limiter (`chaos_service/rate_limiter.py`, `lua/`) | a sorted set or one counter per bucket, with TTLs | `allow` = clock reading, then a script; fail-open on errors | called by the request hook |
| Idempotent orders (`store.py`, `order_service.py`, `app/repository`) | one record per key (PROCESSING, SUCCESS, FAILED, TTLs), the orders | reserve (SET NX), load, compare-and-delete, wait, finalize, save_failed, release | breaker, retry policy, chaos |
| Order operations, retry policy (`order_service.py`, `retry.py`) | order documents with a TTL; per call: attempt, deadline | create's save, get, cancel (read-modify-write), every command inside `execute` | store |
| Chaos experiments (`chaos_service/chaos`) | experiment and report documents with TTLs, a gauge | create, list, show, stop, stop-all, sweep, record injected / fallback / response | request hooks, order service |
| Legacy fault API, admin guard (`fault_injection.py`, `admin_auth.py`) | `fault:<type>` records beside the experiments | inject, clear, clear-all, get, apply | chaos experiments |
| Traffic recorder and replay (`traffic.py`, `replay_traffic.py`) | bounded queue, writer thread, a file | record, write, replay the file | after_request hook |
| Agent platform (`ai_platform/`) | service singleton, collector (active trace, spans, events), gauge, logger id | run: trace, input check, planner, tools, judge, evaluation, gate | tools client, policy file |
| Agent evaluation (`run_agent_eval.py`, `evaluator.py`, `fabrication.py`) | rows, score, review pool | plan, permission, tool calls with retries, reply, score | order service, policy |
| Measurements and gates (`benchmark_compare`, `security_scan`, `chaos_compare`, `run_experiment`, `prompt_regression`, `unified_quality_gate`, `unified_summary`) | ten report files, the benchmark archive | measure, archive, compare, judge, gate, summarise | one another, through files |
| Hooks, settings, metrics, LLM clients, demos | little or none | | |

What is hard here, and what a component must guarantee in spite of it:

* **Breaker.** `close`, `reopen` and `snapshot` are several commands; clocks are
  read before they are used; the probe key may expire under a running probe; an
  admitted request may never report. Correct: one probe at a time, windows in
  step, deadlines bounded and moved only by a probe, trips justified by the last
  window, no permanent lock-out.
* **Limiter.** Scripts run in another order than their clock readings; keys
  expire; replies are lost. Correct: capacity per window, no spurious 429.
* **Idempotency.** Duplicates race, take over stale records, wait for each
  other; owners overrun their TTL, crash, lose replies. Correct: one order per
  key, faithful replays, release of one's own record only, no eternal PROCESSING.
* **Orders and retries.** Documents expire between a read and the write that
  follows it; replies are lost and commands repeated; the deadline is tested
  before a sleep only. Correct: answers report what the order really was, a
  confirmed cancel stays, work past the deadline is bounded, every call ends.
* **Experiments and faults.** Reports are read-modify-write without a lock; the
  legacy record and its experiment are two keys; a clear lists, then stops one by
  one. Correct: reports never overstate, the gauge counts, ended and cleared
  experiments touch no new request, every experiment ends by itself, a running
  legacy fault has its record.
* **Recorder.** The queue is bounded, the writer may die, the process may
  restart, a replay may feed the file it reads. Correct: each event once and in
  order, losses accounted for, the queue drains while the writer lives.
* **Agent platform.** Early returns skip clean-up; the active trace outlives its
  run. Correct: only blocked runs leak, runs write to their own trace, an
  executor that was given the policy sends no tool that it forbids.
* **Reports.** Any file may be missing, old, or another run's. Correct: verdicts
  rest on the reports they name and on their own run; scores tell what happened.

## 2. Modules

Each component is a module with its state as variables, one action per Redis
command (or per step of a program), and its properties at the end. `MC_` modules
instantiate for TLC; a `Proofs` module extends its component with TLAPS proofs.
Definitions whose comment says *Mutant* or *Changed form* are faulty variants
that show that the properties can fail.

**CircuitBreaker.** A request walks `allow_request` (GET open_until, GET probe,
SET NX EX), is admitted or rejected, and records its outcome (`close` = DEL, SET;
`reopen` = DEL, SET; otherwise the two purges of `snapshot` and the Lua script).
`clk[r]` is the clock reading a request carries; `probeOwner` and `overrun` are
auxiliary: who set the probe key, and whether one expired under its owner. The
probe key carries no owner in the code, and none in the model's `probeExp`.

**RateLimiter.** `ReadClock` then one script action per algorithm, with a lost
reply (`failed_open`: the script may or may not have run). `passed` and
`counted` are histories; `reordered` and `late` record that a script ran after
one with a newer reading, or more than a second after its own.

**OrderIdempotency** and **OrderOnce.** `create_order` of several requests on shared keys: reserve,
load and normalise, take over a stale record by compare-and-delete, poll,
deadline and release, business failure, save, finalize, and the HTTP answer, which
is a step after the last write: a worker may die with its verdict stored and
nobody told. `StoreUnavailable`, `RetryAfterLostReply`, `SaveOrderFails`,
`LastWriteFails` and `Abort` are the failures the code catches or dies of. Every
write, the SETEX of finalize and of save_failed too, may take effect, lose its
reply and be run again by the retry policy, any time and any number of times up to
the bound on failures (`TakesEffect`, `RetryAfterLostReply`); what is left out is
an attempt that Redis executes after a later attempt of the same command, which one
connection that is closed before the next is opened hardly gives. `forgotten` marks keys whose record was
dropped under an owner that had placed or could still place its order,
`bypassed` keys on which a request went on without a reservation; these two
sets name exactly the situations in which the code gives no guarantee.
OrderOnce is the abstract specification: requests begin, place one order per key,
and are answered. A 202, a 409 or a replay hides no order of its own; a 409 has a
rival that began with another body; a replay repeats an order that was placed or
an attempt that failed, whether or not its caller was told (the FAILED record
outlives a worker that dies before it answers); and once an order is placed by an
attempt that did not fail, no attempt fails and no replay says that one did. A key
that is forgotten or bypassed is `loose` there. The refinement maps the control
points of a request to its answer and hides records, take-overs, polls, releases
and clocks; a command whose reply is lost, or that is repeated, is a stutter.

**OrderService** and **OrderLife.** OrderService is `get_order`, `cancel_order`
and the save of `create_order` with the loop of `RetryPolicy.execute` around
every command: an attempt succeeds (`AttemptOk`), fails with an error that is
retried, its SETEX done or not (`AttemptLost`), or fails for good
(`AttemptFatal`); then `BackOff` (any delay up to the cap, full jitter), `Retry`
(a sleep may end late) or `GiveUp`. OrderLife is the abstract specification:
atomic looks, writes and answers, no commands, retries, deadlines or clock.
The refinement maps the variables of the same name and hides the rest; lost
replies, repetitions and sleeps are stutters or repeated writes.

**ChaosExperiments.** A worker is one HTTP call. `Observe`/`Hold` read a report
and keep the changed copy, `SaveReport` writes it back; all recorders share
them. A request lists the running experiments, keeps those it matches, and may be
delayed (`InjectDelay`) or failed (`InjectRaise`) by them until it responds.
`Ended`, `excused` and `ended` are auxiliary. The gauge is kept per
experiment (the code's labels may be shared; the sum is the same).

**LegacyFaults.** The documents of experiments again, without their reports,
and the `fault:<type>` records: an injection is two commands, a clear deletes,
lists and stops one id at a time, a request that meets a legacy "exception"
reads the record and ends every experiment of the type when there is none. A
stop is one action here (ChaosExperiments has the state between its commands).
`gone` and `reach` are histories of what finished clears had to end, `cut` of
the types a crash left half done.

**TrafficRecorder.** Request threads `Enqueue`, the writer takes and appends, may
die of a write error, and comes back with the process. Events are numbered as
accepted. `Replay...` is `replay_traffic.py` reading the same file lazily while
its requests, when sent to the recording service, lengthen it.

**AgentSecurity** (operators: input check, permission lists, policy file, the
tools client) and **AgentPlatform** (one process: services built again and
again, runs one after another). A span is the run, its node or tool and the
step; a trace keeps its open spans, who wrote to it and its agent events, among
them the security block that a denied call records in the active trace. A
configuration says whether the executor of its workflow was given the policy
(`guarded`): the one that a ToolNode builds for itself was not, and checks
nothing (`Admits`). `ListsAllow` states what a policy's lists promise without the
checker's way of combining them; `Permits` is the checker.

**AgentEvaluation.** A suite of cases, each planned by rule or model, filtered by
the role's permissions, executed with retries against a service that may refuse,
fail, be silent or be sabotaged by the client's own chaos mode; then the score and
the review pool. A text is the set of marks the planners look for. A result says
whether its call was handed to the client (`sent`, set by `CallStep` alone). A
quantity of the model's plan that `int()` refuses ends the process (`BadQuantity`),
as a policy file that does not load does.

**QualityGates** (operators: medians, archive, trend, findings of a scan, the
thresholds of every gate, sub-gates, floors and tolerances, prompt regression)
and **ReportPipeline** (the files and the programs). Programs of one step write
when they are done or not at all. The comparison, the experiment and the gate
take several steps and may die at each; one of these three runs at a time,
while the others and the clock go on beside it. Percentages are integers.
`of`, `read` and `began` in documents are histories: whose comparison it was,
what a gate had read, when it began. Raw results are the metrics they score to;
how rows become metrics is AgentEvaluation.

**Sums.** MC_ChaosFaults, MC_OrderApi and MC_Platform check modules that share
no variable: `part`, fixed at the start, says which of them a behaviour is of,
so their states are added rather than multiplied, and each fairness condition
is that of the part it names.

## 3. Runs

| Run | Question | Instance |
|---|---|---|
| breaker_safety | probe exclusion, windows, deadlines, trips; an abandoned probe does not lock for ever | 3 requests, 1 crash, clock to 4, probe TTL 2, fair time and workers |
| breaker_probe_success | *violation*: a successful probe closes at once | 3 requests |
| rate_windows | both algorithms: capacity, no spurious rejection | 4 requests, limit 2, window 2, clock to 5 |
| sliding_any_order | *violation*: capacity in any order of scripts | 4 requests |
| idempotency_duplicates | one order per key; a stored verdict is final | 3 duplicates, 2 bodies, 1 crash |
| idempotency_faults | OrderIdempotency implements OrderOnce; replays are faithful, verdicts final under storage failures and repeated writes; PROCESSING ends | 2 requests, 2 failures, 1 crash, fair time |
| idempotency_terminal | *violation*: SUCCESS is terminal | 2 requests, no failures |
| chaos_reports | reports, gauge, ended experiments; clears hold; records cover legacy faults | 3 calls on 1 experiment, clock to 2; 2 workers on 2 experiment ids of one type, durations 1 and 2, 1 crash; no fairness |
| chaos_recovery | experiments end by themselves | 2 calls on 1 experiment, 1 injection, clock to 3, fair time |
| chaos_gauge | *violation*: the gauge counts active experiments | 3 calls, clock still |
| order_api | OrderService implements OrderLife, cancels stick, late attempts bounded, calls are answered; the recorder's file, its losses, draining, replays | 2 requests on 1 order, 3 attempts, TTL 2, budget 2; queue of 2, 4 events, 2 faults, replay limit 2 |
| platform | leaks, traces, permissions; scores; verdicts and decisions | 3 runs over 7 configurations; 2 suites of 2 cases; 3 programs on an empty and on an old reports directory |

**Bounds.** `MaxTime` (`FaultClockEnd`) stops the clock after every TTL and window
of the instance has run out at least once with a call under way; windows and
TTLs of one or two seconds keep the order of their expiries. Three or four
requests are what the properties need: an owner, a rival that takes over, and
one that comes late; for cancels two requests do, since what one leaves behind is
all another meets, and initial documents may exist already. `MaxAborts`,
`MaxFaults`, `MaxInjections` and the single crash of LegacyFaults bound crashes,
failures and injections. In chaos_reports injections are off (they are one more
counter updated like the others) and are on in chaos_recovery; the theorem on
reports covers them without a bound. idempotency_faults gives one request the
first body (`FixedBodySpec`), since bodies are interchangeable and symmetry is no
use beside liveness. `MaxEvents` is twice the queue and the replay
limit, so that the queue fills and a replay meets its own echo. `MaxRuns` is
three: one run that leaves something behind, one without observability that
writes into it, one that follows. Three programs are the fewest in which an
experiment fails over an older comparison or a gate reads the work of two others,
and `GoodReports` stands for everything that ran before. Samples are one below
and one above every threshold they meet.
Requests and programs of a behaviour end, so deadlock is not checked: a state
with everything finished and the clock at its bound is the normal end.

**Fairness.** Time passes: weak fairness of `Tick`. LockoutEnds also assumes that
requests that have started go on (the server runs them), not that any arrives.
PendingEnds and AutoRecovers need only time, since TTLs do the work; crashes are
covered because a call may stop anywhere. Answered assumes that a thread whose
next step is possible takes one (`Step` as a whole, so no outcome of an attempt
is assumed) and that Redis drops what has expired. QueueDrains assumes that the
writer thread is scheduled while it lives. Antecedents leave room for one TTL
before the clock's bound, and in OrderService the clock goes on past its bound
until all sleepers are awake, so the bound decides nothing.

## 4. Findings

* breaker_probe_success: `close()` deletes the probe key before it zeroes
  `open_until`; a second request can take a probe in the gap, so the breaker is
  HALF_OPEN after a successful probe.
* sliding_any_order: a script with an older clock reading, run after one with a
  newer reading, does not see entries the newer one purged.
* idempotency_terminal: an owner that outlived its pending TTL overwrites the
  SUCCESS of the request that took over.
* chaos_gauge: stopping a stopped experiment decrements the gauge again.

Seen while modelling, where the model follows the code and no line of the
repository says otherwise plainly enough for a run of its own:

* a run blocked at its input keeps `agent.running` up and its id in the logger
  (`runtime.py:70-82`); a denied tool call leaves its span open;
* the executor a ToolNode builds when it is given none has no policy
  (`tool_node.py:34-37`), and neither the service nor the runtime hands its own to
  it: such a workflow sends tools the policy blocks, so the permission property
  speaks of executors that were given one;
* a SETEX of finalize or save_failed whose reply was lost is run again and starts
  the TTL of the record anew;
* two allow-lists with nothing in common combine to an empty list, which allows
  everything (`permission.py:47-66`); a violation the policy does not "block on"
  still blocks through `worst`;
* the platform's gate asks for bare metric names, the engine's merge prefixes
  them: a gated service never passes;
* an experiment may FAIL without a reason: `run_experiment.py` looks up
  `fail_path_token_surge_pass` where the report has `fail_path_surge_pass`, and has
  no sentence for the retry path; hence `ExplainedSubGates`;
* tolerances a definition leaves out fall back to the defaults of
  `chaos_compare.py`; `retry_tax_max_ref` is 0.60 in `evaluator.py` and 1.50 there;
* a missing benchmark report ends the unified gate with an unhandled error and
  the document of the last gate stays; the summary reads it whatever its age,
  and says PASS when there is none;
* the agent's score has no freshness check and is overwritten by the chaos arm of
  every comparison;
* status 429 counts neither as error nor as degraded in a benchmark;
* a replay into the service that records it goes on until its limit.

## 5. Proofs

All theorems hold for any number of requests, keys, experiments and any
parameters that satisfy the named assumptions of the modules (what the rules'
`__post_init__` and the controllers check, and finiteness of the request set).
None depends on `MaxTime` or the other bounds, except that they are numbers.

* **CircuitBreakerProofs**: `BreakerTypeOK`; `BreakerWindowsInStep` and
  `BreakerDeadlineBounded` from `TimeInv` (every clock reading and every score lies
  in the past: without it a script could write a score or a deadline ahead of the
  clock); `BreakerProbeExclusive` from an invariant that ties the probe key to
  `probeOwner`: who is between acquiring and giving back the key is its owner
  unless a TTL has run out; `BreakerOpenDeadlineStable`, an action property.
  `BreakerTripJustified` needs no invariant but the types: the script purges
  before it adds and counts, so all that it counts is fresh at its own reading.
* **RateLimiterProofs**: `RateLimiterTypeOK`; `SlidingWindowCapacity` from
  `SlidingInv` (what passed within the window of the newest reading is still in
  the set, which holds at most Limit); `FixedWindowCapacity` from `FixedInv` (the
  counter of a bucket is at least what passed in it, or the bucket is over);
  `NoSpuriousRejection`, an action property, from `CountedInv`: what Redis holds was
  counted, each request once, so a full set or counter means Limit requests that
  were counted. The keys may forget; they never invent.
* **OrderIdempotencyProofs**: `IdempotencyTypeOK`, `IdempotencyExactlyOnce`,
  `IdempotencyReplayFaithful`. Exactly-once is not
  inductive: the invariant says that a request able to place an order for a key
  holds its PROCESSING record, and that a placed order is what the record says.
  `IdempotencyVerdictStable`, an action property, from the owner facts of
  exactly-once and `RecordTrue` (a record is of a request that has begun with its
  key and body; SUCCESS means an order of an attempt that did not fail, FAILED one
  that did): a request whose unconditional SETEX is still to come, or to be
  repeated, owns the record and would write the verdict that is there. What a step
  can do to a record is one lemma (`StoreWritten`), whatever was lost or repeated.
  `IdempotencyImplementsOrderOnce`, the refinement, from `OnceInv`, the sum of
  these. A quiet step, a reply, an answer from a record and an attempt are a lemma
  each; the rest is which action is which.
* **ChaosExperimentsProofs**: `ChaosTypeOK`, `ChaosReportSound`. `ReportSound` is not
  inductive because a copy read earlier is written later; `CopySound` says the
  same of the copies in flight, and `TargetKnown` that a writer knows its
  experiment. `ChaosGaugeAccurate`: the property speaks of quiet moments, so
  `GaugeInv` must say what the gauge is between the metrics and the report: untouched
  until the report is first written (`EarlyClean`), off by one while the one creator
  has yet to count (`OneCreator`, `Uncounted`), at what the only call about to write
  the report will write (`LoneSaver`), and what the report says when nobody has
  settled it (`Settled`). `ChaosEndedStaysOff` from `OffInv` and `EndedForGood` (only
  the one creation writes "running").
* **OrderServiceProofs**: `OrderServiceTypeOK` (with what a call's attempt counter
  and locals are at each point); `LateAttempts` from `LateInv` (a request that has
  started an attempt past its deadline sleeps no more, so each of its commands gets
  one such attempt);
  `OrderServiceImplementsOrderLife`, the refinement
  (`Life == INSTANCE OrderLife WITH ...`): initial states map to initial
  states, every attempt to a look, a write or a stutter, and every answer to a
  legal one, which needs what the call has seen and written at each point;
  `CancelsStick` from `CancelInv` (once somebody cancelled an order or saw it
  cancelled its document is not "created" again, since whoever reads or cancels it
  began after its creation was answered).
* **TrafficRecorderProofs**: `TrafficTypes`; `RecordedInOrder` from `InOrder`
  (file, the writer's hand and queue follow each other in the numbering of the
  events); `NothingIsMissing`, that every number is in one of them or lost;
  `ReplayStaysBounded`.
* **LegacyFaultsProofs**: `FaultShapes`; `ClearsHold` from `ReachInv` (what a clear has to
  end is of its types and, once it has made its list, on the list unless it has
  ended) and `DocsGrow` (no step gives an id twice or starts an experiment again);
  `RecordsCover` from `CoverInv` (a fault that must have its record has it, or some
  worker is about to write it or to stop the fault), `InjectedInv` (an injection
  that has yet to write its record has a document of the same duration, which is
  where different durations of one type matter) and `EndsInv` (no document outlives
  its duration).
* **QualityPlatformProofs** has three parts, one for each specification of the
  quality platform; the inductive invariants were checked by TLC first.
  *AgentPlatform*: `PlatformInductive`, that `PlatformInv` holds; from it
  `PlatformGaugeLeaks`, `PlatformTracesAttributed`, `PlatformTracesFinished` and
  `PlatformPermitted`. `SentInv` says that a tool is admitted before it is sent,
  `DeniedInv` that a denied step was refused by an executor with the policy and lies
  behind the run; `AttributedInv` that the active trace is the observed run's own;
  `FinishedInv` which spans the run has open at each point (`OpenNow`) and that a
  trace has no final event before its run is over; `BlockInv` that a block is
  recorded where an input was blocked or a span was left that nothing will close;
  `LeakInv` what the gauge and the logger show while a run is going on. The lemmas
  before it say once what a span, an event and a denied call do to the collector,
  whatever the node; that `Permits`, with its combined lists, implies `ListsAllow`
  is one more (`PermitsLists`).
  *AgentEvaluation*: `EvaluationInductive` and `EvaluationTruthful`. The score is
  computed in one step from the rows, so the invariant is on the rows (`RowInv`) and
  on the case under way (`StepInv`): silence was noted where it happened, a reply
  names only what is among the results, and a call that was sent is of a tool the
  policy with the case's role permits, and so not of one denied in the same case,
  since the verdict on a tool does not change during a case (`SameVerdict`).
  *ReportPipeline*: `PipelineInductive`, `PipelineOwnVerdict` and `PipelinePassRests`.
  `FilesOK` dates the files and says that none is of a job to come; `JobOK` gives the
  fields of the comparison or gate under way; `CompareInv` says that a comparison
  report dated after the start of the one that runs is its own, which is why
  the experiment's check of the date (`run_experiment.py:195`) is enough; `GateInv`
  that what a gate has noted so far fits the reports it read, which may be
  overwritten before it writes.

`OldReportsAssumption` is what the pipeline's theorems need of the reports that the
directory starts with: dated not after the start, numbered before its first job
(`id` and `of` are histories, so earlier jobs may have any numbers up to 0), and as
right as what the programs write. An empty directory meets it, and by the theorems so
does any directory that the programs have filled from an empty one. A
directory with hand-edited reports is outside.

Only model-checked: liveness (LockoutEnds, PendingEnds, AutoRecovers, Answered,
QueueDrains), since fairness and ENABLED are out of the prover's reach. Every
safety invariant and every action property of a passing run is a theorem. The one
fold of a community module (the shares in QualityGates) stays unexpanded in the
proofs: they hold whatever it returns, and what it computes is only checked.

## 6. Not modelled, and the plan

Left out for good: HTTP parsing, log and metric formatting, regular expressions
over text, settings, LLM clients (one stateless call each: AgentEvaluation takes
their answers as a choice), the self-test and the statistics scripts, wording and
layout of reports, demos, deployment. Left out of modelled programs: masking of
recorded headers, arithmetic of rates beyond what a threshold reads, two programs
of several steps at the same time (the repository starts them from one shell).

Next: nothing of the plan's safety properties is left to prove. What would add most is
an abstract specification of one more component with its refinement proved: of the
report files (a verdict as one step over the reports it names), or of the experiments
(start, stop and expiry as single steps, without documents and reports in flight).
