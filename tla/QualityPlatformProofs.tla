------------------------- MODULE QualityPlatformProofs -------------------------
(***************************************************************************)
(* The agent platform, the evaluation of the agent and the report pipeline *)
(* share no variable; this module proves the invariants of each from its   *)
(* own specification, in the order AgentPlatform, AgentEvaluation,         *)
(* ReportPipeline.                                                         *)
(***************************************************************************)
EXTENDS AgentPlatform, AgentEvaluation, ReportPipeline, FiniteSetTheorems, TLAPS

-----------------------------------------------------------------------------
(* The agent platform: the inductive invariant *)

Spans == RunIds \X ({"planner", "tool", "judge"} \cup Tools) \X Nat
Ends == {"end", "error"}
TraceEvents == Ends \cup {"start", "block"}
TraceRecords == [open : SUBSET Spans, by : SUBSET RunIds, events : SUBSET TraceEvents]
Collectors == [active : RunIds \cup {NoTrace}, trace : [RunIds -> TraceRecords]]
RunRecords ==
  [pc : {"check", "planner", "tool", "call", "judge", "end", "report"},
   id : RunIds, trace : RunIds \cup {NoTrace}, text : Texts,
   status : {"new", "running", "failed", "succeeded"},
   error : {"", "AgentError", "SecurityBlockedError"},
   plan : Seq(Tools), tries : Nat, sent : SUBSET Tools]

PlatformTypeOK ==
  /\ service \in Configs \cup {NoService}
  /\ collector \in Collectors
  /\ gauge \in Int /\ logId \in RunIds \cup {NoTrace}
  /\ runs \in 0 .. MaxRuns
  /\ observed \subseteq 1 .. runs /\ blocked \subseteq 1 .. runs
  /\ run # NoRun => run \in RunRecords /\ service \in Configs

\* What the run's next calls may send: the tools it has called were admitted.
SentInv ==
  /\ run # NoRun =>
       /\ \A tool \in run.sent : Admits(tool)
       /\ run.pc = "call" => run.plan # << >> /\ Admits(Head(run.plan))
       /\ run.pc \in {"check", "planner"} => run.sent = {}
       /\ run.error = "SecurityBlockedError" => run.pc = "report" /\ run.sent = {}
  /\ result # NoResult => (result.error = "SecurityBlocked" => result.sent = {})

\* A denied call is of an executor with the policy, and of a step that the
\* run has left behind.
DeniedInv ==
  \A s \in denied :
    /\ s \in (1 .. runs) \X Tools \X Nat
    /\ run # NoRun /\ s[1] = run.id =>
         /\ run.pc \notin {"check", "planner"} /\ s[3] > Len(run.plan)
         /\ service.guarded /\ ~Permits(service.policy, s[2])

\* An observed run has its own trace active.
AttributedInv ==
  /\ \A t \in RunIds : collector.trace[t].by \subseteq 1 .. runs
  /\ \A t \in RunIds : collector.trace[t].by \cap observed \subseteq {t}
  /\ run # NoRun =>
       /\ run.id = runs
       /\ \/ run.trace = run.id /\ run.id \in observed /\ collector.active = run.id
          \/ run.trace = NoTrace /\ run.id \notin observed
  /\ result # NoResult => (result.success /\ result.id \in observed => result.trace = result.id)

\* The spans the run has open.
OpenNow ==
  IF run = NoRun THEN {}
  ELSE IF run.pc = "call" THEN {NodeSpan("tool"), ToolSpan}
  ELSE IF run.pc \in {"planner", "tool", "judge"} THEN {NodeSpan(run.pc)} ELSE {}

EventsOf(t) == collector.trace[t].events \cap Ends

FinishedInv ==
  /\ \A t \in RunIds :
       collector.trace[t].open \subseteq denied \cup (IF collector.active = t THEN OpenNow ELSE {})
  /\ \A t \in RunIds : t > runs => collector.trace[t].by = {} /\ EventsOf(t) = {}
  /\ collector.active # NoTrace => collector.trace[collector.active].by # {}
  /\ \A t \in Known :
       IF t \in InFlight \cup blocked THEN EventsOf(t) = {} ELSE \E x \in Ends : EventsOf(t) = {x}

\* The spans of a trace that no step of the run in progress will close.
LeftOpen(t) == collector.trace[t].open \ (IF collector.active = t THEN OpenNow ELSE {})

\* A block is recorded where an input was blocked or a span left open.
BlockInv ==
  \A t \in RunIds :
    "block" \in collector.trace[t].events <=> t \in blocked \cap Known \/ LeftOpen(t) # {}

LeakInv ==
  /\ gauge = Cardinality((blocked \cap Known) \cup InFlight)
  /\ logId # NoTrace => logId \in blocked \cup InFlight
  /\ InFlight \cap blocked = {}

PlatformInv ==
  PlatformTypeOK /\ SentInv /\ DeniedInv /\ AttributedInv /\ FinishedInv /\ BlockInv /\ LeakInv

\* What a span does to the collector: the active trace gains and loses open
\* spans, and a run may have written to it.
Written(c, r, gone, new, d) ==
  /\ d \in Collectors /\ d.active = c.active
  /\ \A t \in RunIds :
       /\ d.trace[t].events = c.trace[t].events
       /\ d.trace[t].open = IF t = c.active THEN (c.trace[t].open \ gone) \cup new ELSE c.trace[t].open
       /\ \/ d.trace[t].by = c.trace[t].by
          \/ t = c.active /\ d.trace[t].by = c.trace[t].by \cup {r}

\* The same, but a block may also be recorded in the active trace.
Moved(c, r, gone, new, d) ==
  /\ d \in Collectors /\ d.active = c.active
  /\ \A t \in RunIds :
       /\ \/ d.trace[t].events = c.trace[t].events
          \/ t = c.active /\ d.trace[t].events = c.trace[t].events \cup {"block"}
       /\ d.trace[t].open = IF t = c.active THEN (c.trace[t].open \ gone) \cup new ELSE c.trace[t].open
       /\ \/ d.trace[t].by = c.trace[t].by
          \/ t = c.active /\ d.trace[t].by = c.trace[t].by \cup {r}

\* What an event does to it.
Recorded(c, trace, event, d) ==
  /\ d \in Collectors /\ d.active = c.active
  /\ \A t \in RunIds :
       /\ d.trace[t].open = c.trace[t].open
       /\ d.trace[t].events = IF t = trace THEN c.trace[t].events \cup {event} ELSE c.trace[t].events
       /\ d.trace[t].by = c.trace[t].by

\* The changes the collector makes, one field at a time.
WithTrace(c, a, rec) == [c EXCEPT !.trace[a] = rec]

\* A trace of the collector is replaced by another.
LEMMA SetTrace ==
  ASSUME NEW c \in Collectors, NEW a \in RunIds, NEW rec \in TraceRecords, NEW d, d = WithTrace(c, a, rec)
  PROVE  /\ d \in Collectors /\ d.active = c.active
         /\ \A t \in RunIds : d.trace[t] = IF t = a THEN rec ELSE c.trace[t]
<1>1. c.trace \in [RunIds -> TraceRecords]
  BY DEF Collectors
<1> DEFINE f == [c.trace EXCEPT ![a] = rec]
<1>2. f \in [RunIds -> TraceRecords] /\ \A t \in RunIds : f[t] = IF t = a THEN rec ELSE c.trace[t]
  BY <1>1
<1>3. d = [c EXCEPT !.trace = f]
  BY DEF WithTrace
<1> HIDE DEF f
<1> QED
  BY <1>2, <1>3 DEF Collectors

\* start_trace: the new trace is active and the run's own.
LEMMA StartTraceEffect ==
  ASSUME NEW c \in Collectors, NEW r \in RunIds, NEW d, d = StartTrace(c, r)
  PROVE  /\ d \in Collectors /\ d.active = r
         /\ \A t \in RunIds : /\ d.trace[t].open = c.trace[t].open
                              /\ d.trace[t].events = c.trace[t].events
                              /\ d.trace[t].by = IF t = r THEN {r} ELSE c.trace[t].by
<1>1. PICK b \in Collectors : b.trace = c.trace /\ b.active = r
  <2> DEFINE e == [c EXCEPT !.active = r]
  <2>1. e \in Collectors /\ e.trace = c.trace /\ e.active = r
    BY DEF Collectors
  <2> QED
    BY <2>1
<1>2. PICK rec : rec = [c.trace[r] EXCEPT !.by = {r}]
  OBVIOUS
<1>3. /\ rec \in TraceRecords /\ rec.open = c.trace[r].open
      /\ rec.events = c.trace[r].events /\ rec.by = {r}
  BY <1>2 DEF Collectors, TraceRecords
<1>4. PICK e : e = WithTrace(b, r, rec)
  OBVIOUS
<1>5. e \in Collectors /\ e.active = b.active /\ \A t \in RunIds : e.trace[t] = IF t = r THEN rec ELSE b.trace[t]
  BY <1>3, <1>4, SetTrace
<1>6. d = e
  BY <1>1, <1>2, <1>4 DEF StartTrace, WithTrace, Collectors
<1> QED
  BY <1>1, <1>3, <1>5, <1>6

\* create_span: the span is open in whatever trace is active, which the run
\* has now written to.
LEMMA OpenSpanEffect ==
  ASSUME NEW c \in Collectors, NEW r \in RunIds, NEW span \in Spans, NEW d, d = OpenSpan(c, r, span)
  PROVE  Written(c, r, {}, {span}, d)
<1>1. CASE c.active = NoTrace
  BY <1>1 DEF OpenSpan, RunIds, NoTrace, Written
<1>2. CASE c.active # NoTrace
  <2>1. PICK a \in RunIds : a = c.active
    BY <1>2 DEF Collectors
  <2>2. PICK rec : rec = [c.trace[a] EXCEPT !.open = @ \cup {span}, !.by = @ \cup {r}]
    OBVIOUS
  <2>3. /\ rec \in TraceRecords /\ rec.events = c.trace[a].events
        /\ rec.open = c.trace[a].open \cup {span} /\ rec.by = c.trace[a].by \cup {r}
    <3>1. c.trace[a] \in TraceRecords
      BY DEF Collectors
    <3>2. /\ c.trace[a].open \cup {span} \in SUBSET Spans /\ c.trace[a].by \cup {r} \in SUBSET RunIds
          /\ c.trace[a].events \in SUBSET TraceEvents
      BY <3>1 DEF TraceRecords
    <3>3. rec = [open |-> c.trace[a].open \cup {span}, by |-> c.trace[a].by \cup {r},
                 events |-> c.trace[a].events]
      BY <2>2, <3>1 DEF TraceRecords
    <3> QED
      BY <3>2, <3>3 DEF TraceRecords
  <2>4. PICK e : e = WithTrace(c, a, rec)
    OBVIOUS
  <2>5. e \in Collectors /\ e.active = c.active /\ \A t \in RunIds : e.trace[t] = IF t = a THEN rec ELSE c.trace[t]
    BY <2>3, <2>4, SetTrace
  <2>6. d = e
    BY <1>2, <2>1, <2>2, <2>4 DEF OpenSpan, WithTrace, Collectors
  <2> QED
    BY <2>1, <2>3, <2>5, <2>6 DEF Written
<1> QED
  BY <1>1, <1>2

\* Span.finish.
LEMMA CloseSpanEffect ==
  ASSUME NEW c \in Collectors, NEW r, NEW span, NEW d, d = CloseSpan(c, span)
  PROVE  /\ Written(c, r, {span}, {}, d)
         /\ \A t \in RunIds : d.trace[t].by = c.trace[t].by
<1>1. CASE c.active = NoTrace
  BY <1>1 DEF CloseSpan, RunIds, NoTrace, Written
<1>2. CASE c.active # NoTrace
  <2>1. PICK a \in RunIds : a = c.active
    BY <1>2 DEF Collectors
  <2>2. PICK rec : rec = [c.trace[a] EXCEPT !.open = @ \ {span}]
    OBVIOUS
  <2>3. /\ rec \in TraceRecords /\ rec.events = c.trace[a].events
        /\ rec.open = c.trace[a].open \ {span} /\ rec.by = c.trace[a].by
    BY <2>2 DEF Collectors, TraceRecords
  <2>4. PICK e : e = WithTrace(c, a, rec)
    OBVIOUS
  <2>5. e \in Collectors /\ e.active = c.active /\ \A t \in RunIds : e.trace[t] = IF t = a THEN rec ELSE c.trace[t]
    BY <2>3, <2>4, SetTrace
  <2>6. d = e
    BY <1>2, <2>1, <2>2, <2>4 DEF CloseSpan, WithTrace
  <2> QED
    BY <2>1, <2>3, <2>5, <2>6 DEF Written
<1> QED
  BY <1>1, <1>2

\* Two changes of the spans, one after the other.
LEMMA WrittenTwice ==
  ASSUME NEW c, NEW r, NEW old, NEW span, NEW m, NEW d,
         Written(c, r, {old}, {}, m), \A t \in RunIds : m.trace[t].by = c.trace[t].by,
         Written(m, r, {}, {span}, d)
  PROVE  Written(c, r, {old}, {span}, d)
BY DEF Written

\* One span is finished and the next one created.
LEMMA SwapSpanEffect ==
  ASSUME NEW c \in Collectors, NEW r \in RunIds, NEW old, NEW span \in Spans,
         NEW d, d = OpenSpan(CloseSpan(c, old), r, span)
  PROVE  Written(c, r, {old}, {span}, d)
<1>1. PICK m : m = CloseSpan(c, old)
  OBVIOUS
<1>2. Written(c, r, {old}, {}, m) /\ \A t \in RunIds : m.trace[t].by = c.trace[t].by
  BY <1>1, CloseSpanEffect
<1>3. m \in Collectors
  BY <1>2 DEF Written
<1>4. d = OpenSpan(m, r, span)
  BY <1>1
<1>5. Written(m, r, {}, {span}, d)
  BY <1>3, <1>4, OpenSpanEffect
<1> QED
  BY <1>2, <1>5, WrittenTwice

\* record: an event goes to the run's own trace, if it has one.
LEMMA RecordEventEffect ==
  ASSUME NEW c \in Collectors, NEW trace \in RunIds \cup {NoTrace}, NEW event \in TraceEvents,
         NEW d, d = RecordEvent(c, trace, event)
  PROVE  Recorded(c, trace, event, d)
<1>1. CASE trace = NoTrace
  BY <1>1 DEF RecordEvent, RunIds, NoTrace, Recorded
<1>2. CASE trace # NoTrace
  <2>1. PICK a \in RunIds : a = trace
    BY <1>2
  <2>2. PICK rec : rec = [c.trace[a] EXCEPT !.events = @ \cup {event}]
    OBVIOUS
  <2>3. /\ rec \in TraceRecords /\ rec.events = c.trace[a].events \cup {event}
        /\ rec.open = c.trace[a].open /\ rec.by = c.trace[a].by
    BY <2>2 DEF Collectors, TraceRecords
  <2>4. PICK e : e = WithTrace(c, a, rec)
    OBVIOUS
  <2>5. e \in Collectors /\ e.active = c.active /\ \A t \in RunIds : e.trace[t] = IF t = a THEN rec ELSE c.trace[t]
    BY <2>3, <2>4, SetTrace
  <2>6. d = e
    BY <1>2, <2>1, <2>2, <2>4 DEF RecordEvent, WithTrace
  <2> QED
    BY <2>1, <2>3, <2>5, <2>6 DEF Recorded
<1> QED
  BY <1>1, <1>2

-----------------------------------------------------------------------------
\* A run in progress is a run record; which one it is and which trace it has
\* never change.
Kept == /\ run # NoRun /\ run' # NoRun /\ run' \in RunRecords
        /\ run'.id = run.id /\ run'.trace = run.trace

\* A run that is not idle is a run record of a configured service.
LEMMA RunInProgress ==
  ASSUME PlatformTypeOK, run.pc # "idle"
  PROVE  run # NoRun /\ run \in RunRecords /\ service \in Configs
BY DEF PlatformTypeOK, NoRun

\* A tool is one of the run's plan.
LEMMA PlanHead ==
  ASSUME NEW plan \in Seq(Tools), plan # << >>
  PROVE  /\ Head(plan) \in Tools /\ Tail(plan) \in Seq(Tools) /\ Len(plan) \in Nat
         /\ Len(Tail(plan)) < Len(plan)
OBVIOUS

\* The spans a run opens.
LEMMA SpanKinds ==
  ASSUME PlatformTypeOK, run.pc # "idle"
  PROVE  /\ \A node \in {"planner", "tool", "judge"} : NodeSpan(node) \in Spans
         /\ run.plan # << >> => ToolSpan \in Spans
<1>1. run.id \in RunIds /\ run.plan \in Seq(Tools)
  BY RunInProgress DEF RunRecords
<1>2. run.plan # << >> => Head(run.plan) \in Tools /\ Len(run.plan) \in Nat
  BY <1>1, PlanHead
<1> QED
  BY <1>1, <1>2 DEF NodeSpan, ToolSpan, Spans

\* start_run: a new run, and with observation a new trace of its own.
LEMMA StartRunEffect ==
  ASSUME PlatformTypeOK, NEW text \in Texts, StartRun(text)
  PROVE  /\ run = NoRun /\ run' # NoRun /\ run' \in RunRecords /\ runs' = runs + 1 /\ runs' \in RunIds
         /\ run'.pc = "check" /\ run'.id = runs' /\ run'.sent = {} /\ run'.error = ""
         /\ run'.tries = 0
         /\ service \in Configs /\ result' = NoResult
         /\ UNCHANGED <<service, blocked, denied>>
         /\ collector' \in Collectors
         /\ \/ /\ run'.trace = runs'
               /\ collector'.active = runs'
               /\ gauge' = gauge + 1 /\ logId' = runs' /\ observed' = observed \cup {runs'}
               /\ \A t \in RunIds :
                    /\ collector'.trace[t].open = collector.trace[t].open
                    /\ collector'.trace[t].events =
                         IF t = runs' THEN collector.trace[t].events \cup {"start"}
                         ELSE collector.trace[t].events
                    /\ collector'.trace[t].by = IF t = runs' THEN {runs'} ELSE collector.trace[t].by
            \/ /\ run'.trace = NoTrace
               /\ UNCHANGED <<collector, gauge, logId, observed>>
<1>1. run = NoRun /\ service # NoService /\ runs < MaxRuns /\ runs' = runs + 1 /\ result' = NoResult
  BY DEF StartRun
<1>2. service \in Configs /\ collector \in Collectors
  BY <1>1 DEF PlatformTypeOK
<1>3. runs' \in RunIds
  BY <1>1, PlatformAssumption DEF PlatformTypeOK, RunIds
<1>4. PICK c \in Collectors, r \in RunIds, tr \in RunIds \cup {NoTrace} :
        c = collector /\ r = runs' /\ tr = IF service.observe THEN r ELSE NoTrace
  BY <1>2, <1>3
<1>5. /\ run' = [pc |-> "check", id |-> r, trace |-> tr,
                 text |-> text, status |-> "new", error |-> "", plan |-> << >>, tries |-> 0, sent |-> {}]
      /\ collector' = RecordEvent(IF service.observe THEN StartTrace(c, r) ELSE c, tr, "start")
      /\ UNCHANGED <<service, blocked, denied>>
      /\ IF service.observe
           THEN gauge' = gauge + 1 /\ logId' = r /\ observed' = observed \cup {r}
           ELSE UNCHANGED <<gauge, logId, observed>>
  BY <1>1, <1>4 DEF StartRun
<1>6. PICK q : q = run'
  OBVIOUS
<1>7. << >> \in Seq(Tools)
  OBVIOUS
<1>8. /\ q \in RunRecords /\ q # NoRun /\ q.pc = "check" /\ q.id = r /\ q.sent = {}
      /\ q.error = "" /\ q.tries = 0 /\ q.trace = tr
  BY <1>5, <1>6, <1>7 DEF RunRecords, NoRun
<1>11. /\ run = NoRun /\ run' # NoRun /\ run' \in RunRecords /\ runs' = runs + 1 /\ runs' \in RunIds
       /\ run'.pc = "check" /\ run'.id = runs' /\ run'.sent = {} /\ run'.error = ""
       /\ run'.tries = 0 /\ service \in Configs /\ result' = NoResult
  BY <1>1, <1>2, <1>3, <1>4, <1>6, <1>8
<1>9. CASE service.observe
  <2>1. tr = r
    BY <1>4, <1>9
  <2>2. PICK m : m = StartTrace(c, r)
    OBVIOUS
  <2>3. /\ m \in Collectors /\ m.active = r
        /\ \A t \in RunIds : /\ m.trace[t].open = c.trace[t].open
                             /\ m.trace[t].events = c.trace[t].events
                             /\ m.trace[t].by = IF t = r THEN {r} ELSE c.trace[t].by
    BY <2>2, StartTraceEffect
  <2>4. PICK n : n = RecordEvent(m, r, "start")
    OBVIOUS
  <2>5. Recorded(m, r, "start", n)
    <3>1. m \in Collectors /\ "start" \in TraceEvents /\ r \in RunIds \cup {NoTrace}
      BY <2>3 DEF TraceEvents
    <3> QED
      BY <3>1, <2>4, RecordEventEffect
  <2>6. collector' = n
    BY <1>5, <1>9, <2>1, <2>2, <2>4
  <2>7. gauge' = gauge + 1 /\ logId' = r /\ observed' = observed \cup {r}
    BY <1>5, <1>9
  <2>8. UNCHANGED <<service, blocked, denied>>
    BY <1>5
  <2>9. /\ run'.trace = runs' /\ collector'.active = runs'
        /\ gauge' = gauge + 1 /\ logId' = runs' /\ observed' = observed \cup {runs'}
    BY <1>4, <1>6, <1>8, <2>1, <2>3, <2>5, <2>6, <2>7 DEF Recorded
  <2>10. \A t \in RunIds :
           /\ collector'.trace[t].open = collector.trace[t].open
           /\ collector'.trace[t].events =
                IF t = runs' THEN collector.trace[t].events \cup {"start"}
                ELSE collector.trace[t].events
           /\ collector'.trace[t].by = IF t = runs' THEN {runs'} ELSE collector.trace[t].by
    <3>1. \A t \in RunIds : /\ n.trace[t].open = c.trace[t].open
                            /\ n.trace[t].events =
                                 IF t = r THEN c.trace[t].events \cup {"start"} ELSE c.trace[t].events
                            /\ n.trace[t].by = IF t = r THEN {r} ELSE c.trace[t].by
      BY <2>3, <2>5 DEF Recorded
    <3> QED
      BY <3>1, <1>4, <2>6
  <2>11. collector' \in Collectors
    BY <2>5, <2>6 DEF Recorded
  <2> QED
    BY <1>11, <2>8, <2>9, <2>10, <2>11, Zenon
<1>10. CASE ~service.observe
  <2>1. tr = NoTrace /\ UNCHANGED <<gauge, logId, observed>>
    BY <1>4, <1>5, <1>10
  <2>2. collector' = c
    BY <1>5, <1>10, <2>1 DEF RecordEvent
  <2> QED
    BY <1>4, <1>5, <1>6, <1>8, <1>11, <2>1, <2>2
<1> QED
  BY <1>9, <1>10

\* A step of the run inside its workflow: spans of the active trace begin or
\* end, nothing else of what the runs share changes.
NodeStep(gone, new) ==
  /\ Kept /\ run \in RunRecords
  /\ run.pc \notin {"idle", "report"} /\ run'.pc \notin {"idle", "report"}
  /\ Written(collector, run.id, gone, new, collector')
  /\ UNCHANGED <<service, gauge, logId, result, runs, observed, blocked>>

\* The same of a step that may record a block: a call that is denied.
RunStep(gone, new) ==
  /\ Kept /\ run \in RunRecords
  /\ run.pc \notin {"idle", "report"} /\ run'.pc \notin {"idle", "report"}
  /\ Moved(collector, run.id, gone, new, collector')
  /\ UNCHANGED <<service, gauge, logId, result, runs, observed, blocked>>

\* Most steps record nothing.
LEMMA QuietIsRunStep ==
  ASSUME NEW gone, NEW new, NodeStep(gone, new)
  PROVE  RunStep(gone, new)
BY DEF NodeStep, RunStep, Written, Moved

\* A step that leaves the collector alone.
LEMMA NothingWritten ==
  ASSUME NEW c \in Collectors, NEW r
  PROVE  Written(c, r, {}, {}, c)
BY DEF Written

\* _dispatch opens the planner's span or skips the workflow.
LEMMA DispatchEffect ==
  ASSUME PlatformTypeOK, Dispatch
  PROVE  /\ run.pc = "check" /\ run'.sent = run.sent /\ run'.error = run.error /\ denied' = denied
         /\ \/ run'.pc = "planner" /\ NodeStep({}, {NodeSpan("planner")})
            \/ run'.pc = "end" /\ NodeStep({}, {})
<1>1. /\ run.pc = "check" /\ UNCHANGED <<service, gauge, logId, result, runs, observed, blocked, denied>>
      /\ run' = [run EXCEPT !.pc = IF service.workflow THEN "planner" ELSE "end", !.status = "running"]
      /\ collector' = IF service.workflow THEN OpenSpan(collector, run.id, NodeSpan("planner")) ELSE collector
  BY DEF Dispatch
<1>2. PICK c \in Collectors, q \in RunRecords, pc \in {"planner", "end"} :
        c = collector /\ q = run /\ pc = IF service.workflow THEN "planner" ELSE "end"
  BY <1>1, RunInProgress DEF PlatformTypeOK
<1>3. PICK p : p = [q EXCEPT !.pc = pc, !.status = "running"]
  OBVIOUS
<1>4. /\ p \in RunRecords /\ p # NoRun /\ p.id = q.id /\ p.trace = q.trace
      /\ p.pc = pc /\ p.sent = q.sent /\ p.error = q.error /\ q.id \in RunIds
  BY <1>3 DEF RunRecords, NoRun
<1>5. /\ run' = p /\ run # NoRun /\ NodeSpan("planner") \in Spans
  BY <1>1, <1>2, <1>3, RunInProgress, SpanKinds
<1>6. Kept /\ run \in RunRecords
  BY <1>2, <1>4, <1>5 DEF Kept
<1>7. CASE service.workflow
  <2>0. PICK span \in Spans : span = NodeSpan("planner")
    BY <1>5
  <2>1. PICK d : d = OpenSpan(c, q.id, span)
    OBVIOUS
  <2>2. q.id \in RunIds
    BY <1>4
  <2>3. Written(c, q.id, {}, {span}, d)
    BY <2>1, <2>2, OpenSpanEffect
  <2>4. collector' = d /\ pc = "planner"
    BY <1>1, <1>2, <1>7, <2>0, <2>1
  <2>5. Written(collector, run.id, {}, {NodeSpan("planner")}, collector')
    BY <1>2, <2>0, <2>3, <2>4
  <2> QED
    BY <1>1, <1>2, <1>4, <1>5, <1>6, <2>4, <2>5 DEF NodeStep
<1>8. CASE ~service.workflow
  <2>1. collector' = c /\ pc = "end"
    BY <1>1, <1>2, <1>8
  <2>2. Written(collector, run.id, {}, {}, collector')
    BY <1>2, <2>1, NothingWritten
  <2> QED
    BY <1>1, <1>2, <1>4, <1>5, <1>6, <2>1, <2>2 DEF NodeStep
<1> QED
  BY <1>7, <1>8

\* The planner's span gives way to the tool node's; the run has a plan.
LEMMA PlannerEffect ==
  ASSUME PlatformTypeOK, NEW plan \in RunPlans, PlannerNode(plan)
  PROVE  /\ run.pc = "planner" /\ run'.pc = "tool" /\ run'.sent = run.sent /\ run'.error = run.error
         /\ denied' = denied /\ NodeStep({NodeSpan("planner")}, {NodeSpan("tool")})
<1>1. /\ run.pc = "planner" /\ UNCHANGED <<service, gauge, logId, result, runs, observed, blocked, denied>>
      /\ run' = [run EXCEPT !.pc = "tool", !.plan = plan]
      /\ collector' = OpenSpan(CloseSpan(collector, NodeSpan("planner")), run.id, NodeSpan("tool"))
  BY DEF PlannerNode
<1>2. PICK c \in Collectors, q \in RunRecords : c = collector /\ q = run
  BY <1>1, RunInProgress DEF PlatformTypeOK
<1>3. PICK p : p = [q EXCEPT !.pc = "tool", !.plan = plan]
  OBVIOUS
<1>4. plan \in Seq(Tools)
  BY PlatformAssumption
<1>5. /\ p \in RunRecords /\ p # NoRun /\ p.id = q.id /\ p.trace = q.trace
      /\ p.pc = "tool" /\ p.sent = q.sent /\ p.error = q.error /\ q.id \in RunIds
  BY <1>3, <1>4 DEF RunRecords, NoRun
<1>6. run' = p /\ run # NoRun /\ NodeSpan("tool") \in Spans
  BY <1>1, <1>2, <1>3, RunInProgress, SpanKinds
<1>7. Kept /\ run \in RunRecords
  BY <1>2, <1>5, <1>6 DEF Kept
<1>8. PICK span \in Spans, old \in {NodeSpan("planner")} : span = NodeSpan("tool") /\ old = NodeSpan("planner")
  BY <1>6
<1>9. PICK d : d = OpenSpan(CloseSpan(c, old), q.id, span)
  OBVIOUS
<1>10. q.id \in RunIds
  BY <1>5
<1>11. Written(c, q.id, {old}, {span}, d)
  BY <1>9, <1>10, SwapSpanEffect
<1>12. collector' = d
  BY <1>1, <1>2, <1>8, <1>9
<1>13. Written(collector, run.id, {NodeSpan("planner")}, {NodeSpan("tool")}, collector')
  BY <1>2, <1>8, <1>11, <1>12
<1> QED
  BY <1>1, <1>2, <1>5, <1>6, <1>7, <1>13 DEF NodeStep

\* The end of the plan: the tool node's span gives way to the judge's.
LEMMA EndOfPlanEffect ==
  ASSUME PlatformTypeOK, EndOfPlan
  PROVE  /\ run.pc = "tool" /\ run'.pc = "judge" /\ run'.sent = run.sent /\ run'.error = run.error /\ run'.plan = run.plan
         /\ denied' = denied /\ NodeStep({NodeSpan("tool")}, {NodeSpan("judge")})
<1>1. /\ run.pc = "tool" /\ UNCHANGED <<service, gauge, logId, result, runs, observed, blocked, denied>>
      /\ run' = [run EXCEPT !.pc = "judge"]
      /\ collector' = OpenSpan(CloseSpan(collector, NodeSpan("tool")), run.id, NodeSpan("judge"))
  BY DEF EndOfPlan
<1>2. PICK c \in Collectors, q \in RunRecords : c = collector /\ q = run
  BY <1>1, RunInProgress DEF PlatformTypeOK
<1>3. PICK p : p = [q EXCEPT !.pc = "judge"]
  OBVIOUS
<1>5. /\ p \in RunRecords /\ p # NoRun /\ p.id = q.id /\ p.trace = q.trace
      /\ p.pc = "judge" /\ p.sent = q.sent /\ p.error = q.error /\ p.plan = q.plan /\ q.id \in RunIds
  BY <1>3 DEF RunRecords, NoRun
<1>6. run' = p /\ run # NoRun /\ NodeSpan("judge") \in Spans
  BY <1>1, <1>2, <1>3, RunInProgress, SpanKinds
<1>7. Kept /\ run \in RunRecords
  BY <1>2, <1>5, <1>6 DEF Kept
<1>8. PICK span \in Spans, old \in {NodeSpan("tool")} : span = NodeSpan("judge") /\ old = NodeSpan("tool")
  BY <1>6
<1>9. PICK d : d = OpenSpan(CloseSpan(c, old), q.id, span)
  OBVIOUS
<1>10. q.id \in RunIds
  BY <1>5
<1>11. Written(c, q.id, {old}, {span}, d)
  BY <1>9, <1>10, SwapSpanEffect
<1>12. collector' = d
  BY <1>1, <1>2, <1>8, <1>9
<1>13. Written(collector, run.id, {NodeSpan("tool")}, {NodeSpan("judge")}, collector')
  BY <1>2, <1>8, <1>11, <1>12
<1> QED
  BY <1>1, <1>2, <1>5, <1>6, <1>7, <1>13 DEF NodeStep

\* The judge's span ends.
LEMMA JudgeEffect ==
  ASSUME PlatformTypeOK, JudgeNode
  PROVE  /\ run.pc = "judge" /\ run'.pc = "end" /\ run'.sent = run.sent /\ run'.error = run.error /\ run'.plan = run.plan
         /\ denied' = denied /\ NodeStep({NodeSpan(run.pc)}, {})
<1>1. /\ run.pc = "judge" /\ UNCHANGED <<service, gauge, logId, result, runs, observed, blocked, denied>>
      /\ run' = [run EXCEPT !.pc = "end"] /\ collector' = CloseSpan(collector, NodeSpan("judge"))
  BY DEF JudgeNode
<1>2. PICK c \in Collectors, q \in RunRecords : c = collector /\ q = run
  BY <1>1, RunInProgress DEF PlatformTypeOK
<1>3. PICK p : p = [q EXCEPT !.pc = "end"]
  OBVIOUS
<1>5. /\ p \in RunRecords /\ p # NoRun /\ p.id = q.id /\ p.trace = q.trace
      /\ p.pc = "end" /\ p.sent = q.sent /\ p.error = q.error /\ p.plan = q.plan /\ q.id \in RunIds
  BY <1>3 DEF RunRecords, NoRun
<1>6. run' = p /\ run # NoRun
  BY <1>1, <1>2, <1>3, RunInProgress
<1>7. Kept /\ run \in RunRecords
  BY <1>2, <1>5, <1>6 DEF Kept
<1>8. PICK old : old = NodeSpan("judge")
  OBVIOUS
<1>9. PICK d : d = CloseSpan(c, old)
  OBVIOUS
<1>11. Written(c, q.id, {old}, {}, d)
  BY <1>9, CloseSpanEffect
<1>12. collector' = d
  BY <1>1, <1>2, <1>8, <1>9
<1>13. Written(collector, run.id, {NodeSpan(run.pc)}, {}, collector')
  BY <1>1, <1>2, <1>8, <1>11, <1>12
<1> QED
  BY <1>1, <1>2, <1>5, <1>6, <1>7, <1>13 DEF NodeStep

\* The span of the node that raised ends, and the run has failed.
LEMMA NodeRaisesEffect ==
  ASSUME PlatformTypeOK, NodeRaises
  PROVE  /\ run.pc \in {"planner", "tool", "judge"} /\ run'.pc = "end" /\ run'.sent = run.sent
         /\ run'.error = "AgentError" /\ run'.plan = run.plan /\ denied' = denied /\ NodeStep({NodeSpan(run.pc)}, {})
<1>1. /\ run.pc \in {"planner", "tool", "judge"}
      /\ UNCHANGED <<service, gauge, logId, result, runs, observed, blocked, denied>>
      /\ run' = [run EXCEPT !.pc = "end", !.status = "failed", !.error = "AgentError"]
      /\ collector' = CloseSpan(collector, NodeSpan(run.pc))
  BY DEF NodeRaises
<1>2. PICK c \in Collectors, q \in RunRecords : c = collector /\ q = run
  BY <1>1, RunInProgress DEF PlatformTypeOK
<1>3. PICK p : p = [q EXCEPT !.pc = "end", !.status = "failed", !.error = "AgentError"]
  OBVIOUS
<1>5. /\ p \in RunRecords /\ p # NoRun /\ p.id = q.id /\ p.trace = q.trace
      /\ p.pc = "end" /\ p.sent = q.sent /\ p.error = "AgentError" /\ p.plan = q.plan /\ q.id \in RunIds
  BY <1>3 DEF RunRecords, NoRun
<1>6. run' = p /\ run # NoRun
  BY <1>1, <1>2, <1>3, RunInProgress
<1>7. Kept /\ run \in RunRecords
  BY <1>2, <1>5, <1>6 DEF Kept
<1>8. PICK old : old = NodeSpan(run.pc)
  OBVIOUS
<1>9. PICK d : d = CloseSpan(c, old)
  OBVIOUS
<1>11. Written(c, q.id, {old}, {}, d)
  BY <1>9, CloseSpanEffect
<1>12. collector' = d
  BY <1>1, <1>2, <1>8, <1>9
<1>13. Written(collector, run.id, {NodeSpan(run.pc)}, {}, collector')
  BY <1>2, <1>8, <1>11, <1>12
<1> QED
  BY <1>1, <1>2, <1>5, <1>6, <1>7, <1>13 DEF NodeStep

\* The active trace gains a block, no other trace an event.
BlockRecorded(c, d) ==
  \A t \in RunIds :
    d.trace[t].events = IF t = c.active THEN c.trace[t].events \cup {"block"} ELSE c.trace[t].events

\* A denied call opens its span and records the block, both in the active trace.
LEMMA DeniedCallEffect ==
  ASSUME NEW c \in Collectors, NEW r \in RunIds, NEW span \in Spans,
         NEW m, m = OpenSpan(c, r, span), NEW d, d = RecordEvent(m, m.active, "block")
  PROVE  Moved(c, r, {}, {span}, d) /\ BlockRecorded(c, d)
<1>1. Written(c, r, {}, {span}, m)
  BY OpenSpanEffect
<1>2. m \in Collectors /\ m.active = c.active /\ m.active \in RunIds \cup {NoTrace}
  BY <1>1 DEF Written, Collectors
<1>3. "block" \in TraceEvents
  BY DEF TraceEvents
<1>4. Recorded(m, m.active, "block", d)
  BY <1>2, <1>3, RecordEventEffect
<1>5. d \in Collectors /\ d.active = c.active
  BY <1>2, <1>4 DEF Recorded
<1>6. ASSUME NEW t \in RunIds
      PROVE  /\ d.trace[t].events = IF t = c.active THEN c.trace[t].events \cup {"block"}
                                    ELSE c.trace[t].events
             /\ d.trace[t].open = IF t = c.active THEN (c.trace[t].open \ {}) \cup {span}
                                  ELSE c.trace[t].open
             /\ \/ d.trace[t].by = c.trace[t].by
                \/ t = c.active /\ d.trace[t].by = c.trace[t].by \cup {r}
  <2>1. /\ m.trace[t].events = c.trace[t].events
        /\ m.trace[t].open = IF t = c.active THEN (c.trace[t].open \ {}) \cup {span} ELSE c.trace[t].open
        /\ \/ m.trace[t].by = c.trace[t].by
           \/ t = c.active /\ m.trace[t].by = c.trace[t].by \cup {r}
    BY <1>1 DEF Written
  <2>2. /\ d.trace[t].open = m.trace[t].open /\ d.trace[t].by = m.trace[t].by
        /\ d.trace[t].events = IF t = m.active THEN m.trace[t].events \cup {"block"} ELSE m.trace[t].events
    BY <1>4 DEF Recorded
  <2> QED
    BY <1>2, <2>1, <2>2
<1> QED
  BY <1>5, <1>6 DEF Moved, BlockRecorded

\* An admitted call opens its span and goes on; a denied one leaves its span
\* open, is recorded as a block, and is over.
LEMMA CallToolEffect ==
  ASSUME PlatformTypeOK, CallTool
  PROVE  /\ run.pc = "tool" /\ run.plan # << >> /\ run'.sent = run.sent /\ run'.error = run.error
         /\ \/ /\ run'.pc = "call" /\ run'.plan = run.plan /\ denied' = denied
               /\ Admits(Head(run.plan)) /\ NodeStep({}, {ToolSpan})
            \/ /\ run'.pc = "tool" /\ Len(run'.plan) < Len(run.plan) /\ denied' = denied \cup {ToolSpan}
               /\ ~Admits(Head(run.plan)) /\ RunStep({}, {ToolSpan}) /\ BlockRecorded(collector, collector')
<1>1. /\ run.pc = "tool" /\ run.plan # << >>
      /\ UNCHANGED <<service, gauge, logId, result, runs, observed, blocked>>
  BY DEF CallTool
<1>2. PICK c \in Collectors, q \in RunRecords : c = collector /\ q = run
  BY <1>1, RunInProgress DEF PlatformTypeOK
<1>3. run # NoRun /\ ToolSpan \in Spans
  BY <1>1, RunInProgress, SpanKinds
<1>4. q.id \in RunIds /\ q.plan \in Seq(Tools)
  BY DEF RunRecords
<1>5. PICK span \in Spans : span = ToolSpan
  BY <1>3
<1>6. PICK m : m = OpenSpan(c, q.id, span)
  OBVIOUS
<1>7. \/ /\ Admits(Head(run.plan)) /\ collector' = m
         /\ run' = [run EXCEPT !.pc = "call"] /\ denied' = denied
      \/ /\ ~Admits(Head(run.plan)) /\ collector' = RecordEvent(m, m.active, "block")
         /\ run' = [run EXCEPT !.plan = Tail(@)] /\ denied' = denied \cup {ToolSpan}
  BY <1>2, <1>5, <1>6 DEF CallTool
<1>8. CASE /\ Admits(Head(run.plan)) /\ collector' = m
           /\ run' = [run EXCEPT !.pc = "call"] /\ denied' = denied
  <2>1. PICK p : p = [q EXCEPT !.pc = "call"]
    OBVIOUS
  <2>2. /\ p \in RunRecords /\ p # NoRun /\ p.id = q.id /\ p.trace = q.trace
        /\ p.pc = "call" /\ p.sent = q.sent /\ p.error = q.error /\ p.plan = q.plan
    BY <2>1 DEF RunRecords, NoRun
  <2>3. run' = p
    BY <1>2, <1>8, <2>1
  <2>4. Kept /\ run \in RunRecords
    BY <1>2, <1>3, <2>2, <2>3 DEF Kept
  <2>5. Written(c, q.id, {}, {span}, m)
    BY <1>4, <1>6, OpenSpanEffect
  <2>6. Written(collector, run.id, {}, {ToolSpan}, collector')
    BY <1>2, <1>5, <1>8, <2>5
  <2> QED
    BY <1>1, <1>2, <1>8, <2>2, <2>3, <2>4, <2>6 DEF NodeStep
<1>9. CASE /\ ~Admits(Head(run.plan)) /\ collector' = RecordEvent(m, m.active, "block")
           /\ run' = [run EXCEPT !.plan = Tail(@)] /\ denied' = denied \cup {ToolSpan}
  <2>1. PICK p : p = [q EXCEPT !.plan = Tail(@)]
    OBVIOUS
  <2>2. Tail(q.plan) \in Seq(Tools) /\ Len(Tail(q.plan)) < Len(q.plan)
    BY <1>1, <1>2, <1>4, PlanHead
  <2>3. /\ p \in RunRecords /\ p # NoRun /\ p.id = q.id /\ p.trace = q.trace
        /\ p.pc = q.pc /\ p.sent = q.sent /\ p.error = q.error /\ p.plan = Tail(q.plan)
    BY <2>1, <2>2 DEF RunRecords, NoRun
  <2>4. run' = p
    BY <1>2, <1>9, <2>1
  <2>5. Kept /\ run \in RunRecords
    BY <1>2, <1>3, <2>3, <2>4 DEF Kept
  <2>6. PICK d : d = RecordEvent(m, m.active, "block")
    OBVIOUS
  <2>7. Moved(c, q.id, {}, {span}, d) /\ BlockRecorded(c, d)
    BY <1>4, <1>6, <2>6, DeniedCallEffect
  <2>8. Moved(collector, run.id, {}, {ToolSpan}, collector') /\ BlockRecorded(collector, collector')
    BY <1>2, <1>5, <1>9, <2>6, <2>7
  <2>9. RunStep({}, {ToolSpan})
    BY <1>1, <1>2, <2>3, <2>4, <2>5, <2>8 DEF RunStep
  <2> QED
    BY <1>1, <1>2, <1>9, <2>2, <2>3, <2>4, <2>8, <2>9
<1> QED
  BY <1>7, <1>8, <1>9

\* An attempt sends the call; it is either tried again or over.
LEMMA AttemptEffect ==
  ASSUME PlatformTypeOK, SentInv, NEW o \in HttpOutcomes, AttemptTool(o)
  PROVE  /\ run.pc = "call" /\ run.plan # << >> /\ run'.sent = run.sent \cup {Head(run.plan)}
         /\ run'.error = run.error /\ denied' = denied /\ Len(run'.plan) <= Len(run.plan)
         /\ \/ run'.pc = "call" /\ run'.plan = run.plan /\ NodeStep({}, {})
            \/ run'.pc = "tool" /\ NodeStep({ToolSpan}, {})
<1> DEFINE again == MayRetry(Head(run.plan), o, run.tries, RunRetries)
           tool == Head(run.plan)
<1>1. /\ run.pc = "call" /\ UNCHANGED <<service, gauge, logId, result, runs, observed, blocked, denied>>
      /\ run' = IF again THEN [run EXCEPT !.tries = @ + 1, !.sent = @ \cup {tool}]
                ELSE [run EXCEPT !.pc = "tool", !.tries = 0, !.plan = Tail(@), !.sent = @ \cup {tool}]
      /\ collector' = IF again THEN collector ELSE CloseSpan(collector, ToolSpan)
  BY DEF AttemptTool
<1>2. PICK c \in Collectors, q \in RunRecords, x \in {tool}, old \in {ToolSpan} : c = collector /\ q = run /\ x = tool /\ old = ToolSpan
  BY <1>1, RunInProgress DEF PlatformTypeOK
<1>3. run # NoRun
  BY <1>1, RunInProgress
<1>4. run.plan # << >>
  BY <1>1, <1>3 DEF SentInv
<1>5. q.plan \in Seq(Tools) /\ q.tries \in Nat /\ q.sent \in SUBSET Tools
  BY DEF RunRecords
<1>6. x \in Tools /\ Tail(q.plan) \in Seq(Tools) /\ Len(Tail(q.plan)) <= Len(q.plan) /\ Len(q.plan) \in Nat
  BY <1>2, <1>4, <1>5, PlanHead
<1> HIDE DEF again, tool
<1>7. CASE again
  <2>0. PICK n \in Nat, sent \in SUBSET Tools : n = q.tries + 1 /\ sent = q.sent \cup {x}
    <3>1. q.tries + 1 \in Nat /\ q.sent \cup {x} \in SUBSET Tools
      BY <1>5, <1>6
    <3> QED
      BY <3>1
  <2>1. PICK p : p = [q EXCEPT !.tries = n, !.sent = sent]
    OBVIOUS
  <2>2. /\ p \in RunRecords /\ p # NoRun /\ p.id = q.id /\ p.trace = q.trace
        /\ p.pc = q.pc /\ p.sent = sent /\ p.error = q.error /\ p.plan = q.plan
    BY <2>1 DEF RunRecords, NoRun
  <2>3. run' = p /\ collector' = c
    BY <1>1, <1>2, <1>7, <2>0, <2>1
  <2>4. Kept /\ run \in RunRecords
    BY <1>2, <1>3, <2>2, <2>3 DEF Kept
  <2>5. Written(collector, run.id, {}, {}, collector')
    BY <1>2, <2>3, NothingWritten
  <2> QED
    <3>1. run'.plan = run.plan /\ Len(run'.plan) <= Len(run.plan)
      BY <1>2, <1>6, <2>2, <2>3
    <3>2. NodeStep({}, {})
      BY <1>1, <1>2, <2>2, <2>3, <2>4, <2>5 DEF NodeStep
    <3> QED
      BY <1>1, <1>2, <1>4, <2>0, <2>2, <2>3, <3>1, <3>2 DEF tool
<1>8. CASE ~again
  <2>1. PICK p, d : /\ p = [q EXCEPT !.pc = "tool", !.tries = 0, !.plan = Tail(@), !.sent = @ \cup {x}]
                    /\ d = CloseSpan(c, old)
    OBVIOUS
  <2>2. /\ p \in RunRecords /\ p # NoRun /\ p.id = q.id /\ p.trace = q.trace
        /\ p.pc = "tool" /\ p.sent = q.sent \cup {x} /\ p.error = q.error /\ p.plan = Tail(q.plan)
    BY <1>5, <1>6, <2>1 DEF RunRecords, NoRun
  <2>3. run' = p /\ collector' = d
    BY <1>1, <1>2, <1>8, <2>1
  <2>4. Kept /\ run \in RunRecords
    BY <1>2, <1>3, <2>2, <2>3 DEF Kept
  <2>5. Written(c, q.id, {old}, {}, d)
    BY <2>1, CloseSpanEffect
  <2>6. Written(collector, run.id, {ToolSpan}, {}, collector')
    BY <1>2, <2>3, <2>5
  <2> QED
    BY <1>1, <1>2, <1>4, <1>6, <2>2, <2>3, <2>4, <2>6 DEF NodeStep, tool
<1> QED
  BY <1>7, <1>8

\* An error result ends the call, and nothing was sent.
LEMMA ToolErrorEffect ==
  ASSUME PlatformTypeOK, SentInv, ToolError
  PROVE  /\ run.pc = "call" /\ run'.pc = "tool" /\ run'.sent = run.sent /\ run'.error = run.error
         /\ denied' = denied /\ Len(run'.plan) <= Len(run.plan) /\ NodeStep({ToolSpan}, {})
<1>1. /\ run.pc = "call" /\ UNCHANGED <<service, gauge, logId, result, runs, observed, blocked, denied>>
      /\ run' = [run EXCEPT !.pc = "tool", !.plan = Tail(@)]
      /\ collector' = CloseSpan(collector, ToolSpan)
  BY DEF ToolError
<1>2. PICK c \in Collectors, q \in RunRecords, old \in {ToolSpan} : c = collector /\ q = run /\ old = ToolSpan
  BY <1>1, RunInProgress DEF PlatformTypeOK
<1>3. run # NoRun
  BY <1>1, RunInProgress
<1>4. run.plan # << >>
  BY <1>1, <1>3 DEF SentInv
<1>5. q.plan \in Seq(Tools)
  BY DEF RunRecords
<1>6. Tail(q.plan) \in Seq(Tools) /\ Len(Tail(q.plan)) <= Len(q.plan)
  BY <1>2, <1>4, <1>5, PlanHead
<1>7. PICK p, d : p = [q EXCEPT !.pc = "tool", !.plan = Tail(@)] /\ d = CloseSpan(c, old)
  OBVIOUS
<1>8. /\ p \in RunRecords /\ p # NoRun /\ p.id = q.id /\ p.trace = q.trace
      /\ p.pc = "tool" /\ p.sent = q.sent /\ p.error = q.error /\ p.plan = Tail(q.plan)
  BY <1>6, <1>7 DEF RunRecords, NoRun
<1>9. run' = p /\ collector' = d
  BY <1>1, <1>2, <1>7
<1>10. Kept /\ run \in RunRecords
  BY <1>2, <1>3, <1>8, <1>9 DEF Kept
<1>11. Written(c, q.id, {old}, {}, d)
  BY <1>7, CloseSpanEffect
<1>12. Written(collector, run.id, {ToolSpan}, {}, collector')
  BY <1>2, <1>9, <1>11
<1> QED
  BY <1>1, <1>2, <1>6, <1>8, <1>9, <1>10, <1>12 DEF NodeStep

\* The refused input: its event goes to the run's trace, the answer is set.
LEMMA BlockEffect ==
  ASSUME PlatformTypeOK, BlockInput
  PROVE  /\ run.pc = "check" /\ run \in RunRecords /\ Kept /\ run'.pc = "report" /\ run'.sent = run.sent
         /\ run'.error = "SecurityBlockedError"
         /\ Recorded(collector, run.trace, "block", collector')
         /\ blocked' = blocked \cup ({run.trace} \ {NoTrace})
         /\ UNCHANGED <<service, gauge, logId, result, runs, observed, denied>>
<1>1. /\ run.pc = "check" /\ UNCHANGED <<service, gauge, logId, result, runs, observed, denied>>
      /\ run' = [run EXCEPT !.pc = "report", !.status = "failed", !.error = "SecurityBlockedError"]
      /\ collector' = RecordEvent(collector, run.trace, "block")
      /\ blocked' = blocked \cup ({run.trace} \ {NoTrace})
  BY DEF BlockInput
<1>2. PICK c \in Collectors, q \in RunRecords : c = collector /\ q = run
  BY <1>1, RunInProgress DEF PlatformTypeOK
<1>3. run # NoRun
  BY <1>1, RunInProgress
<1>4. PICK p, d : /\ p = [q EXCEPT !.pc = "report", !.status = "failed", !.error = "SecurityBlockedError"]
                  /\ d = RecordEvent(c, q.trace, "block")
  OBVIOUS
<1>5. /\ p \in RunRecords /\ p # NoRun /\ p.id = q.id /\ p.trace = q.trace
      /\ p.pc = "report" /\ p.sent = q.sent /\ p.error = "SecurityBlockedError"
  BY <1>4 DEF RunRecords, NoRun
<1>6. run' = p /\ collector' = d
  BY <1>1, <1>2, <1>4
<1>7. q.trace \in RunIds \cup {NoTrace} /\ "block" \in TraceEvents
  BY DEF RunRecords, TraceEvents
<1>8. Recorded(c, q.trace, "block", d)
  BY <1>4, <1>7, RecordEventEffect
<1> QED
  BY <1>1, <1>2, <1>3, <1>5, <1>6, <1>8 DEF Kept

\* The end of run_state: its event, and the gauge taken back.
LEMMA FinishEffect ==
  ASSUME PlatformTypeOK, FinishRun
  PROVE  /\ run.pc = "end" /\ run \in RunRecords /\ Kept /\ run'.pc = "report" /\ run'.sent = run.sent
         /\ run'.error = run.error /\ run'.plan = run.plan
         /\ \E event \in Ends : Recorded(collector, run.trace, event, collector')
         /\ IF run.trace # NoTrace THEN gauge' = gauge - 1 /\ logId' = NoTrace
            ELSE UNCHANGED <<gauge, logId>>
         /\ UNCHANGED <<service, result, runs, observed, blocked, denied>>
<1>1. /\ run.pc = "end" /\ UNCHANGED <<service, result, runs, observed, blocked, denied>>
      /\ run' = [run EXCEPT !.pc = "report", !.status = IF @ = "failed" THEN @ ELSE "succeeded"]
      /\ collector' = RecordEvent(collector, run.trace, IF run.status = "failed" THEN "error" ELSE "end")
      /\ IF run.trace # NoTrace THEN gauge' = gauge - 1 /\ logId' = NoTrace ELSE UNCHANGED <<gauge, logId>>
  BY DEF FinishRun
<1>2. PICK c \in Collectors, q \in RunRecords, event \in Ends :
        c = collector /\ q = run /\ event = IF run.status = "failed" THEN "error" ELSE "end"
  BY <1>1, RunInProgress DEF PlatformTypeOK, Ends
<1>3. run # NoRun
  BY <1>1, RunInProgress
<1>4. PICK status : status = IF q.status = "failed" THEN q.status ELSE "succeeded"
  OBVIOUS
<1>5. PICK p, d : p = [q EXCEPT !.pc = "report", !.status = status] /\ d = RecordEvent(c, q.trace, event)
  OBVIOUS
<1>6. status \in {"failed", "succeeded"}
  BY <1>4
<1>7. /\ p \in RunRecords /\ p # NoRun /\ p.id = q.id /\ p.trace = q.trace
      /\ p.pc = "report" /\ p.sent = q.sent /\ p.error = q.error /\ p.plan = q.plan
  BY <1>5, <1>6 DEF RunRecords, NoRun
<1>8. run' = p /\ collector' = d
  BY <1>1, <1>2, <1>4, <1>5
<1>9. q.trace \in RunIds \cup {NoTrace} /\ event \in TraceEvents
  BY DEF RunRecords, TraceEvents
<1>10. Recorded(c, q.trace, event, d)
  BY <1>5, <1>9, RecordEventEffect
<1> QED
  BY <1>1, <1>2, <1>3, <1>7, <1>8, <1>10 DEF Kept

\* The answer: a success carries the active trace, a block no tool.
LEMMA ReportEffect ==
  ASSUME PlatformTypeOK, NEW evs, NEW raises, Report(evs, raises)
  PROVE  /\ run.pc = "report" /\ run' = NoRun /\ run # NoRun /\ run \in RunRecords
         /\ UNCHANGED <<service, collector, gauge, logId, runs, observed, blocked, denied>>
         /\ result'.id = run.id /\ result'.sent = run.sent
         /\ result'.success => result'.trace = collector.active
         /\ result'.error = "SecurityBlocked" => run.error = "SecurityBlockedError"
<1>1. /\ run.pc = "report" /\ run' = NoRun
      /\ UNCHANGED <<service, collector, gauge, logId, runs, observed, blocked, denied>>
  BY DEF Report
<1>2. run # NoRun /\ run \in RunRecords
  BY <1>1, RunInProgress
<1>3. run.error \in {"", "AgentError", "SecurityBlockedError"}
  BY <1>2 DEF RunRecords
<1>4. \/ result' = Answer(FALSE, IF run.error = "SecurityBlockedError" THEN "SecurityBlocked"
                                  ELSE run.error, NoTrace)
      \/ result' = Answer(FALSE, "EvaluationFailed", collector.active)
      \/ result' = Answer(TRUE, "", collector.active)
  BY DEF Report
<1>5. ASSUME NEW success, NEW error, NEW trace, result' = Answer(success, error, trace)
      PROVE  /\ result'.id = run.id /\ result'.sent = run.sent /\ result'.success = success
             /\ result'.error = error /\ result'.trace = trace
  BY <1>5 DEF Answer
<1>6. CASE result' = Answer(FALSE, IF run.error = "SecurityBlockedError" THEN "SecurityBlocked"
                                  ELSE run.error, NoTrace)
  <2>1. PICK error : error = IF run.error = "SecurityBlockedError" THEN "SecurityBlocked" ELSE run.error
    OBVIOUS
  <2>2. result' = Answer(FALSE, error, NoTrace)
    BY <1>6, <2>1
  <2>3. result'.id = run.id /\ result'.sent = run.sent /\ result'.success = FALSE /\ result'.error = error
    BY <2>2, <1>5, Zenon
  <2> QED
    BY <1>1, <1>2, <1>3, <2>1, <2>3
<1>7. CASE result' = Answer(FALSE, "EvaluationFailed", collector.active)
  <2>1. result'.id = run.id /\ result'.sent = run.sent /\ result'.success = FALSE /\ result'.error = "EvaluationFailed"
    BY <1>7, <1>5, Zenon
  <2> QED
    BY <1>1, <1>2, <2>1
<1>8. CASE result' = Answer(TRUE, "", collector.active)
  <2>1. /\ result'.id = run.id /\ result'.sent = run.sent /\ result'.error = ""
        /\ result'.trace = collector.active
    BY <1>8, <1>5, Zenon
  <2> QED
    BY <1>1, <1>2, <2>1
<1> QED
  BY <1>4, <1>6, <1>7, <1>8

-----------------------------------------------------------------------------
\* What every step inside the workflow keeps.
LEMMA RunStepType ==
  ASSUME PlatformTypeOK, NEW gone, NEW new, RunStep(gone, new)
  PROVE  PlatformTypeOK'
BY DEF PlatformTypeOK, RunStep, Kept, Moved

\* A run in the workflow writes to no trace of another observed run.
LEMMA RunStepAttributed ==
  ASSUME PlatformTypeOK, AttributedInv, NEW gone, NEW new, RunStep(gone, new)
  PROVE  AttributedInv'
<1>1. /\ run # NoRun /\ run' # NoRun /\ run'.id = run.id /\ run'.trace = run.trace /\ run.id \in RunIds
      /\ UNCHANGED <<runs, observed, result>>
  BY DEF RunStep, Kept, RunRecords
<1>2. /\ run.id = runs
      /\ \/ run.trace = run.id /\ run.id \in observed /\ collector.active = run.id
         \/ run.trace = NoTrace /\ run.id \notin observed
  BY <1>1 DEF AttributedInv
<1>3. \A t \in RunIds : \/ collector'.trace[t].by = collector.trace[t].by
                        \/ t = collector.active /\ collector'.trace[t].by = collector.trace[t].by \cup {run.id}
  BY DEF RunStep, Moved
<1>4. collector'.active = collector.active
  BY DEF RunStep, Moved
<1>5. run.id \in 1 .. runs
  BY <1>1, <1>2 DEF RunIds
<1>6. ASSUME NEW t \in RunIds
      PROVE  collector'.trace[t].by \subseteq 1 .. runs /\ collector'.trace[t].by \cap observed \subseteq {t}
  <2>1. collector.trace[t].by \subseteq 1 .. runs /\ collector.trace[t].by \cap observed \subseteq {t}
    BY DEF AttributedInv
  <2>2. CASE collector'.trace[t].by = collector.trace[t].by
    BY <2>1, <2>2
  <2>3. CASE t = collector.active /\ collector'.trace[t].by = collector.trace[t].by \cup {run.id}
    BY <1>2, <1>5, <2>1, <2>3
  <2> QED
    BY <1>3, <2>2, <2>3
<1>7. result # NoResult => (result.success /\ result.id \in observed => result.trace = result.id)
  BY DEF AttributedInv
<1> QED
  BY <1>1, <1>2, <1>4, <1>6, <1>7 DEF AttributedInv

\* It makes no trace known that was not, and its own stays in flight.
LEMMA RunStepKnown ==
  ASSUME PlatformTypeOK, FinishedInv, NEW gone, NEW new, RunStep(gone, new)
  PROVE  Known' = Known /\ InFlight' = InFlight
<1>1. \A t \in RunIds : \/ collector'.trace[t].by = collector.trace[t].by
                        \/ t = collector.active /\ collector'.trace[t].by = collector.trace[t].by \cup {run.id}
  BY DEF RunStep, Moved
<1>2. collector.active # NoTrace => collector.trace[collector.active].by # {}
  BY DEF FinishedInv
<1>3. \A t \in RunIds : collector'.trace[t].by # {} <=> collector.trace[t].by # {}
  BY <1>1, <1>2 DEF RunIds, NoTrace
<1>4. Known' = Known
  BY <1>3 DEF Known
<1>5. InFlight' = InFlight
  BY DEF RunStep, Kept, InFlight
<1> QED
  BY <1>4, <1>5

\* A step of the workflow neither ends a run nor blocks one.
LEMMA RunStepLeak ==
  ASSUME PlatformTypeOK, FinishedInv, LeakInv, NEW gone, NEW new, RunStep(gone, new)
  PROVE  LeakInv'
<1>1. Known' = Known /\ InFlight' = InFlight
  BY RunStepKnown
<1>2. UNCHANGED <<gauge, logId, blocked>>
  BY DEF RunStep
<1> QED
  BY <1>1, <1>2 DEF LeakInv

\* It leaves open what it should: what it had open ends, or is open still, or
\* was denied.
LEMMA RunStepFinished ==
  ASSUME PlatformTypeOK, AttributedInv, FinishedInv, NEW gone, NEW new, RunStep(gone, new),
         denied \subseteq denied', (OpenNow \ gone) \cup new \subseteq denied' \cup OpenNow'
  PROVE  FinishedInv'
<1>1. Known' = Known /\ InFlight' = InFlight
  BY RunStepKnown
<1>2. /\ collector'.active = collector.active /\ runs' = runs /\ blocked' = blocked
      /\ \A t \in RunIds :
           /\ \/ collector'.trace[t].events = collector.trace[t].events
              \/ collector'.trace[t].events = collector.trace[t].events \cup {"block"}
           /\ collector'.trace[t].open = IF t = collector.active THEN (collector.trace[t].open \ gone) \cup new
                                         ELSE collector.trace[t].open
           /\ \/ collector'.trace[t].by = collector.trace[t].by
              \/ t = collector.active /\ collector'.trace[t].by = collector.trace[t].by \cup {run.id}
  BY DEF RunStep, Moved
<1>3. ASSUME NEW t \in RunIds
      PROVE  collector'.trace[t].open \subseteq denied' \cup (IF collector'.active = t THEN OpenNow' ELSE {})
  <2>1. collector.trace[t].open \subseteq denied \cup (IF collector.active = t THEN OpenNow ELSE {})
    BY DEF FinishedInv
  <2>2. CASE t = collector.active
    <3>1. collector.trace[t].open \subseteq denied \cup OpenNow /\ collector'.active = t
      BY <1>2, <2>1, <2>2
    <3>2. collector'.trace[t].open = (collector.trace[t].open \ gone) \cup new
      BY <1>2, <2>2
    <3>3. collector'.trace[t].open \subseteq denied' \cup OpenNow'
      BY <3>1, <3>2
    <3> QED
      BY <3>1, <3>3
  <2>3. CASE t # collector.active
    BY <1>2, <2>1, <2>3
  <2> QED
    BY <2>2, <2>3
<1>4. \A t \in RunIds : EventsOf(t)' = EventsOf(t)
  BY <1>2 DEF EventsOf, Ends
<1>5. \A t \in RunIds : collector.trace[t].by # {} <=> collector'.trace[t].by # {}
  BY <1>1 DEF Known
<1>6. \A t \in RunIds : t > runs' => collector'.trace[t].by = {} /\ EventsOf(t)' = {}
  BY <1>2, <1>4, <1>5 DEF FinishedInv
<1>7. collector'.active # NoTrace => collector'.trace[collector'.active].by # {}
  BY <1>2, <1>5 DEF FinishedInv, PlatformTypeOK, Collectors
<1>8. \A t \in Known' : IF t \in InFlight' \cup blocked' THEN EventsOf(t)' = {} ELSE \E x \in Ends : EventsOf(t)' = {x}
  BY <1>1, <1>2, <1>4 DEF FinishedInv, Known
<1> QED
  BY <1>3, <1>6, <1>7, <1>8 DEF FinishedInv

\* What each step of the workflow does to the spans it has open and to what it
\* has sent.
WorkflowStep(gone, new) ==
  /\ RunStep(gone, new)
  /\ denied \subseteq denied'
  /\ (OpenNow \ gone) \cup new \subseteq denied' \cup OpenNow'
  /\ SentInv' /\ DeniedInv' /\ BlockInv'

\* A run in progress goes on naming its spans the same way.
LEMMA SpansKept ==
  ASSUME Kept
  PROVE  /\ \A node \in {"planner", "tool", "judge"} : NodeSpan(node)' = NodeSpan(node)
         /\ run'.plan = run.plan => ToolSpan' = ToolSpan
BY DEF Kept, NodeSpan, ToolSpan

\* What the invariant asks of the run after a step of the workflow.
LEMMA SentKept ==
  ASSUME SentInv, NEW gone, NEW new, RunStep(gone, new),
         \A tool \in run'.sent : Admits(tool),
         run'.pc = "call" => run'.plan # << >> /\ Admits(Head(run'.plan)),
         run'.pc \notin {"check", "planner"} \/ run'.sent = {},
         run'.error # "SecurityBlockedError"
  PROVE  SentInv'
<1>1. service' = service /\ result' = result
  BY DEF RunStep
<1>2. result # NoResult => (result.error = "SecurityBlocked" => result.sent = {})
  BY DEF SentInv
<1> QED
  BY <1>1, <1>2 DEF SentInv, Admits

\* The spans of the step the run is at are none of those of denied calls.
LEMMA SpansFresh ==
  ASSUME PlatformTypeOK, DeniedInv, run # NoRun
  PROVE  /\ \A node \in {"planner", "tool", "judge"} : NodeSpan(node) \notin denied
         /\ ToolSpan \notin denied
<1>1. run.plan \in Seq(Tools)
  BY DEF PlatformTypeOK, RunRecords
<1>2. ASSUME NEW s \in denied
      PROVE  /\ s[2] \in Tools /\ s[3] \in Nat
             /\ s[1] = run.id => s[3] > Len(run.plan)
  BY DEF DeniedInv
<1>3. ASSUME NEW node \in {"planner", "tool", "judge"}, NodeSpan(node) \in denied
      PROVE  FALSE
  BY <1>2, <1>3 DEF NodeSpan, Tools
<1>4. ASSUME ToolSpan \in denied
      PROVE  FALSE
  <2>1. ToolSpan[1] = run.id /\ ToolSpan[3] = Len(run.plan) /\ Len(run.plan) \in Nat
    BY <1>1 DEF ToolSpan
  <2> QED
    BY <1>2, <1>4, <2>1
<1> QED
  BY <1>3, <1>4

\* A step that denies nothing and does not go back in the plan.
LEMMA DeniedKept ==
  ASSUME PlatformTypeOK, DeniedInv, NEW gone, NEW new, RunStep(gone, new), denied' = denied,
         \/ run.pc \in {"check", "planner"}
         \/ run'.pc \notin {"check", "planner"} /\ Len(run'.plan) <= Len(run.plan)
  PROVE  DeniedInv'
<1>1. run # NoRun /\ run'.id = run.id /\ UNCHANGED <<service, runs>>
  BY DEF RunStep, Kept
<1>2. ASSUME NEW s \in denied'
      PROVE  /\ s \in (1 .. runs') \X Tools \X Nat
             /\ s[1] = run'.id =>
                  /\ run'.pc \notin {"check", "planner"} /\ s[3] > Len(run'.plan)
                  /\ service'.guarded /\ ~Permits(service'.policy, s[2])
  <2>1. /\ s \in (1 .. runs) \X Tools \X Nat
        /\ s[1] = run.id =>
             /\ run.pc \notin {"check", "planner"} /\ s[3] > Len(run.plan)
             /\ service.guarded /\ ~Permits(service.policy, s[2])
    BY <1>1 DEF DeniedInv
  <2>2. s[3] \in Nat
    BY <2>1
  <2>3. Len(run.plan) \in Nat /\ Len(run'.plan) \in Nat
    <3>1. run.plan \in Seq(Tools) /\ run'.plan \in Seq(Tools)
      BY DEF RunStep, Kept, RunRecords
    <3> QED
      BY <3>1
  <2> QED
    BY <1>1, <2>1, <2>2, <2>3
<1> QED
  BY <1>2 DEF DeniedInv

\* A denied call is a step of the plan that the run leaves behind.
LEMMA DeniedGrows ==
  ASSUME PlatformTypeOK, AttributedInv, DeniedInv, NEW gone, NEW new, RunStep(gone, new),
         run.pc = "tool", run'.pc = "tool", run.plan # << >>, ~Admits(Head(run.plan)),
         denied' = denied \cup {ToolSpan}, Len(run'.plan) < Len(run.plan)
  PROVE  DeniedInv'
<1>1. /\ run # NoRun /\ run'.id = run.id /\ UNCHANGED <<service, runs>> /\ run.id \in RunIds
      /\ run.plan \in Seq(Tools) /\ run'.plan \in Seq(Tools)
  BY DEF RunStep, Kept, RunRecords
<1>2. run.id \in 1 .. runs
  BY <1>1 DEF AttributedInv, RunIds
<1>3. Head(run.plan) \in Tools /\ Len(run.plan) \in Nat /\ Len(run'.plan) \in Nat
  BY <1>1, PlanHead
<1>4. ASSUME NEW s \in denied
      PROVE  /\ s \in (1 .. runs) \X Tools \X Nat
             /\ s[1] = run.id => s[3] > Len(run'.plan)
                  /\ service.guarded /\ ~Permits(service.policy, s[2])
  <2>1. /\ s \in (1 .. runs) \X Tools \X Nat
        /\ s[1] = run.id => s[3] > Len(run.plan) /\ service.guarded /\ ~Permits(service.policy, s[2])
    BY <1>1 DEF DeniedInv
  <2>2. s[3] \in Nat
    BY <2>1
  <2> QED
    BY <1>3, <2>1, <2>2
<1>5. /\ ToolSpan \in (1 .. runs) \X Tools \X Nat
      /\ ToolSpan[2] = Head(run.plan) /\ ToolSpan[3] = Len(run.plan)
  BY <1>2, <1>3 DEF ToolSpan
<1>6. service.guarded /\ ~Permits(service.policy, ToolSpan[2])
  BY <1>5 DEF Admits
<1>7. ASSUME NEW s \in denied'
      PROVE  /\ s \in (1 .. runs) \X Tools \X Nat
             /\ s[1] = run.id => s[3] > Len(run'.plan)
                  /\ service.guarded /\ ~Permits(service.policy, s[2])
  <2>1. CASE s \in denied
    BY <1>4, <2>1
  <2>2. CASE s = ToolSpan
    BY <1>3, <1>5, <1>6, <2>2
  <2> QED
    BY <2>1, <2>2
<1> QED
  BY <1>1, <1>7 DEF DeniedInv

\* A step that closes spans of its own and opens fresh ones leaves none behind.
LEMMA BlocksKept ==
  ASSUME PlatformTypeOK, FinishedInv, BlockInv, NEW gone, NEW new, NodeStep(gone, new),
         gone \subseteq OpenNow, OpenNow' = (OpenNow \ gone) \cup new, \A x \in new : x \notin denied
  PROVE  BlockInv'
<1>1. /\ collector'.active = collector.active /\ blocked' = blocked
      /\ \A t \in RunIds :
           /\ collector'.trace[t].events = collector.trace[t].events
           /\ collector'.trace[t].open = IF t = collector.active THEN (collector.trace[t].open \ gone) \cup new
                                         ELSE collector.trace[t].open
  BY DEF NodeStep, Written
<1>2. ASSUME NEW t \in RunIds
      PROVE  LeftOpen(t)' = LeftOpen(t)
  <2>1. CASE t = collector.active
    <3>1. collector.trace[t].open \subseteq denied \cup OpenNow
      BY <2>1 DEF FinishedInv
    <3>2. collector'.trace[t].open = (collector.trace[t].open \ gone) \cup new
      BY <1>1, <2>1
    <3>3. collector'.trace[t].open \ OpenNow' = collector.trace[t].open \ OpenNow
      BY <3>1, <3>2
    <3> QED
      BY <1>1, <2>1, <3>3 DEF LeftOpen
  <2>2. CASE t # collector.active
    BY <1>1, <2>2 DEF LeftOpen
  <2> QED
    BY <2>1, <2>2
<1>3. Known' = Known
  BY QuietIsRunStep, RunStepKnown
<1> QED
  BY <1>1, <1>2, <1>3 DEF BlockInv

\* A denied call leaves its span open and a block beside it.
LEMMA BlocksGrow ==
  ASSUME PlatformTypeOK, FinishedInv, BlockInv, RunStep({}, {ToolSpan}), BlockRecorded(collector, collector'),
         OpenNow' = OpenNow, ToolSpan \notin OpenNow
  PROVE  BlockInv'
<1>1. /\ collector'.active = collector.active /\ blocked' = blocked
      /\ \A t \in RunIds :
           /\ collector'.trace[t].events = IF t = collector.active THEN collector.trace[t].events \cup {"block"}
                                           ELSE collector.trace[t].events
           /\ collector'.trace[t].open = IF t = collector.active THEN collector.trace[t].open \cup {ToolSpan}
                                         ELSE collector.trace[t].open
  BY DEF RunStep, Moved, BlockRecorded
<1>2. ASSUME NEW t \in RunIds
      PROVE  "block" \in collector'.trace[t].events <=> t \in blocked \cap Known \/ LeftOpen(t)' # {}
  <2>1. CASE t = collector.active
    <3>1. LeftOpen(t)' = collector'.trace[t].open \ OpenNow'
      BY <1>1, <2>1 DEF LeftOpen
    <3>2. ToolSpan \in LeftOpen(t)'
      BY <1>1, <2>1, <3>1
    <3> QED
      BY <1>1, <2>1, <3>2
  <2>2. CASE t # collector.active
    BY <1>1, <2>2 DEF LeftOpen, BlockInv
  <2> QED
    BY <2>1, <2>2
<1>3. Known' = Known
  BY RunStepKnown
<1> QED
  BY <1>1, <1>2, <1>3 DEF BlockInv

\* Every step of a run but a denied call: it opens fresh spans and closes the
\* run's own.
LEMMA QuietStep ==
  ASSUME PlatformTypeOK, DeniedInv, FinishedInv, BlockInv, NEW gone, NEW new, NodeStep(gone, new),
         SentInv', denied' = denied,
         \/ run.pc \in {"check", "planner"}
         \/ run'.pc \notin {"check", "planner"} /\ Len(run'.plan) <= Len(run.plan),
         gone \subseteq OpenNow, OpenNow' = (OpenNow \ gone) \cup new, \A x \in new : x \notin denied
  PROVE  WorkflowStep(gone, new)
<1>1. RunStep(gone, new)
  BY QuietIsRunStep
<1>2. DeniedInv'
  BY <1>1, DeniedKept
<1>3. BlockInv'
  BY BlocksKept
<1> QED
  BY <1>1, <1>2, <1>3 DEF WorkflowStep

\* Every step inside a run is a step of the workflow: it opens and closes the
\* spans it names, sends only what the policy permits, and leaves the rest.
LEMMA WorkflowSteps ==
  ASSUME PlatformTypeOK, SentInv, AttributedInv, DeniedInv, FinishedInv, BlockInv,
         \/ Dispatch
         \/ \E plan \in RunPlans : PlannerNode(plan)
         \/ CallTool
         \/ \E o \in HttpOutcomes : AttemptTool(o)
         \/ ToolError
         \/ EndOfPlan
         \/ JudgeNode
         \/ NodeRaises
  PROVE  \E gone, new : WorkflowStep(gone, new)
<1>0. ASSUME run.pc \notin {"idle", "report"}
      PROVE  /\ run # NoRun /\ \A tool \in run.sent : Admits(tool)
             /\ run.error # "SecurityBlockedError"
             /\ run.pc = "call" => Admits(Head(run.plan))
             /\ run.pc \in {"check", "planner"} => run.sent = {}
             /\ \A node \in {"planner", "tool", "judge"} : NodeSpan(node) \notin denied
             /\ ToolSpan \notin denied
             /\ Len(run.plan) \in Nat
             /\ run.plan # << >> => Head(run.plan) \notin {"planner", "tool", "judge"}
  <2>1. run # NoRun /\ run.plan \in Seq(Tools)
    BY <1>0, RunInProgress DEF RunRecords
  <2>2. Len(run.plan) \in Nat /\ (run.plan # << >> => Head(run.plan) \in Tools)
    BY <2>1, PlanHead
  <2> QED
    BY <2>1, <2>2, <1>0, SpansFresh DEF SentInv, Tools
<1>1. CASE Dispatch
  <2>1. /\ run.pc = "check" /\ run'.sent = run.sent /\ run'.error = run.error /\ denied' = denied
        /\ \/ run'.pc = "planner" /\ NodeStep({}, {NodeSpan("planner")})
           \/ run'.pc = "end" /\ NodeStep({}, {})
    BY <1>1, DispatchEffect
  <2>2. Kept /\ run # NoRun /\ run' # NoRun
    BY <2>1 DEF NodeStep, Kept
  <2>3. OpenNow = {}
    BY <2>1 DEF OpenNow
  <2>4. run'.sent = {} /\ run'.error # "SecurityBlockedError" /\ NodeSpan("planner") \notin denied
    BY <1>0, <2>1
  <2>5. CASE run'.pc = "planner"
    <3>1. OpenNow' = {NodeSpan("planner")} /\ NodeStep({}, {NodeSpan("planner")})
      BY <2>1, <2>2, <2>5, SpansKept DEF OpenNow
    <3>2. SentInv'
      BY <2>4, <2>5, <3>1, SentKept, QuietIsRunStep
    <3>3. OpenNow' = (OpenNow \ {}) \cup {NodeSpan("planner")}
      BY <2>3, <3>1
    <3> QED
      BY <2>1, <2>4, <3>1, <3>2, <3>3, QuietStep
  <2>6. CASE run'.pc = "end"
    <3>1. NodeStep({}, {}) /\ OpenNow' = {}
      BY <2>1, <2>2, <2>6 DEF OpenNow
    <3>2. SentInv'
      BY <2>4, <2>6, <3>1, SentKept, QuietIsRunStep
    <3>3. OpenNow' = (OpenNow \ {}) \cup {}
      BY <2>3, <3>1
    <3> QED
      BY <2>1, <3>1, <3>2, <3>3, QuietStep
  <2> QED
    BY <2>1, <2>5, <2>6
<1>2. ASSUME NEW plan \in RunPlans, PlannerNode(plan)
      PROVE  WorkflowStep({NodeSpan("planner")}, {NodeSpan("tool")})
  <2>1. /\ run.pc = "planner" /\ run'.pc = "tool" /\ run'.sent = run.sent /\ run'.error = run.error
        /\ denied' = denied /\ NodeStep({NodeSpan("planner")}, {NodeSpan("tool")})
    BY <1>2, PlannerEffect
  <2>2. Kept /\ run # NoRun /\ run' # NoRun
    BY <2>1 DEF NodeStep, Kept
  <2>3. OpenNow = {NodeSpan("planner")} /\ OpenNow' = {NodeSpan("tool")}
    BY <2>1, <2>2, SpansKept DEF OpenNow
  <2>4. SentInv'
    BY <1>0, <2>1, SentKept, QuietIsRunStep
  <2>5. /\ {NodeSpan("planner")} \subseteq OpenNow
        /\ OpenNow' = (OpenNow \ {NodeSpan("planner")}) \cup {NodeSpan("tool")}
        /\ \A x \in {NodeSpan("tool")} : x \notin denied
    BY <1>0, <2>1, <2>3
  <2> QED
    BY <2>1, <2>4, <2>5, QuietStep
<1>3. CASE CallTool
  <2>1. /\ run.pc = "tool" /\ run.plan # << >> /\ run'.sent = run.sent /\ run'.error = run.error
        /\ \/ /\ run'.pc = "call" /\ run'.plan = run.plan /\ denied' = denied
              /\ Admits(Head(run.plan)) /\ NodeStep({}, {ToolSpan})
           \/ /\ run'.pc = "tool" /\ Len(run'.plan) < Len(run.plan) /\ denied' = denied \cup {ToolSpan}
              /\ ~Admits(Head(run.plan)) /\ RunStep({}, {ToolSpan}) /\ BlockRecorded(collector, collector')
    BY <1>3, CallToolEffect
  <2>2. run # NoRun /\ OpenNow = {NodeSpan("tool")}
    BY <1>0, <2>1 DEF OpenNow
  <2>3. ToolSpan \notin OpenNow /\ ToolSpan \notin denied /\ Len(run.plan) \in Nat
    BY <1>0, <2>1, <2>2 DEF NodeSpan, ToolSpan
  <2>4. CASE /\ run'.pc = "call" /\ run'.plan = run.plan /\ denied' = denied
             /\ Admits(Head(run.plan)) /\ NodeStep({}, {ToolSpan})
    <3>1. Kept /\ run' # NoRun
      BY <2>4 DEF NodeStep, Kept
    <3>2. OpenNow' = {NodeSpan("tool"), ToolSpan}
      BY <2>4, <3>1, SpansKept DEF OpenNow
    <3>3. SentInv'
      BY <1>0, <2>1, <2>4, SentKept, QuietIsRunStep
    <3>4. OpenNow' = (OpenNow \ {}) \cup {ToolSpan} /\ \A x \in {ToolSpan} : x \notin denied
      BY <2>2, <2>3, <3>2
    <3>5. run'.pc \notin {"check", "planner"} /\ Len(run'.plan) <= Len(run.plan)
      BY <2>3, <2>4
    <3> QED
      BY <2>4, <3>3, <3>4, <3>5, QuietStep
  <2>5. CASE /\ run'.pc = "tool" /\ Len(run'.plan) < Len(run.plan) /\ denied' = denied \cup {ToolSpan}
             /\ ~Admits(Head(run.plan)) /\ RunStep({}, {ToolSpan}) /\ BlockRecorded(collector, collector')
    <3>1. Kept /\ run' # NoRun
      BY <2>5 DEF RunStep, Kept
    <3>2. OpenNow' = OpenNow
      BY <2>2, <2>5, <3>1, SpansKept DEF OpenNow
    <3>3. SentInv'
      BY <1>0, <2>1, <2>5, SentKept
    <3>4. DeniedInv'
      BY <2>1, <2>5, DeniedGrows
    <3>5. BlockInv'
      BY <2>3, <2>5, <3>2, BlocksGrow
    <3>6. denied \subseteq denied' /\ (OpenNow \ {}) \cup {ToolSpan} \subseteq denied' \cup OpenNow'
      BY <2>5, <3>2
    <3> QED
      BY <2>5, <3>3, <3>4, <3>5, <3>6 DEF WorkflowStep
  <2> QED
    BY <2>1, <2>4, <2>5
<1>4. ASSUME NEW o \in HttpOutcomes, AttemptTool(o)
      PROVE  \E gone : WorkflowStep(gone, {})
  <2>1. /\ run.pc = "call" /\ run.plan # << >> /\ run'.sent = run.sent \cup {Head(run.plan)}
        /\ run'.error = run.error /\ denied' = denied /\ Len(run'.plan) <= Len(run.plan)
        /\ \/ run'.pc = "call" /\ run'.plan = run.plan /\ NodeStep({}, {})
           \/ run'.pc = "tool" /\ NodeStep({ToolSpan}, {})
    BY <1>4, AttemptEffect
  <2>2. Kept /\ run # NoRun /\ run' # NoRun
    BY <2>1 DEF NodeStep, Kept
  <2>3. OpenNow = {NodeSpan("tool"), ToolSpan} /\ NodeSpan("tool") # ToolSpan
    BY <1>0, <2>1, <2>2 DEF OpenNow, NodeSpan, ToolSpan
  <2>4. \A tool \in run'.sent : Admits(tool)
    BY <1>0, <2>1
  <2>5. CASE run'.pc = "call" /\ run'.plan = run.plan /\ NodeStep({}, {})
    <3>1. OpenNow' = OpenNow
      BY <2>2, <2>3, <2>5, SpansKept DEF OpenNow
    <3>2. SentInv'
      BY <1>0, <2>1, <2>4, <2>5, SentKept, QuietIsRunStep
    <3>3. OpenNow' = (OpenNow \ {}) \cup {}
      BY <3>1
    <3> QED
      BY <2>1, <2>5, <3>2, <3>3, QuietStep
  <2>6. CASE run'.pc = "tool" /\ NodeStep({ToolSpan}, {})
    <3>1. OpenNow' = {NodeSpan("tool")}
      BY <2>2, <2>6, SpansKept DEF OpenNow
    <3>2. SentInv'
      BY <1>0, <2>1, <2>4, <2>6, SentKept, QuietIsRunStep
    <3>3. {ToolSpan} \subseteq OpenNow /\ OpenNow' = (OpenNow \ {ToolSpan}) \cup {}
      BY <2>3, <3>1
    <3> QED
      BY <2>1, <2>6, <3>2, <3>3, QuietStep
  <2> QED
    BY <2>1, <2>5, <2>6
<1>5. CASE ToolError
  <2>1. /\ run.pc = "call" /\ run'.pc = "tool" /\ run'.sent = run.sent /\ run'.error = run.error
        /\ denied' = denied /\ Len(run'.plan) <= Len(run.plan) /\ NodeStep({ToolSpan}, {})
    BY <1>5, ToolErrorEffect
  <2>2. Kept /\ run # NoRun /\ run' # NoRun /\ run.plan # << >>
    BY <2>1 DEF NodeStep, Kept, SentInv
  <2>3. /\ OpenNow = {NodeSpan("tool"), ToolSpan} /\ OpenNow' = {NodeSpan("tool")}
        /\ NodeSpan("tool") # ToolSpan
    BY <1>0, <2>1, <2>2, SpansKept DEF OpenNow, NodeSpan, ToolSpan
  <2>4. SentInv'
    BY <1>0, <2>1, SentKept, QuietIsRunStep
  <2>5. {ToolSpan} \subseteq OpenNow /\ OpenNow' = (OpenNow \ {ToolSpan}) \cup {}
    BY <2>3
  <2> QED
    BY <2>1, <2>4, <2>5, QuietStep
<1>6. CASE EndOfPlan
  <2>1. /\ run.pc = "tool" /\ run'.pc = "judge" /\ run'.sent = run.sent /\ run'.error = run.error
        /\ run'.plan = run.plan /\ denied' = denied /\ NodeStep({NodeSpan("tool")}, {NodeSpan("judge")})
    BY <1>6, EndOfPlanEffect
  <2>2. Kept /\ run # NoRun /\ run' # NoRun
    BY <2>1 DEF NodeStep, Kept
  <2>3. OpenNow = {NodeSpan("tool")} /\ OpenNow' = {NodeSpan("judge")}
    BY <2>1, <2>2, SpansKept DEF OpenNow
  <2>4. SentInv'
    BY <1>0, <2>1, SentKept, QuietIsRunStep
  <2>5. /\ {NodeSpan("tool")} \subseteq OpenNow
        /\ OpenNow' = (OpenNow \ {NodeSpan("tool")}) \cup {NodeSpan("judge")}
        /\ \A x \in {NodeSpan("judge")} : x \notin denied
        /\ Len(run'.plan) <= Len(run.plan)
    BY <1>0, <2>1, <2>3
  <2> QED
    BY <2>1, <2>4, <2>5, QuietStep
<1>7. ASSUME JudgeNode \/ NodeRaises
      PROVE  WorkflowStep({NodeSpan(run.pc)}, {})
  <2>1. /\ run.pc \in {"planner", "tool", "judge"} /\ run'.pc = "end" /\ run'.sent = run.sent
        /\ run'.error \in {run.error, "AgentError"} /\ run'.plan = run.plan /\ denied' = denied
        /\ NodeStep({NodeSpan(run.pc)}, {})
    BY <1>7, JudgeEffect, NodeRaisesEffect
  <2>2. Kept /\ run # NoRun /\ run' # NoRun
    BY <2>1 DEF NodeStep, Kept
  <2>3. OpenNow = {NodeSpan(run.pc)} /\ OpenNow' = {}
    BY <2>1, <2>2 DEF OpenNow
  <2>4. SentInv'
    BY <1>0, <2>1, SentKept, QuietIsRunStep
  <2>5. /\ {NodeSpan(run.pc)} \subseteq OpenNow
        /\ OpenNow' = (OpenNow \ {NodeSpan(run.pc)}) \cup {}
        /\ Len(run'.plan) <= Len(run.plan)
    BY <1>0, <2>1, <2>3
  <2> QED
    BY <2>1, <2>4, <2>5, QuietStep
<1> QED
  BY <1>1, <1>2, <1>3, <1>4, <1>5, <1>6, <1>7

-----------------------------------------------------------------------------
\* NewCollector holds nothing.
LEMMA EmptyCollector ==
  /\ NewCollector \in Collectors /\ NewCollector.active = NoTrace
  /\ \A t \in RunIds : /\ NewCollector.trace[t].open = {} /\ NewCollector.trace[t].by = {}
                       /\ NewCollector.trace[t].events = {}
BY DEF NewCollector, Collectors, TraceRecords, NoSpan

\* No trace is in flight between runs.
LEMMA NoneInFlight ==
  /\ run = NoRun => InFlight = {} /\ OpenNow = {}
  /\ run.pc = "report" => InFlight = {}
BY DEF InFlight, OpenNow, NoRun

\* A platform that has not been configured yet satisfies the invariant.
LEMMA PlatformStart == PlatformInit => PlatformInv
<1> SUFFICES ASSUME PlatformInit PROVE PlatformInv
  OBVIOUS
<1>1. /\ service = NoService /\ collector = NewCollector /\ gauge = 0 /\ logId = NoTrace /\ run = NoRun
      /\ result = NoResult /\ runs = 0 /\ observed = {} /\ blocked = {} /\ denied = {}
  BY DEF PlatformInit
<1>2. PlatformTypeOK
  BY <1>1, EmptyCollector, PlatformAssumption DEF PlatformTypeOK
<1>3. SentInv
  BY <1>1 DEF SentInv
<1>4. AttributedInv
  BY <1>1, EmptyCollector DEF AttributedInv
<1>5. Known = {} /\ InFlight = {}
  BY <1>1, EmptyCollector, NoneInFlight DEF Known
<1>6. FinishedInv
  BY <1>1, <1>5, EmptyCollector, NoneInFlight DEF FinishedInv, EventsOf
<1>7. LeakInv
  BY <1>1, <1>5, FS_EmptySet DEF LeakInv
<1>8. DeniedInv /\ BlockInv
  BY <1>1, EmptyCollector DEF DeniedInv, BlockInv, LeftOpen
<1> QED
  BY <1>2, <1>3, <1>4, <1>6, <1>7, <1>8 DEF PlatformInv

\* A step of the workflow keeps the invariant.
LEMMA WorkflowKeeps ==
  ASSUME PlatformInv, NEW gone, NEW new, WorkflowStep(gone, new)
  PROVE  PlatformInv'
<1>1. /\ PlatformTypeOK /\ SentInv /\ AttributedInv /\ FinishedInv /\ LeakInv
      /\ RunStep(gone, new) /\ SentInv' /\ DeniedInv' /\ BlockInv'
  BY DEF PlatformInv, WorkflowStep
<1>2. PlatformTypeOK'
  BY <1>1, RunStepType
<1>3. AttributedInv'
  BY <1>1, RunStepAttributed
<1>4. FinishedInv'
  BY <1>1, RunStepFinished DEF WorkflowStep
<1>5. LeakInv'
  BY <1>1, RunStepLeak
<1> QED
  BY <1>1, <1>2, <1>3, <1>4, <1>5 DEF PlatformInv

\* A service built between runs, or refused.
LEMMA CreateKeeps ==
  ASSUME PlatformInv, NEW c \in Configs, NEW f, NEW explicit, CreateService(c, f, explicit)
  PROVE  PlatformInv'
<1>1. /\ run = NoRun /\ service' \in Configs \cup {NoService}
      /\ UNCHANGED <<collector, gauge, logId, run, result, runs, observed, blocked, denied>>
  BY DEF CreateService
<1>2. /\ PlatformTypeOK /\ SentInv /\ DeniedInv /\ AttributedInv /\ FinishedInv /\ BlockInv /\ LeakInv
  BY DEF PlatformInv
<1>3. PlatformTypeOK'
  BY <1>1, <1>2 DEF PlatformTypeOK
<1>4. SentInv'
  BY <1>1, <1>2 DEF SentInv
<1>5. AttributedInv'
  BY <1>1, <1>2 DEF AttributedInv
<1>6. Known' = Known /\ InFlight' = InFlight /\ OpenNow' = {} /\ OpenNow = {} /\ \A t : EventsOf(t)' = EventsOf(t)
  BY <1>1, NoneInFlight DEF Known, InFlight, OpenNow, EventsOf
<1>7. FinishedInv'
  BY <1>1, <1>2, <1>6 DEF FinishedInv
<1>8. LeakInv'
  BY <1>1, <1>2, <1>6 DEF LeakInv
<1>9. DeniedInv'
  BY <1>1, <1>2 DEF DeniedInv
<1>10. BlockInv'
  BY <1>1, <1>2, <1>6 DEF BlockInv, LeftOpen
<1> QED
  BY <1>3, <1>4, <1>5, <1>7, <1>8, <1>9, <1>10 DEF PlatformInv

\* The collector dropped: no trace is known and the gauge is back at zero.
LEMMA ResetKeeps ==
  ASSUME PlatformInv, ResetCollector
  PROVE  PlatformInv'
<1>1. /\ run = NoRun /\ collector' = NewCollector /\ gauge' = 0
      /\ UNCHANGED <<service, logId, run, result, runs, observed, blocked, denied>>
  BY DEF ResetCollector
<1>2. /\ PlatformTypeOK /\ SentInv /\ DeniedInv /\ AttributedInv /\ FinishedInv /\ BlockInv /\ LeakInv
  BY DEF PlatformInv
<1>3. PlatformTypeOK'
  BY <1>1, <1>2, EmptyCollector DEF PlatformTypeOK
<1>4. SentInv'
  BY <1>1, <1>2 DEF SentInv
<1>5. AttributedInv'
  BY <1>1, <1>2, EmptyCollector DEF AttributedInv
<1>6. Known' = {} /\ InFlight = {} /\ InFlight' = {} /\ OpenNow' = {} /\ \A t \in RunIds : EventsOf(t)' = {}
  BY <1>1, EmptyCollector, NoneInFlight DEF Known, InFlight, OpenNow, EventsOf
<1>7. FinishedInv'
  BY <1>1, <1>6, EmptyCollector DEF FinishedInv
<1>8. LeakInv'
  BY <1>1, <1>2, <1>6, FS_EmptySet DEF LeakInv
<1>9. DeniedInv'
  BY <1>1, <1>2 DEF DeniedInv
<1>10. BlockInv'
  BY <1>1, <1>6, EmptyCollector DEF BlockInv, LeftOpen
<1> QED
  BY <1>3, <1>4, <1>5, <1>7, <1>8, <1>9, <1>10 DEF PlatformInv

\* The answer of a run: nothing the runs share changes.
LEMMA ReportKeeps ==
  ASSUME PlatformInv, NEW evs, NEW raises, Report(evs, raises)
  PROVE  PlatformInv'
<1>1. /\ run.pc = "report" /\ run' = NoRun /\ run # NoRun /\ run \in RunRecords
      /\ UNCHANGED <<service, collector, gauge, logId, runs, observed, blocked, denied>>
      /\ result'.id = run.id /\ result'.sent = run.sent
      /\ result'.success => result'.trace = collector.active
      /\ result'.error = "SecurityBlocked" => run.error = "SecurityBlockedError"
  BY ReportEffect DEF PlatformInv
<1>2. /\ PlatformTypeOK /\ SentInv /\ DeniedInv /\ AttributedInv /\ FinishedInv /\ BlockInv /\ LeakInv
  BY DEF PlatformInv
<1>3. PlatformTypeOK'
  BY <1>1, <1>2 DEF PlatformTypeOK
<1>4. SentInv'
  BY <1>1, <1>2 DEF SentInv
<1>5. AttributedInv'
  BY <1>1, <1>2 DEF AttributedInv
<1>6. Known' = Known /\ InFlight' = {} /\ InFlight = {} /\ OpenNow' = {} /\ OpenNow = {}
      /\ \A t : EventsOf(t)' = EventsOf(t)
  <2>1. Known' = Known /\ \A t : EventsOf(t)' = EventsOf(t)
    BY <1>1 DEF Known, EventsOf
  <2>2. InFlight' = {} /\ OpenNow' = {}
    BY <1>1 DEF InFlight, OpenNow, NoRun
  <2>3. InFlight = {} /\ OpenNow = {}
    BY <1>1 DEF InFlight, OpenNow
  <2> QED
    BY <2>1, <2>2, <2>3
<1>7. FinishedInv'
  BY <1>1, <1>2, <1>6 DEF FinishedInv
<1>8. LeakInv'
  BY <1>1, <1>2, <1>6 DEF LeakInv
<1>9. DeniedInv'
  BY <1>1, <1>2 DEF DeniedInv
<1>10. BlockInv'
  BY <1>1, <1>2, <1>6 DEF BlockInv, LeftOpen
<1> QED
  BY <1>3, <1>4, <1>5, <1>7, <1>8, <1>9, <1>10 DEF PlatformInv

\* The runs are finitely many.
LEMMA FiniteRuns ==
  ASSUME NEW S, S \subseteq RunIds
  PROVE  IsFiniteSet(S)
<1>1. IsFiniteSet(1 .. MaxRuns)
  BY FS_Interval, PlatformAssumption
<1> QED
  BY <1>1, FS_Subset DEF RunIds

\* The number of the next run.
LEMMA NextRun ==
  ASSUME NEW n \in 0 .. MaxRuns, NEW m \in RunIds, m = n + 1
  PROVE  /\ n \in Nat /\ m \in Nat /\ m \in 0 .. MaxRuns /\ m > n /\ m # 0
         /\ m \in 1 .. m /\ m \notin 1 .. n
         /\ \A x : x \in 1 .. n => x \in 1 .. m
         /\ \A x \in RunIds : x > m => x # m /\ x > n
BY PlatformAssumption DEF RunIds

\* A new run: when it is observed its trace is in flight, and the gauge counts it.
LEMMA StartKeeps ==
  ASSUME PlatformInv, NEW text \in Texts, StartRun(text)
  PROVE  PlatformInv'
<1>1. /\ PlatformTypeOK /\ SentInv /\ DeniedInv /\ AttributedInv /\ FinishedInv /\ BlockInv /\ LeakInv
  BY DEF PlatformInv
<1>2. /\ run = NoRun /\ run' # NoRun /\ run' \in RunRecords /\ runs' = runs + 1 /\ runs' \in RunIds
      /\ run'.pc = "check" /\ run'.id = runs' /\ run'.sent = {} /\ run'.error = ""
      /\ service \in Configs /\ result' = NoResult
      /\ UNCHANGED <<service, blocked, denied>>
      /\ collector' \in Collectors
  BY <1>1, StartRunEffect
<1>5. /\ runs \in Nat /\ runs' \in Nat /\ runs' \in 0 .. MaxRuns /\ runs' > runs /\ runs' # NoTrace
      /\ runs' \in 1 .. runs' /\ runs' \notin 1 .. runs
      /\ \A x : x \in 1 .. runs => x \in 1 .. runs'
      /\ \A x \in RunIds : x > runs' => x # runs' /\ x > runs
  <2>1. runs \in 0 .. MaxRuns /\ runs' = runs + 1 /\ runs' \in RunIds
    BY <1>1, <1>2 DEF PlatformTypeOK
  <2> QED
    BY <2>1, NextRun DEF NoTrace
<1>6. observed \subseteq 1 .. runs /\ blocked \subseteq 1 .. runs
  BY <1>1 DEF PlatformTypeOK
<1>7. DeniedInv'
  <2>1. ASSUME NEW s \in denied'
        PROVE  s \in (1 .. runs') \X Tools \X Nat /\ s[1] # run'.id
    <3>1. s \in (1 .. runs) \X Tools \X Nat
      BY <1>1, <1>2 DEF DeniedInv
    <3>2. s[1] \in 1 .. runs
      BY <3>1
    <3>3. s[1] \in 1 .. runs' /\ s[1] # runs'
      BY <1>5, <3>2
    <3> QED
      BY <1>2, <3>1, <3>3
  <2> QED
    BY <2>1 DEF DeniedInv
<1>3. CASE /\ run'.trace = runs' /\ collector'.active = runs'
           /\ gauge' = gauge + 1 /\ logId' = runs' /\ observed' = observed \cup {runs'}
           /\ \A t \in RunIds :
                /\ collector'.trace[t].open = collector.trace[t].open
                /\ collector'.trace[t].events =
                     IF t = runs' THEN collector.trace[t].events \cup {"start"}
                     ELSE collector.trace[t].events
                /\ collector'.trace[t].by = IF t = runs' THEN {runs'} ELSE collector.trace[t].by
  <2>1. gauge \in Int
    BY <1>1 DEF PlatformTypeOK
  <2>2. runs' \notin blocked /\ runs' \notin observed /\ runs' # NoTrace
    BY <1>5, <1>6
  <2>12. observed' \subseteq 1 .. runs' /\ blocked' \subseteq 1 .. runs'
    BY <1>2, <1>3, <1>5, <1>6
  <2>3. PlatformTypeOK'
    <3>3. gauge' \in Int
      BY <1>3, <2>1
    <3>4. logId' \in RunIds \cup {NoTrace}
      BY <1>2, <1>3
    <3>1. gauge' \in Int /\ logId' \in RunIds \cup {NoTrace} /\ runs' \in 0 .. MaxRuns
      BY <1>5, <3>3, <3>4
    <3>2. service' \in Configs \cup {NoService}
      BY <1>2
    <3> QED
      BY <1>2, <2>12, <3>1, <3>2 DEF PlatformTypeOK
  <2>4. SentInv'
    BY <1>2 DEF SentInv
  <2>5. AttributedInv'
    <3>1. ASSUME NEW t \in RunIds
          PROVE  collector'.trace[t].by \subseteq 1 .. runs' /\ collector'.trace[t].by \cap observed' \subseteq {t}
      <4>1. collector.trace[t].by \subseteq 1 .. runs /\ collector.trace[t].by \cap observed \subseteq {t}
        BY <1>1 DEF AttributedInv
      <4>2. CASE t = runs'
        <5>1. collector'.trace[t].by = {runs'}
          BY <1>3, <4>2
        <5> QED
          BY <1>5, <4>2, <5>1
      <4>3. CASE t # runs'
        <5>1. collector'.trace[t].by = collector.trace[t].by /\ observed' = observed \cup {runs'}
          BY <1>3, <4>3
        <5>2. runs' \notin collector.trace[t].by
          BY <1>5, <4>1
        <5>3. collector'.trace[t].by \subseteq 1 .. runs'
          BY <1>5, <4>1, <5>1
        <5> QED
          BY <4>1, <5>1, <5>2, <5>3
      <4> QED
        BY <4>2, <4>3
    <3>2. run'.id = runs' /\ run'.trace = run'.id /\ run'.id \in observed' /\ collector'.active = run'.id
      BY <1>2, <1>3
    <3> QED
      BY <1>2, <3>1, <3>2 DEF AttributedInv
  <2>6. InFlight = {} /\ OpenNow = {} /\ InFlight' = {runs'} /\ OpenNow' = {}
    BY <1>2, <1>3, <2>2, NoneInFlight DEF InFlight, OpenNow
  <2>7. Known' = Known \cup {runs'}
    BY <1>2, <1>3 DEF Known
  <2>8. \A t \in RunIds : EventsOf(t)' = EventsOf(t)
    BY <1>3 DEF EventsOf, Ends
  <2>9. runs' > runs /\ EventsOf(runs') = {}
    BY <1>1, <1>2, <1>5 DEF FinishedInv
  <2>10. FinishedInv'
    <3>1. \A t \in RunIds : collector'.trace[t].open
                              \subseteq denied' \cup (IF collector'.active = t THEN OpenNow' ELSE {})
      BY <1>1, <1>2, <1>3, <2>6 DEF FinishedInv
    <3>2. ASSUME NEW t \in RunIds, t > runs'
          PROVE  collector'.trace[t].by = {} /\ EventsOf(t)' = {}
      <4>1. t # runs' /\ t > runs
        BY <1>5, <3>2
      <4> QED
        BY <1>1, <1>3, <2>8, <4>1 DEF FinishedInv
    <3>3. collector'.trace[collector'.active].by # {}
      BY <1>2, <1>3
    <3>4. \A t \in Known' : IF t \in InFlight' \cup blocked' THEN EventsOf(t)' = {}
                            ELSE \E x \in Ends : EventsOf(t)' = {x}
      <4>1. ASSUME NEW t \in Known'
            PROVE  IF t \in InFlight' \cup blocked' THEN EventsOf(t)' = {}
                   ELSE \E x \in Ends : EventsOf(t)' = {x}
        <5>1. CASE t = runs'
          BY <1>2, <2>6, <2>8, <2>9, <5>1
        <5>2. CASE t # runs'
          <6>1. t \in Known /\ t \in RunIds /\ t \notin InFlight' /\ t \notin InFlight
            BY <2>6, <2>7, <4>1, <5>2 DEF Known
          <6>2. t \in InFlight' \cup blocked' <=> t \in InFlight \cup blocked
            BY <1>2, <6>1
          <6>3. EventsOf(t)' = EventsOf(t)
            BY <2>8, <6>1
          <6>4. IF t \in InFlight \cup blocked THEN EventsOf(t) = {} ELSE \E x \in Ends : EventsOf(t) = {x}
            BY <1>1, <6>1 DEF FinishedInv
          <6> QED
            BY <6>2, <6>3, <6>4
        <5> QED
          BY <5>1, <5>2
      <4> QED
        BY <4>1
    <3> QED
      BY <3>1, <3>2, <3>3, <3>4 DEF FinishedInv
  <2>11. LeakInv'
    <3>1. PICK S : S = blocked \cap Known
      OBVIOUS
    <3>2. IsFiniteSet(S) /\ runs' \notin S
      BY <2>2, <3>1, FiniteRuns DEF Known
    <3>3. Cardinality(S \cup {runs'}) = Cardinality(S) + 1
      BY <3>2, FS_AddElement
    <3>4. gauge = Cardinality(S)
      BY <1>1, <2>6, <3>1 DEF LeakInv
    <3>5. (blocked' \cap Known') \cup InFlight' = S \cup {runs'}
      BY <1>2, <2>2, <2>6, <2>7, <3>1
    <3> QED
      BY <1>2, <1>3, <2>2, <2>6, <3>3, <3>4, <3>5 DEF LeakInv
  <2>13. BlockInv'
    <3>1. blocked' \cap Known' = blocked \cap Known
      BY <1>2, <2>2, <2>7
    <3>2. \A t \in RunIds : LeftOpen(t)' = LeftOpen(t)
      BY <1>3, <2>6 DEF LeftOpen
    <3>3. \A t \in RunIds : "block" \in collector'.trace[t].events <=> "block" \in collector.trace[t].events
      <4>1. \A t \in RunIds : collector'.trace[t].events = collector.trace[t].events \cup {"start"}
                             \/ collector'.trace[t].events = collector.trace[t].events
        BY <1>3
      <4> QED
        BY <4>1
    <3> QED
      BY <1>1, <3>1, <3>2, <3>3 DEF BlockInv
  <2> QED
    BY <1>7, <2>3, <2>4, <2>5, <2>10, <2>11, <2>13 DEF PlatformInv
<1>4. CASE run'.trace = NoTrace /\ UNCHANGED <<collector, gauge, logId, observed>>
  <2>2. runs' \notin observed /\ 1 .. runs \subseteq 1 .. runs'
    BY <1>5, <1>6
  <2>3. PlatformTypeOK'
    BY <1>1, <1>2, <1>4, <1>5, <1>6 DEF PlatformTypeOK
  <2>4. SentInv'
    BY <1>2 DEF SentInv
  <2>5. AttributedInv'
    BY <1>1, <1>2, <1>4, <2>2 DEF AttributedInv
  <2>6. InFlight = {} /\ OpenNow = {} /\ InFlight' = {} /\ OpenNow' = {}
    BY <1>2, <1>4, NoneInFlight DEF InFlight, OpenNow
  <2>7. Known' = Known /\ \A t : EventsOf(t)' = EventsOf(t)
    BY <1>4 DEF Known, EventsOf
  <2>8. \A t \in RunIds : t > runs' => t > runs
    BY <1>5
  <2>9. FinishedInv'
    BY <1>1, <1>2, <1>4, <2>6, <2>7, <2>8 DEF FinishedInv
  <2>10. LeakInv'
    BY <1>1, <1>2, <1>4, <2>6, <2>7 DEF LeakInv
  <2>11. BlockInv'
    BY <1>1, <1>2, <1>4, <2>6, <2>7 DEF BlockInv, LeftOpen
  <2> QED
    BY <1>7, <2>3, <2>4, <2>5, <2>9, <2>10, <2>11 DEF PlatformInv
<1> QED
  BY <1>1, <1>3, <1>4, StartRunEffect

\* The event that ends a run or blocks it: its trace has no other, and is not in
\* flight any more.
LEMMA EndEvent ==
  ASSUME PlatformTypeOK, DeniedInv, AttributedInv, FinishedInv, BlockInv, LeakInv,
         NEW event \in Ends \cup {"block"},
         run.pc \in {"check", "end"}, run \in RunRecords, Kept, run'.pc = "report",
         run.pc = "check" \/ run'.plan = run.plan,
         Recorded(collector, run.trace, event, collector'),
         blocked' = IF event = "block" THEN blocked \cup ({run.trace} \ {NoTrace}) ELSE blocked,
         UNCHANGED <<service, runs, observed, result, denied>>
  PROVE  /\ DeniedInv' /\ AttributedInv' /\ FinishedInv' /\ BlockInv'
         /\ Known' = Known /\ InFlight' = {} /\ InFlight = {run.trace} \ {NoTrace}
         /\ InFlight \subseteq Known /\ InFlight \subseteq 1 .. runs
<1>1. /\ run # NoRun /\ run' # NoRun /\ run'.id = run.id /\ run'.trace = run.trace /\ run.id \in RunIds
      /\ run.trace \in RunIds \cup {NoTrace}
  BY DEF Kept, RunRecords
<1>2. /\ run.id = runs
      /\ \/ run.trace = run.id /\ run.id \in observed /\ collector.active = run.id
         \/ run.trace = NoTrace /\ run.id \notin observed
  BY <1>1 DEF AttributedInv
<1>3. /\ collector'.active = collector.active
      /\ \A t \in RunIds :
           /\ collector'.trace[t].open = collector.trace[t].open
           /\ collector'.trace[t].events = IF t = run.trace THEN collector.trace[t].events \cup {event}
                                           ELSE collector.trace[t].events
           /\ collector'.trace[t].by = collector.trace[t].by
  BY DEF Recorded
<1>4. InFlight' = {} /\ InFlight = {run.trace} \ {NoTrace} /\ OpenNow = {} /\ OpenNow' = {}
  BY DEF InFlight, OpenNow
<1>5. Known' = Known
  BY <1>3 DEF Known
<1>6. run.trace # NoTrace => run.trace \in Known /\ run.trace \in 1 .. runs
  BY <1>1, <1>2 DEF FinishedInv, Known, RunIds
<1>7. AttributedInv'
  BY <1>1, <1>2, <1>3 DEF AttributedInv
<1>8. \A t \in RunIds : EventsOf(t)' = IF t = run.trace /\ event # "block" THEN EventsOf(t) \cup {event}
                                       ELSE EventsOf(t)
  BY <1>3 DEF EventsOf, Ends
<1>10. InFlight \cap blocked = {} /\ (run.trace \in RunIds => run.trace # NoTrace)
  BY DEF LeakInv, RunIds, NoTrace
<1>9. FinishedInv'
  <2>1. \A t \in RunIds : collector'.trace[t].open
                            \subseteq denied' \cup (IF collector'.active = t THEN OpenNow' ELSE {})
    BY <1>3, <1>4 DEF FinishedInv
  <2>2. ASSUME NEW t \in RunIds, t > runs'
        PROVE  collector'.trace[t].by = {} /\ EventsOf(t)' = {}
    <3>1. t # run.trace
      BY <1>1, <1>2, <2>2 DEF RunIds, NoTrace
    <3>2. t > runs
      BY <2>2
    <3>3. collector.trace[t].by = {} /\ EventsOf(t) = {}
      BY <2>2, <3>2 DEF FinishedInv
    <3>4. EventsOf(t)' = EventsOf(t)
      BY <1>8, <2>2, <3>1
    <3> QED
      BY <1>3, <2>2, <3>3, <3>4
  <2>3. collector'.active # NoTrace => collector'.trace[collector'.active].by # {}
    BY <1>3 DEF FinishedInv, PlatformTypeOK, Collectors
  <2>4. ASSUME NEW t \in Known'
        PROVE  IF t \in InFlight' \cup blocked' THEN EventsOf(t)' = {}
               ELSE \E x \in Ends : EventsOf(t)' = {x}
    <3>1. t \in Known /\ t \in RunIds
      BY <1>5, <2>4 DEF Known
    <3>2. IF t \in InFlight \cup blocked THEN EventsOf(t) = {} ELSE \E x \in Ends : EventsOf(t) = {x}
      BY <3>1 DEF FinishedInv
    <3>3. CASE t = run.trace
      <4>1. t \in InFlight
        BY <1>4, <3>1, <3>3 DEF RunIds, NoTrace
      <4>2. EventsOf(t) = {} /\ t \notin blocked
        BY <1>10, <3>2, <4>1
      <4>3. CASE event = "block"
        BY <1>4, <1>8, <3>1, <3>3, <4>1, <4>2, <4>3
      <4>4. CASE event # "block"
        BY <1>4, <1>8, <3>1, <3>3, <4>2, <4>4
      <4> QED
        BY <4>3, <4>4
    <3>4. CASE t # run.trace
      <4>1. EventsOf(t)' = EventsOf(t) /\ (t \in blocked' <=> t \in blocked) /\ t \notin InFlight'
            /\ t \notin InFlight
        BY <1>4, <1>8, <3>1, <3>4
      <4> QED
        BY <3>2, <4>1
    <3> QED
      BY <3>3, <3>4
  <2> QED
    BY <2>1, <2>2, <2>3, <2>4 DEF FinishedInv
<1>11. DeniedInv'
  <2>1. ASSUME NEW s \in denied'
        PROVE  /\ s \in (1 .. runs') \X Tools \X Nat
               /\ s[1] = run'.id =>
                    /\ run'.pc \notin {"check", "planner"} /\ s[3] > Len(run'.plan)
                    /\ service'.guarded /\ ~Permits(service'.policy, s[2])
    <3>1. /\ s \in (1 .. runs) \X Tools \X Nat
          /\ s[1] = run.id =>
               /\ run.pc \notin {"check", "planner"} /\ s[3] > Len(run.plan)
               /\ service.guarded /\ ~Permits(service.policy, s[2])
      BY <1>1 DEF DeniedInv
    <3> QED
      BY <1>1, <3>1
  <2> QED
    BY <2>1 DEF DeniedInv
<1>12. BlockInv'
  <2>1. \A t \in RunIds : LeftOpen(t)' = LeftOpen(t)
    BY <1>3, <1>4 DEF LeftOpen
  <2>2. ASSUME NEW t \in RunIds
        PROVE  "block" \in collector'.trace[t].events <=> t \in blocked' \cap Known' \/ LeftOpen(t)' # {}
    <3>1. "block" \in collector.trace[t].events <=> t \in blocked \cap Known \/ LeftOpen(t) # {}
      BY DEF BlockInv
    <3>2. CASE event = "block" /\ t = run.trace
      <4>1. t \in blocked' \cap Known' /\ "block" \in collector'.trace[t].events
        BY <1>3, <1>5, <1>6, <1>10, <3>2
      <4> QED
        BY <4>1
    <3>3. CASE event # "block" \/ t # run.trace
      <4>1. /\ "block" \in collector'.trace[t].events <=> "block" \in collector.trace[t].events
            /\ t \in blocked' <=> t \in blocked
        BY <1>3, <3>3
      <4> QED
        BY <1>5, <2>1, <3>1, <4>1
    <3> QED
      BY <3>2, <3>3
  <2> QED
    BY <2>2 DEF BlockInv
<1> QED
  BY <1>4, <1>5, <1>6, <1>7, <1>9, <1>11, <1>12

\* The refused input: the run is blocked, and stays in the gauge's count.
LEMMA BlockKeeps ==
  ASSUME PlatformInv, BlockInput
  PROVE  PlatformInv'
<1>1. /\ PlatformTypeOK /\ SentInv /\ DeniedInv /\ AttributedInv /\ FinishedInv /\ BlockInv /\ LeakInv
  BY DEF PlatformInv
<1>2. /\ run.pc = "check" /\ run \in RunRecords /\ Kept /\ run'.pc = "report" /\ run'.sent = run.sent
      /\ run'.error = "SecurityBlockedError"
      /\ Recorded(collector, run.trace, "block", collector')
      /\ blocked' = blocked \cup ({run.trace} \ {NoTrace})
      /\ UNCHANGED <<service, gauge, logId, result, runs, observed, denied>>
  BY <1>1, BlockEffect
<1>3. PICK event \in Ends \cup {"block"} : event = "block"
  OBVIOUS
<1>4. /\ DeniedInv' /\ AttributedInv' /\ FinishedInv' /\ BlockInv'
      /\ Known' = Known /\ InFlight' = {} /\ InFlight = {run.trace} \ {NoTrace}
      /\ InFlight \subseteq Known /\ InFlight \subseteq 1 .. runs
  <2>1. /\ Recorded(collector, run.trace, event, collector')
        /\ blocked' = IF event = "block" THEN blocked \cup ({run.trace} \ {NoTrace}) ELSE blocked
    BY <1>2, <1>3
  <2> QED
    BY <1>1, <1>2, <2>1, EndEvent
<1>5. collector' \in Collectors /\ run' \in RunRecords /\ run # NoRun
  BY <1>2 DEF Recorded, Kept
<1>6. blocked' = blocked \cup InFlight
  BY <1>2, <1>4
<1>7. PlatformTypeOK'
  BY <1>1, <1>2, <1>4, <1>5, <1>6 DEF PlatformTypeOK
<1>8. SentInv'
  <2>1. run'.sent = {} /\ (result' # NoResult => (result'.error = "SecurityBlocked" => result'.sent = {}))
    BY <1>1, <1>2, <1>5 DEF SentInv
  <2> QED
    BY <1>2, <2>1 DEF SentInv
<1>9. (blocked' \cap Known') \cup InFlight' = (blocked \cap Known) \cup InFlight
  BY <1>4, <1>6
<1>10. LeakInv'
  BY <1>1, <1>2, <1>4, <1>6, <1>9 DEF LeakInv
<1> QED
  BY <1>4, <1>7, <1>8, <1>10 DEF PlatformInv

\* The end of run_state: the gauge no longer counts the run.
LEMMA FinishKeeps ==
  ASSUME PlatformInv, FinishRun
  PROVE  PlatformInv'
<1>1. /\ PlatformTypeOK /\ SentInv /\ DeniedInv /\ AttributedInv /\ FinishedInv /\ BlockInv /\ LeakInv
  BY DEF PlatformInv
<1>2. /\ run.pc = "end" /\ run \in RunRecords /\ Kept /\ run'.pc = "report" /\ run'.sent = run.sent
      /\ run'.error = run.error /\ run'.plan = run.plan
      /\ \E event \in Ends : Recorded(collector, run.trace, event, collector')
      /\ IF run.trace # NoTrace THEN gauge' = gauge - 1 /\ logId' = NoTrace
         ELSE UNCHANGED <<gauge, logId>>
      /\ UNCHANGED <<service, result, runs, observed, blocked, denied>>
  BY <1>1, FinishEffect
<1>3. PICK event \in Ends : Recorded(collector, run.trace, event, collector')
  BY <1>2
<1>4. /\ DeniedInv' /\ AttributedInv' /\ FinishedInv' /\ BlockInv'
      /\ Known' = Known /\ InFlight' = {} /\ InFlight = {run.trace} \ {NoTrace}
      /\ InFlight \subseteq Known /\ InFlight \subseteq 1 .. runs
  <2>1. /\ event \in Ends \cup {"block"}
        /\ blocked' = IF event = "block" THEN blocked \cup ({run.trace} \ {NoTrace}) ELSE blocked
    BY <1>2, <1>3 DEF Ends
  <2> QED
    BY <1>1, <1>2, <1>3, <2>1, EndEvent
<1>5. collector' \in Collectors /\ run' \in RunRecords /\ run # NoRun
  BY <1>2, <1>3 DEF Recorded, Kept
<1>6. gauge' \in Int /\ logId' \in RunIds \cup {NoTrace}
  BY <1>1, <1>2 DEF PlatformTypeOK
<1>7. PlatformTypeOK'
  BY <1>1, <1>2, <1>5, <1>6 DEF PlatformTypeOK
<1>8. SentInv'
  BY <1>1, <1>2, <1>5 DEF SentInv, Admits
<1>9. LeakInv'
  <2>1. PICK S : S = blocked \cap Known
    OBVIOUS
  <2>2. IsFiniteSet(S) /\ Cardinality(S) \in Nat
    BY <2>1, FiniteRuns, FS_CardinalityType DEF Known
  <2>3. (blocked' \cap Known') \cup InFlight' = S
    BY <1>2, <1>4, <2>1
  <2>4. CASE run.trace # NoTrace
    <3>1. run.trace \notin S /\ (blocked \cap Known) \cup InFlight = S \cup {run.trace}
      BY <1>1, <1>4, <2>1, <2>4 DEF LeakInv
    <3>2. Cardinality(S \cup {run.trace}) = Cardinality(S) + 1
      BY <2>2, <3>1, FS_AddElement
    <3>3. gauge = Cardinality(S) + 1
      BY <1>1, <3>1, <3>2 DEF LeakInv
    <3>4. gauge' = Cardinality(S) /\ logId' = NoTrace
      BY <1>2, <2>2, <2>4, <3>3
    <3> QED
      BY <1>4, <2>3, <3>4 DEF LeakInv
  <2>5. CASE run.trace = NoTrace
    BY <1>1, <1>2, <1>4, <2>5 DEF LeakInv
  <2> QED
    BY <2>4, <2>5
<1> QED
  BY <1>4, <1>7, <1>8, <1>9 DEF PlatformInv

\* A step that changes nothing keeps the invariant.
LEMMA PlatformStutter ==
  ASSUME PlatformInv, UNCHANGED platformVars
  PROVE  PlatformInv'
BY DEF PlatformInv, platformVars, PlatformTypeOK, SentInv, Admits, DeniedInv, AttributedInv, FinishedInv, BlockInv,
       LeakInv, InFlight, Known, EventsOf, LeftOpen, OpenNow, NodeSpan, ToolSpan

\* PlatformInv holds in every state of ai_platform's runtime: what may be sent,
\* who writes to which trace, what is open and what the gauge counts, at every
\* step of a run and between runs.
THEOREM PlatformInductive == PlatformSpec => []PlatformInv
<1>1. PlatformInv /\ [PlatformNext]_platformVars => PlatformInv'
  <2> SUFFICES ASSUME PlatformInv, [PlatformNext]_platformVars PROVE PlatformInv'
    OBVIOUS
  <2>1. ASSUME NEW c \in Configs, NEW f \in FileStates, NEW explicit \in BOOLEAN, CreateService(c, f, explicit)
        PROVE  PlatformInv'
    BY <2>1, CreateKeeps
  <2>2. CASE ResetCollector
    BY <2>2, ResetKeeps
  <2>3. ASSUME NEW t \in Texts, StartRun(t)
        PROVE  PlatformInv'
    BY <2>3, StartKeeps
  <2>4. CASE BlockInput
    BY <2>4, BlockKeeps
  <2>5. CASE \/ Dispatch
             \/ \E plan \in RunPlans : PlannerNode(plan)
             \/ CallTool
             \/ \E o \in HttpOutcomes : AttemptTool(o)
             \/ ToolError
             \/ EndOfPlan
             \/ JudgeNode
             \/ NodeRaises
    <3>1. \E gone, new : WorkflowStep(gone, new)
      BY <2>5, WorkflowSteps DEF PlatformInv
    <3> QED
      BY <3>1, WorkflowKeeps
  <2>6. CASE FinishRun
    BY <2>6, FinishKeeps
  <2>7. ASSUME NEW evs \in SUBSET {"score"}, NEW raises \in BOOLEAN, Report(evs, raises)
        PROVE  PlatformInv'
    BY <2>7, ReportKeeps
  <2>8. CASE UNCHANGED platformVars
    BY <2>8, PlatformStutter
  <2> QED
    BY <2>1, <2>2, <2>3, <2>4, <2>5, <2>6, <2>7, <2>8 DEF PlatformNext
<1> QED
  BY <1>1, PlatformStart, PTL DEF PlatformSpec

\* agent.running counts the run in progress and every run blocked at its input
\* (runtime.py returns before its "finally"), and nothing else ever leaks; the
\* logger keeps the id of such a run only.
THEOREM PlatformGaugeLeaks == PlatformSpec => []OnlyBlockedRunsLeak
<1>1. PlatformInv => OnlyBlockedRunsLeak
  BY DEF PlatformInv, LeakInv, OnlyBlockedRunsLeak
<1> QED
  BY <1>1, PlatformInductive, PTL

\* An observed run writes to its own trace and answers with its own id,
\* whatever earlier runs left active in the collector.
THEOREM PlatformTracesAttributed == PlatformSpec => []TracesAttributed
<1>1. PlatformInv => TracesAttributed
  BY DEF PlatformInv, AttributedInv, TracesAttributed
<1> QED
  BY <1>1, PlatformInductive, PTL

\* Between runs a trace has one of the events that end a run or was blocked at
\* its input, only the spans of denied calls are open in it, and a security
\* block stands beside each of these and nowhere else (executor.py:78-83,
\* runtime.py:72-82), for any plans, policies and number of runs.
THEOREM PlatformTracesFinished == PlatformSpec => []TracesFinished
<1>1. PlatformInv => TracesFinished
  <2> SUFFICES ASSUME PlatformInv, run = NoRun, NEW t \in Known
               PROVE  /\ Cardinality(collector.trace[t].events \cap {"end", "error"})
                           = IF t \in blocked THEN 0 ELSE 1
                      /\ collector.trace[t].open \subseteq denied
                      /\ "block" \in collector.trace[t].events
                           <=> t \in blocked \/ collector.trace[t].open # {}
    BY DEF TracesFinished
  <2>1. t \in RunIds /\ OpenNow = {} /\ InFlight = {} /\ FinishedInv /\ BlockInv
    BY NoneInFlight DEF Known, PlatformInv
  <2>2. EventsOf(t) = collector.trace[t].events \cap {"end", "error"}
    BY DEF EventsOf, Ends
  <2>3. IF t \in blocked THEN EventsOf(t) = {} ELSE \E x \in Ends : EventsOf(t) = {x}
    BY <2>1 DEF FinishedInv
  <2>4. Cardinality(EventsOf(t)) = IF t \in blocked THEN 0 ELSE 1
    <3>1. CASE t \in blocked
      BY <2>3, <3>1, FS_EmptySet
    <3>2. CASE t \notin blocked
      <4>1. PICK x : EventsOf(t) = {x}
        BY <2>3, <3>2
      <4>2. Cardinality({x}) = 1
        BY FS_Singleton
      <4> QED
        BY <3>2, <4>1, <4>2
    <3> QED
      BY <3>1, <3>2
  <2>5. collector.trace[t].open \subseteq denied
    BY <2>1 DEF FinishedInv
  <2>6. LeftOpen(t) = collector.trace[t].open
    BY <2>1 DEF LeftOpen
  <2>7. "block" \in collector.trace[t].events <=> t \in blocked \/ collector.trace[t].open # {}
    BY <2>1, <2>6 DEF BlockInv
  <2> QED
    BY <2>2, <2>4, <2>5, <2>7
<1> QED
  BY <1>1, PlatformInductive, PTL

\* What Permits answers, spelled out list by list: permission.py:47-66 forbids
\* what a block-list names and what an allow-list lacks, unless the allow-lists
\* have no tool in common.
LEMMA PermitsLists ==
  ASSUME NEW p \in Policy, NEW tool \in Tools, p.enabled, p.permission, Permits(p, tool)
  PROVE  ListsAllow(p, tool)
<1>1. /\ p.role # "unknown" /\ tool \notin BlockedTools(p)
      /\ AllowedTools(p) # {} => tool \in AllowedTools(p)
  BY DEF Permits
<1>2. tool \notin p.blocked /\ (p.role = "known" => tool \notin p.roleBlocked)
  BY <1>1 DEF BlockedTools
<1>3. CASE p.role # "known" \/ p.roleAllowed = {}
  BY <1>1, <1>2, <1>3 DEF AllowedTools, AllowLists, ListsAllow
<1>4. CASE p.role = "known" /\ p.roleAllowed # {} /\ p.allowed = {}
  BY <1>1, <1>2, <1>4 DEF AllowedTools, AllowLists, ListsAllow
<1>5. CASE p.role = "known" /\ p.roleAllowed # {} /\ p.allowed # {}
  <2>1. AllowLists(p) = {p.allowed, p.roleAllowed}
    BY <1>5 DEF AllowLists
  <2>2. AllowedTools(p) = p.allowed \cap p.roleAllowed
    BY <1>5 DEF AllowedTools
  <2>3. CASE p.allowed \cap p.roleAllowed = {}
    BY <1>1, <1>2, <2>1, <2>3 DEF ListsAllow
  <2>4. CASE p.allowed \cap p.roleAllowed # {}
    BY <1>1, <1>2, <2>1, <2>2, <2>4 DEF ListsAllow
  <2> QED
    BY <2>3, <2>4
<1> QED
  BY <1>3, <1>4, <1>5

\* An executor that was given the policy sends nothing a list in force forbids
\* (executor.py:76-83, permission.py); a call it denied is sent by no other step
\* of the run, an executor without the policy denies none, and a run blocked at
\* its input sends nothing, for any policy, plan and number of retries.
THEOREM PlatformPermitted == PlatformSpec => []OnlyPermittedSent
<1>1. PlatformInv => OnlyPermittedSent
  <2> SUFFICES ASSUME PlatformInv PROVE OnlyPermittedSent
    OBVIOUS
  <2>1. PlatformTypeOK /\ SentInv /\ DeniedInv
    BY DEF PlatformInv
  <2>2. result # NoResult /\ result.error = "SecurityBlocked" => result.sent = {}
    BY <2>1 DEF SentInv
  <2>3. ASSUME run # NoRun, service.guarded, NEW tool \in run.sent
        PROVE  /\ tool \in Tools /\ service.policy \in Policy /\ Permits(service.policy, tool)
    BY <2>1, <2>3, PlatformAssumption DEF PlatformTypeOK, SentInv, Admits, RunRecords
  <2>4. ASSUME run # NoRun, NEW span \in denied, span[1] = run.id
        PROVE  service.guarded /\ span[2] \notin run.sent
    <3>1. service.guarded /\ ~Permits(service.policy, span[2])
      BY <2>1, <2>4 DEF DeniedInv
    <3> QED
      BY <2>3, <2>4, <3>1
  <2> QED
    BY <2>2, <2>3, <2>4, PermitsLists DEF OnlyPermittedSent
<1> QED
  BY <1>1, PlatformInductive, PTL

-----------------------------------------------------------------------------
(* The evaluation of the agent *)

Entries == [tool : Tools, try : Nat, sent : BOOLEAN, ok : BOOLEAN, fallback : BOOLEAN, id : Nat]
Replies == [template : {"handled", "denied", "ask", "done", "failed"}, tool : Tools \cup {""}, id : Nat]
RowRecords == [case : Cases, called : Seq(Tools), right : BOOLEAN, results : Seq(Entries),
               denied : SUBSET Tools, reply : Replies, valid : BOOLEAN, fallback : BOOLEAN, silent : BOOLEAN,
               policed : BOOLEAN]
PlanRecords == [pc : {"plan"}, left : Seq(Cases), mode : {"rule", "llm"}, file : FileStates]
StepRecords == [pc : {"step"}, left : Seq(Cases), mode : {"rule", "llm"}, file : FileStates,
                todo : Seq(Tools), called : Seq(Tools), right : BOOLEAN, tries : Nat,
                results : Seq(Entries), denied : SUBSET Tools, reply : Replies,
                valid : BOOLEAN, fallback : BOOLEAN, silent : BOOLEAN]

EvaluationTypeOK ==
  /\ \/ eval = Idle
     \/ eval \in PlanRecords
     \/ eval \in StepRecords /\ eval.left # << >>
  /\ rows \in Seq(RowRecords)

Held(results) == {results[i] : i \in DOMAIN results}

Truthful(silent, reply, held) ==
  /\ silent <=> \E e \in held : e.fallback
  /\ reply.template = "done" /\ reply.tool = "cancel_order" => \E e \in held : e.ok /\ e.tool = "cancel_order"
  /\ reply.id # 0 => \E e \in held : e.id = reply.id

\* The policy a role's calls are held to.
RolePolicy(role) == [EvalPolicy EXCEPT !.role = role]

RowInv(row) ==
  /\ Truthful(row.silent, row.reply, Held(row.results))
  /\ row.policed =>
       /\ row.case.role # ""
       /\ \A e \in Held(row.results) :
            e.sent => e.tool \notin row.denied /\ Permits(RolePolicy(row.case.role), e.tool)

StepInv ==
  eval.pc = "step" =>
    /\ Truthful(eval.silent, eval.reply, Held(eval.results))
    /\ \A t \in eval.denied : ~EvalPermits(t)
    /\ \A e \in Held(eval.results) : e.sent => e.tool # "ask_user" /\ EvalPermits(e.tool)

EvaluationInv ==
  /\ EvaluationTypeOK /\ StepInv
  /\ \A i \in DOMAIN rows : RowInv(rows[i])
  /\ score # NoScore => eval = Idle /\ ScoreTellsTheTruth

\* The results after one more call.
LEMMA HeldAfter ==
  ASSUME NEW s \in Seq(Entries), NEW e \in Entries
  PROVE  Append(s, e) \in Seq(Entries) /\ Held(Append(s, e)) = Held(s) \cup {e}
<1>1. PICK t : t = Append(s, e)
  OBVIOUS
<1>2. t \in Seq(Entries) /\ DOMAIN t = 1 .. Len(s) + 1 /\ DOMAIN s = 1 .. Len(s) /\ Len(s) \in Nat
      /\ t[Len(s) + 1] = e /\ \A i \in 1 .. Len(s) : t[i] = s[i]
  BY <1>1
<1>3. \A x : x \in Held(t) <=> x \in Held(s) \/ x = e
  BY <1>2 DEF Held
<1> QED
  BY <1>1, <1>2, <1>3

\* What one more result and a new reply keep true of a case.
LEMMA TruthfulAfter ==
  ASSUME NEW held, NEW e \in Entries, NEW silent \in BOOLEAN, NEW silent2 \in BOOLEAN,
         NEW reply, NEW reply2,
         Truthful(silent, reply, held),
         silent2 <=> silent \/ e.fallback,
         \/ reply2 = reply
         \/ /\ reply2.template = "done" /\ reply2.tool = "cancel_order" => e.ok /\ e.tool = "cancel_order"
            /\ reply2.id \in {0, e.id}
  PROVE  Truthful(silent2, reply2, held \cup {e})
BY DEF Truthful

\* Every planner answers with tools the agent knows.
LEMMA PlansTyped ==
  ASSUME NEW t, NEW mode, NEW answer \in LlmAnswers
  PROVE  /\ Planned(t, mode, answer).plan \in Seq(Tools)
         /\ Planned(t, mode, answer).valid \in BOOLEAN /\ Planned(t, mode, answer).fallback \in BOOLEAN
<1>1. Ask \in Seq(Tools) /\ \A tool \in Tools : <<tool>> \in Seq(Tools)
  BY DEF Ask, Tools
<1>2. \A x, y \in Tools : <<x, y>> \in Seq(Tools)
  OBVIOUS
<1>3. "query_order" \in Tools /\ "cancel_order" \in Tools /\ "place_order" \in Tools
  BY DEF Tools
<1>4. PICK r : r = RulePlan(t)
  OBVIOUS
<1>5. r \in {Ask, <<"cancel_order">>, <<"query_order", "cancel_order">>, <<"cancel_order", "query_order">>,
             <<"query_order">>, <<"place_order">>}
  BY <1>4 DEF RulePlan
<1>6. r \in Seq(Tools)
  BY <1>1, <1>2, <1>3, <1>5
<1>7. answer.plan \in Seq(Tools)
  BY <1>1, EvaluationAssumption DEF LlmAnswers
<1>8. CASE mode = "rule" \/ Guarded(t)
  <2>1. Planned(t, mode, answer) = [plan |-> r, valid |-> TRUE, fallback |-> FALSE]
    BY <1>4, <1>8 DEF Planned
  <2> QED
    BY <1>6, <2>1
<1>9. CASE ~(mode = "rule" \/ Guarded(t))
  <2>1. PICK plan : plan = IF answer.kind = "raises" THEN r ELSE answer.plan
    OBVIOUS
  <2>2. Planned(t, mode, answer) = [plan |-> plan, valid |-> answer.kind # "invalid",
                                    fallback |-> answer.kind \in {"raises", "invalid"}]
    BY <1>4, <1>9, <2>1 DEF Planned
  <2> QED
    BY <1>6, <1>7, <2>1, <2>2
<1> QED
  BY <1>8, <1>9

\* The case at hand.
LEMMA CaseAtHand ==
  ASSUME EvaluationTypeOK, eval.pc = "step"
  PROVE  eval \in StepRecords /\ eval.left # << >> /\ Case \in Cases /\ Tail(eval.left) \in Seq(Cases)
<1>1. eval \in StepRecords /\ eval.left # << >>
  BY DEF EvaluationTypeOK, Idle, PlanRecords
<1>2. eval.left \in Seq(Cases)
  BY <1>1 DEF StepRecords
<1> QED
  BY <1>1, <1>2 DEF Case

\* The role's verdict does not change within a case.
LEMMA SameVerdict ==
  ASSUME eval'.left = eval.left, eval'.file = eval.file, NEW t
  PROVE  EvalPermits(t)' = EvalPermits(t)
BY DEF EvalPermits, Case

\* A call of a case: one more result, and the answer to go with it.
StepMade(e) ==
  /\ eval' \in StepRecords
  /\ eval'.pc = "step" /\ eval'.left = eval.left /\ eval'.file = eval.file
  /\ e \in Entries /\ eval'.results = Append(eval.results, e)
  /\ eval'.silent <=> eval.silent \/ e.fallback
  /\ \/ eval'.reply = eval.reply
     \/ /\ eval'.reply.template = "done" /\ eval'.reply.tool = "cancel_order" => e.ok /\ e.tool = "cancel_order"
        /\ eval'.reply.id \in {0, e.id}
  /\ \/ eval'.denied = eval.denied /\ (e.sent => e.tool # "ask_user" /\ EvalPermits(e.tool))
     \/ eval'.denied = eval.denied \cup {e.tool} /\ ~e.sent /\ ~EvalPermits(e.tool)
  /\ UNCHANGED <<rows, score>>

\* One more call of a case keeps the invariant.
LEMMA StepMadeKeeps ==
  ASSUME EvaluationInv, eval.pc = "step", NEW e, StepMade(e)
  PROVE  EvaluationInv'
<1>1. EvaluationTypeOK /\ StepInv /\ eval \in StepRecords /\ eval.left # << >>
  BY CaseAtHand DEF EvaluationInv
<1>2. EvaluationTypeOK'
  BY <1>1 DEF EvaluationTypeOK, StepMade
<1>3. PICK s \in Seq(Entries), x \in Entries : s = eval.results /\ x = e
  BY <1>1 DEF StepMade, StepRecords
<1>4. Held(eval'.results) = Held(eval.results) \cup {e}
  BY <1>3, HeldAfter DEF StepMade
<1>5. eval.silent \in BOOLEAN /\ eval'.silent \in BOOLEAN /\ e \in Entries
  BY <1>1 DEF StepMade, StepRecords
<1>6. Truthful(eval.silent, eval.reply, Held(eval.results))
  BY <1>1 DEF StepInv
<1>7. Truthful(eval'.silent, eval'.reply, Held(eval.results) \cup {e})
  <2>1. eval'.silent <=> eval.silent \/ e.fallback
    BY DEF StepMade
  <2>2. \/ eval'.reply = eval.reply
        \/ /\ eval'.reply.template = "done" /\ eval'.reply.tool = "cancel_order"
                => e.ok /\ e.tool = "cancel_order"
           /\ eval'.reply.id \in {0, e.id}
    BY DEF StepMade
  <2> QED
    BY <1>5, <1>6, <2>1, <2>2, TruthfulAfter
<1>8. \A t : EvalPermits(t)' = EvalPermits(t)
  BY SameVerdict DEF StepMade
<1>9. /\ \A t \in eval'.denied : ~EvalPermits(t)'
      /\ \A h \in Held(eval'.results) : h.sent => h.tool # "ask_user" /\ EvalPermits(h.tool)'
  BY <1>1, <1>4, <1>8 DEF StepInv, StepMade
<1>10. StepInv'
  BY <1>4, <1>7, <1>9 DEF StepInv
<1>11. eval # Idle /\ UNCHANGED <<rows, score>>
  BY DEF StepMade, Idle
<1> QED
  BY <1>2, <1>10, <1>11 DEF EvaluationInv

\* A denied step is an error result of a tool the role is denied.
LEMMA DenyStepMade ==
  ASSUME EvaluationTypeOK, DenyStep
  PROVE  eval.pc = "step" /\ \E e : StepMade(e)
<1>1. /\ eval.pc = "step" /\ eval.todo # << >> /\ ~EvalPermits(Head(eval.todo)) /\ UNCHANGED <<rows, score>>
      /\ eval' = [eval EXCEPT !.todo = Tail(@), !.called = Append(@, Head(eval.todo)),
                    !.denied = @ \cup {Head(eval.todo)},
                    !.results = Append(@, Entry(Head(eval.todo), 0, FALSE, FALSE, FALSE, 0)),
                    !.reply = Reply("denied", Head(eval.todo), 0)]
  BY DEF DenyStep
<1>2. PICK q \in StepRecords : q = eval
  BY <1>1, CaseAtHand
<1>3. q.todo \in Seq(Tools) /\ q.called \in Seq(Tools) /\ q.results \in Seq(Entries) /\ q.denied \in SUBSET Tools
  BY DEF StepRecords
<1>4. PICK tool \in Tools, todo \in Seq(Tools), called \in Seq(Tools), denied2 \in SUBSET Tools :
        tool = Head(q.todo) /\ todo = Tail(q.todo) /\ called = Append(q.called, tool) /\ denied2 = q.denied \cup {tool}
  <2>1. Head(q.todo) \in Tools /\ Tail(q.todo) \in Seq(Tools)
    BY <1>1, <1>2, <1>3
  <2>2. Append(q.called, Head(q.todo)) \in Seq(Tools) /\ q.denied \cup {Head(q.todo)} \in SUBSET Tools
    BY <1>3, <2>1
  <2> QED
    BY <2>1, <2>2
<1>5. PICK e, reply, results : /\ e = Entry(tool, 0, FALSE, FALSE, FALSE, 0) /\ reply = Reply("denied", tool, 0)
                              /\ results = Append(q.results, e)
  OBVIOUS
<1>6. e \in Entries /\ e.tool = tool /\ ~e.sent /\ ~e.ok /\ ~e.fallback
  BY <1>5 DEF Entry, Entries, Tools
<1>7. reply \in Replies /\ reply.id = 0 /\ reply.template = "denied"
  BY <1>5 DEF Reply, Replies, Tools
<1>12. results \in Seq(Entries)
  BY <1>3, <1>5, <1>6, HeldAfter
<1>8. PICK p : p = [q EXCEPT !.todo = todo, !.called = called, !.denied = denied2,
                             !.results = results, !.reply = reply]
  OBVIOUS
<1>9. /\ p \in StepRecords /\ p.pc = "step" /\ p.left = q.left /\ p.file = q.file
      /\ p.results = results /\ p.silent = q.silent /\ p.reply = reply /\ p.denied = denied2
  BY <1>7, <1>8, <1>12 DEF StepRecords
<1>10. eval' = p
  BY <1>1, <1>2, <1>4, <1>5, <1>8
<1>11. StepMade(e)
  BY <1>1, <1>2, <1>4, <1>5, <1>6, <1>7, <1>9, <1>10 DEF StepMade
<1> QED
  BY <1>1, <1>11

\* ask_user answers at once and is always permitted.
LEMMA AskStepMade ==
  ASSUME EvaluationTypeOK, AskStep
  PROVE  eval.pc = "step" /\ \E e : StepMade(e)
<1>1. /\ eval.pc = "step" /\ eval.todo # << >> /\ UNCHANGED <<rows, score>>
      /\ eval' = [eval EXCEPT !.todo = Tail(@), !.called = Append(@, "ask_user"),
                    !.results = Append(@, Entry("ask_user", 0, FALSE, TRUE, FALSE, 0)),
                    !.reply = Reply("ask", "ask_user", 0)]
  BY DEF AskStep
<1>2. PICK q \in StepRecords : q = eval
  BY <1>1, CaseAtHand
<1>3. q.todo \in Seq(Tools) /\ q.called \in Seq(Tools) /\ q.results \in Seq(Entries)
  BY DEF StepRecords
<1>4. PICK todo \in Seq(Tools), called \in Seq(Tools) : todo = Tail(q.todo) /\ called = Append(q.called, "ask_user")
  <2>1. Tail(q.todo) \in Seq(Tools) /\ Append(q.called, "ask_user") \in Seq(Tools)
    BY <1>1, <1>2, <1>3 DEF Tools
  <2> QED
    BY <2>1
<1>5. PICK e, reply, results : /\ e = Entry("ask_user", 0, FALSE, TRUE, FALSE, 0) /\ reply = Reply("ask", "ask_user", 0)
                              /\ results = Append(q.results, e)
  OBVIOUS
<1>6. e \in Entries /\ e.tool = "ask_user" /\ ~e.sent /\ e.ok /\ ~e.fallback
  BY <1>5 DEF Entry, Entries, Tools
<1>7. reply \in Replies /\ reply.id = 0 /\ reply.template = "ask"
  BY <1>5 DEF Reply, Replies, Tools
<1>12. results \in Seq(Entries)
  BY <1>3, <1>5, <1>6, HeldAfter
<1>8. PICK p : p = [q EXCEPT !.todo = todo, !.called = called, !.results = results, !.reply = reply]
  OBVIOUS
<1>9. /\ p \in StepRecords /\ p.pc = "step" /\ p.left = q.left /\ p.file = q.file
      /\ p.results = results /\ p.silent = q.silent /\ p.reply = reply /\ p.denied = q.denied
  BY <1>7, <1>8, <1>12 DEF StepRecords
<1>10. eval' = p
  BY <1>1, <1>2, <1>4, <1>5, <1>8
<1>15. /\ eval' \in StepRecords /\ eval'.pc = "step" /\ eval'.left = eval.left /\ eval'.file = eval.file
       /\ eval'.results = Append(eval.results, e) /\ eval'.silent = eval.silent
       /\ eval'.reply.template = "ask" /\ eval'.reply.id = 0 /\ eval'.denied = eval.denied
  BY <1>2, <1>5, <1>7, <1>9, <1>10
<1>13. StepMade(e)
  BY <1>1, <1>6, <1>15 DEF StepMade
<1> QED
  BY <1>1, <1>13

\* A call of a permitted tool is sent, tried again or over: the id of a reply is the
\* id of the result it was made from.
LEMMA CallStepMade ==
  ASSUME EvaluationTypeOK, NEW o \in HttpOutcomes, CallStep(o)
  PROVE  eval.pc = "step" /\ \E e : StepMade(e)
<1> DEFINE tool0 == Head(eval.todo)
           ok0 == ToolOk(tool0, o)
           id0 == IF tool0 # "query_order" /\ o \in {"ok", "silent"} THEN Len(eval.results) + 1 ELSE 0
           again == MayRetry(tool0, o, eval.tries, EvalRetries)
           tried == [eval EXCEPT
                       !.results = Append(@, Entry(tool0, eval.tries, TRUE, ok0, Fallback(o), id0)),
                       !.silent = @ \/ o = "silent"]
<1>1. /\ eval.pc = "step" /\ eval.todo # << >> /\ tool0 # "ask_user" /\ EvalPermits(tool0)
      /\ UNCHANGED <<rows, score>>
      /\ eval' = IF again THEN [tried EXCEPT !.tries = @ + 1]
                 ELSE [tried EXCEPT !.todo = Tail(@), !.called = Append(@, tool0), !.tries = 0,
                                    !.reply = Reply(IF ok0 THEN "done" ELSE "failed", tool0,
                                                    IF tool0 = "place_order" THEN id0 ELSE 0)]
  BY DEF CallStep
<1>2. PICK q \in StepRecords : q = eval
  BY <1>1, CaseAtHand
<1>3. /\ q.todo \in Seq(Tools) /\ q.called \in Seq(Tools) /\ q.results \in Seq(Entries) /\ q.tries \in Nat
      /\ q.silent \in BOOLEAN
  BY DEF StepRecords
<1>4. tool0 \in Tools /\ Tail(q.todo) \in Seq(Tools) /\ Append(q.called, tool0) \in Seq(Tools)
      /\ id0 \in Nat /\ ok0 \in BOOLEAN /\ Fallback(o) \in BOOLEAN
  <2>1. tool0 \in Tools /\ Tail(q.todo) \in Seq(Tools)
    BY <1>1, <1>2, <1>3
  <2>2. Append(q.called, tool0) \in Seq(Tools) /\ Len(q.results) \in Nat
    BY <1>3, <2>1
  <2>3. ok0 \in BOOLEAN
    <3>1. ASSUME NEW t \in Tools PROVE ToolOk(t, o) \in BOOLEAN
      <4>1. t = "place_order" => ToolOk(t, o) \in BOOLEAN
        BY DEF ToolOk
      <4>2. t = "query_order" => ToolOk(t, o) \in BOOLEAN
        BY DEF ToolOk
      <4>3. t = "cancel_order" => ToolOk(t, o) \in BOOLEAN
        BY DEF ToolOk
      <4>4. t = "ask_user" => ToolOk(t, o) \in BOOLEAN
        BY DEF ToolOk
      <4> QED
        BY <4>1, <4>2, <4>3, <4>4 DEF Tools
    <3> QED
      BY <2>1, <3>1
  <2>4. Fallback(o) \in BOOLEAN
    BY DEF Fallback
  <2>5. id0 \in Nat
    BY <1>2, <2>2
  <2> QED
    BY <2>1, <2>2, <2>3, <2>4, <2>5
<1>5. PICK tool, ok, made, id, tries, results, silent2 :
        /\ tool = tool0 /\ ok = ok0 /\ made = Fallback(o) /\ id = id0 /\ tries = q.tries
        /\ results = Append(q.results, Entry(tool, tries, TRUE, ok, made, id)) /\ silent2 = (q.silent \/ o = "silent")
  OBVIOUS
<1>6. tool \in Tools /\ ok \in BOOLEAN /\ made \in BOOLEAN /\ id \in Nat
  BY <1>4, <1>5
<1>15. tries \in Nat
  BY <1>3, <1>5
<1>16. PICK e : e = Entry(tool, tries, TRUE, ok, made, id)
  OBVIOUS
<1>7. e \in Entries /\ e.tool = tool /\ (e.ok <=> ok) /\ (e.fallback <=> made) /\ e.id = id
  BY <1>6, <1>15, <1>16 DEF Entry, Entries
<1>17. results = Append(q.results, e)
  BY <1>5, <1>16
<1>8. results \in Seq(Entries)
  BY <1>3, <1>7, <1>17, HeldAfter
<1>9. silent2 \in BOOLEAN /\ (silent2 <=> q.silent \/ e.fallback)
  BY <1>5, <1>7 DEF Fallback
<1>10. e.tool # "ask_user" /\ EvalPermits(e.tool)
  BY <1>1, <1>5, <1>7
<1>11. PICK m : m = [q EXCEPT !.results = results, !.silent = silent2]
  OBVIOUS
<1>12. tried = m
  BY <1>2, <1>5, <1>11
<1> HIDE DEF tool0, ok0, id0, tried, again
<1>13. CASE again
  <2>1. PICK n \in Nat : n = q.tries + 1
    BY <1>3
  <2>2. PICK p : p = [q EXCEPT !.results = results, !.silent = silent2, !.tries = n]
    OBVIOUS
  <2>3. /\ p \in StepRecords /\ p.pc = "step" /\ p.left = q.left /\ p.file = q.file
        /\ p.results = results /\ p.silent = silent2 /\ p.reply = q.reply /\ p.denied = q.denied
    BY <1>8, <1>9, <2>2 DEF StepRecords
  <2>4. [m EXCEPT !.tries = @ + 1] = p
    BY <1>11, <2>1, <2>2 DEF StepRecords
  <2>5. eval' = p
    BY <1>1, <1>12, <1>13, <2>4
  <2>6. StepMade(e)
    BY <1>1, <1>2, <1>7, <1>9, <1>10, <1>17, <2>3, <2>5 DEF StepMade
  <2> QED
    BY <1>1, <2>6
<1>14. CASE ~again
  <2>1. PICK todo \in Seq(Tools), called \in Seq(Tools) : todo = Tail(q.todo) /\ called = Append(q.called, tool)
    BY <1>4, <1>5
  <2>2. PICK template, known : /\ template = IF ok THEN "done" ELSE "failed"
                               /\ known = IF tool = "place_order" THEN id ELSE 0
    OBVIOUS
  <2>3. template \in {"done", "failed"} /\ known \in Nat
    BY <1>6, <2>2
  <2>4. PICK reply : reply = Reply(template, tool, known)
    OBVIOUS
  <2>5. reply \in Replies /\ reply.template = template /\ reply.tool = tool /\ reply.id = known
    BY <1>6, <2>3, <2>4 DEF Reply, Replies
  <2>6. PICK p : p = [q EXCEPT !.results = results, !.silent = silent2, !.todo = todo, !.called = called,
                               !.tries = 0, !.reply = reply]
    OBVIOUS
  <2>7. /\ p \in StepRecords /\ p.pc = "step" /\ p.left = q.left /\ p.file = q.file
        /\ p.results = results /\ p.silent = silent2 /\ p.reply = reply /\ p.denied = q.denied
    BY <1>8, <1>9, <2>5, <2>6 DEF StepRecords
  <2>8. [m EXCEPT !.todo = Tail(@), !.called = Append(@, tool), !.tries = 0, !.reply = reply] = p
    BY <1>11, <2>1, <2>6 DEF StepRecords
  <2>9. eval' = p
    BY <1>1, <1>5, <1>12, <1>14, <2>2, <2>4, <2>8
  <2>10. /\ reply.template = "done" /\ reply.tool = "cancel_order" => e.ok /\ e.tool = "cancel_order"
         /\ reply.id \in {0, e.id}
    BY <1>6, <1>7, <2>2, <2>5
  <2>11. StepMade(e)
    BY <1>1, <1>2, <1>7, <1>9, <1>10, <1>17, <2>7, <2>9, <2>10 DEF StepMade
  <2> QED
    BY <1>1, <2>11
<1> QED
  BY <1>13, <1>14

-----------------------------------------------------------------------------
\* An evaluation that has not started satisfies the invariant.
LEMMA EvaluationStart == EvaluationInit => EvaluationInv
<1> SUFFICES ASSUME EvaluationInit PROVE EvaluationInv
  OBVIOUS
<1>1. eval = Idle /\ rows = << >> /\ score = NoScore
  BY DEF EvaluationInit
<1>2. << >> \in Seq(RowRecords)
  OBVIOUS
<1> QED
  BY <1>1, <1>2 DEF EvaluationInv, EvaluationTypeOK, StepInv, Idle

\* No score is there while an evaluation runs.
LEMMA Unscored ==
  ASSUME EvaluationInv, eval.pc # "idle"
  PROVE  score = NoScore
BY DEF EvaluationInv, Idle

\* An evaluation that starts keeps the invariant.
LEMMA StartEvalKeeps ==
  ASSUME EvaluationInv, NEW suite \in Suites, NEW mode \in {"rule", "llm"}, NEW file \in FileStates,
         StartEval(suite, mode, file)
  PROVE  EvaluationInv'
<1>1. /\ score = NoScore /\ rows = << >> /\ UNCHANGED <<rows, score>>
      /\ eval' = [pc |-> "plan", left |-> suite, mode |-> mode, file |-> file]
  BY DEF StartEval
<1>2. suite \in Seq(Cases)
  BY EvaluationAssumption
<1>3. eval' \in PlanRecords /\ eval'.pc = "plan"
  BY <1>1, <1>2 DEF PlanRecords
<1> QED
  BY <1>1, <1>3 DEF EvaluationInv, EvaluationTypeOK, StepInv

\* Planning a case keeps the invariant.
LEMMA PlanCaseKeeps ==
  ASSUME EvaluationInv, NEW answer \in LlmAnswers, NEW right \in BOOLEAN, PlanCase(answer, right)
  PROVE  EvaluationInv'
<1> DEFINE p == Planned(Case.text, eval.mode, answer)
<1>1. /\ eval.pc = "plan" /\ eval.left # << >> /\ UNCHANGED <<rows, score>>
      /\ eval' = [pc |-> "step", left |-> eval.left, mode |-> eval.mode, file |-> eval.file,
                  todo |-> p.plan, called |-> << >>, right |-> right, tries |-> 0,
                  results |-> << >>, denied |-> {}, reply |-> Reply("handled", "", 0),
                  valid |-> p.valid, fallback |-> p.fallback, silent |-> FALSE]
  BY DEF PlanCase
<1>2. eval \in PlanRecords
  <2>1. EvaluationTypeOK
    BY DEF EvaluationInv
  <2> QED
    <3>1. (eval \in StepRecords => eval.pc = "step") /\ (eval = Idle => eval.pc = "idle")
      BY DEF StepRecords, Idle
    <3> QED
      BY <1>1, <2>1, <3>1 DEF EvaluationTypeOK
<1>3. PICK q \in PlanRecords, plan \in Seq(Tools), valid \in BOOLEAN, fallback \in BOOLEAN :
        q = eval /\ plan = p.plan /\ valid = p.valid /\ fallback = p.fallback
  <2>1. p.plan \in Seq(Tools) /\ p.valid \in BOOLEAN /\ p.fallback \in BOOLEAN
    BY PlansTyped
  <2> HIDE DEF p
  <2> QED
    BY <1>2, <2>1
<1> HIDE DEF p
<1>4. PICK reply : reply = Reply("handled", "", 0)
  OBVIOUS
<1>5. reply \in Replies /\ reply.id = 0 /\ reply.template = "handled"
  BY <1>4 DEF Reply, Replies
<1>6. PICK d : d = [pc |-> "step", left |-> q.left, mode |-> q.mode, file |-> q.file,
                    todo |-> plan, called |-> << >>, right |-> right, tries |-> 0,
                    results |-> << >>, denied |-> {}, reply |-> reply,
                    valid |-> valid, fallback |-> fallback, silent |-> FALSE]
  OBVIOUS
<1>7. << >> \in Seq(Tools) /\ << >> \in Seq(Entries) /\ DOMAIN << >> = {}
  OBVIOUS
<1>8. /\ d \in StepRecords /\ d.pc = "step" /\ d.left = q.left /\ d.results = << >> /\ d.denied = {}
      /\ d.reply = reply /\ ~d.silent
  BY <1>5, <1>6, <1>7 DEF StepRecords, PlanRecords
<1>9. eval' = d
  BY <1>1, <1>3, <1>4, <1>6
<1>10. Held(d.results) = {}
  BY <1>7, <1>8 DEF Held
<1>11. StepInv'
  BY <1>5, <1>8, <1>9, <1>10 DEF StepInv, Truthful
<1>12. EvaluationTypeOK'
  BY <1>1, <1>3, <1>8, <1>9 DEF EvaluationTypeOK, EvaluationInv
<1>13. score = NoScore
  BY <1>1, Unscored
<1> QED
  BY <1>1, <1>11, <1>12, <1>13 DEF EvaluationInv

\* An evaluation that a broken policy file or a bad quantity ends keeps the
\* invariant.
LEMMA BrokenKeeps ==
  ASSUME EvaluationInv, PolicyBroken \/ BadQuantity
  PROVE  EvaluationInv'
<1>1. eval.pc # "idle" /\ eval' = Idle /\ rows' = << >> /\ score' = score
  BY DEF PolicyBroken, BadQuantity
<1>2. << >> \in Seq(RowRecords) /\ DOMAIN << >> = {}
  OBVIOUS
<1>3. score = NoScore
  BY <1>1, Unscored
<1> QED
  BY <1>1, <1>2, <1>3 DEF EvaluationInv, EvaluationTypeOK, StepInv, Idle

\* A finished case: its row keeps what was true of it.
LEMMA FinishCaseKeeps ==
  ASSUME EvaluationInv, FinishCase
  PROVE  EvaluationInv'
<1>1. /\ eval.pc = "step" /\ score' = score
      /\ rows' = Append(rows, [case |-> Case, called |-> eval.called, right |-> eval.right,
                               results |-> eval.results, denied |-> eval.denied,
                               reply |-> eval.reply, valid |-> eval.valid,
                               fallback |-> eval.fallback, silent |-> eval.silent,
                               policed |-> Case.role # "" /\ eval.file # "missing"])
      /\ eval' = [pc |-> "plan", left |-> Tail(eval.left), mode |-> eval.mode, file |-> eval.file]
  BY DEF FinishCase
<1>2. /\ eval \in StepRecords /\ Case \in Cases /\ Tail(eval.left) \in Seq(Cases)
      /\ StepInv /\ rows \in Seq(RowRecords) /\ \A i \in DOMAIN rows : RowInv(rows[i])
  BY <1>1, CaseAtHand DEF EvaluationInv, EvaluationTypeOK
<1>3. PICK q \in StepRecords, c \in Cases, left \in Seq(Cases), s \in Seq(RowRecords), policed \in BOOLEAN :
        /\ q = eval /\ c = Case /\ left = Tail(eval.left) /\ s = rows
        /\ policed = (Case.role # "" /\ eval.file # "missing")
  BY <1>2
<1>4. PICK row : row = [case |-> c, called |-> q.called, right |-> q.right, results |-> q.results,
                        denied |-> q.denied, reply |-> q.reply, valid |-> q.valid,
                        fallback |-> q.fallback, silent |-> q.silent, policed |-> policed]
  OBVIOUS
<1>5. /\ row \in RowRecords /\ row.results = q.results /\ row.denied = q.denied
      /\ row.reply = q.reply /\ row.silent = q.silent /\ row.case = c /\ (row.policed <=> policed)
  BY <1>4 DEF RowRecords, StepRecords
<1>6. PICK d : d = [pc |-> "plan", left |-> left, mode |-> q.mode, file |-> q.file]
  OBVIOUS
<1>7. d \in PlanRecords /\ d.pc = "plan"
  BY <1>6 DEF PlanRecords, StepRecords
<1>8. eval' = d /\ rows' = Append(s, row)
  BY <1>1, <1>3, <1>4, <1>6
<1>9. RowInv(row)
  <2>1. /\ Truthful(q.silent, q.reply, Held(q.results))
        /\ \A t \in q.denied : ~EvalPermits(t)
        /\ \A e \in Held(q.results) : e.sent => e.tool # "ask_user" /\ EvalPermits(e.tool)
    BY <1>1, <1>2, <1>3 DEF StepInv
  <2>2. ASSUME policed
        PROVE  /\ c.role # ""
               /\ \A t : t # "ask_user" /\ EvalPermits(t) => Permits(RolePolicy(c.role), t)
    BY <1>3, <2>2 DEF EvalPermits, RolePolicy
  <2>3. \A e \in Held(q.results) : e.sent => e.tool \notin q.denied
    BY <2>1
  <2> QED
    BY <1>5, <2>1, <2>2, <2>3 DEF RowInv
<1>10. PICK t : t = Append(s, row)
  OBVIOUS
<1>11. /\ t \in Seq(RowRecords) /\ DOMAIN t = 1 .. Len(s) + 1 /\ DOMAIN s = 1 .. Len(s) /\ Len(s) \in Nat
       /\ t[Len(s) + 1] = row /\ \A i \in 1 .. Len(s) : t[i] = s[i]
  BY <1>5, <1>10
<1>12. \A i \in DOMAIN t : RowInv(t[i])
  <2>1. ASSUME NEW i \in DOMAIN t PROVE RowInv(t[i])
    <3>1. CASE i = Len(s) + 1
      BY <1>9, <1>11, <3>1
    <3>2. CASE i # Len(s) + 1
      <4>1. i \in DOMAIN s /\ t[i] = s[i]
        BY <1>11, <3>2
      <4> QED
        BY <1>2, <1>3, <4>1
    <3> QED
      BY <3>1, <3>2
  <2> QED
    BY <2>1
<1>13. score = NoScore
  BY <1>1, Unscored
<1>14. EvaluationTypeOK' /\ StepInv'
  BY <1>7, <1>8, <1>10, <1>11 DEF EvaluationTypeOK, StepInv
<1> QED
  BY <1>1, <1>8, <1>10, <1>12, <1>13, <1>14 DEF EvaluationInv

-----------------------------------------------------------------------------
\* The reply of a truthful row gives the detector nothing to find.
LEMMA NothingFound ==
  ASSUME NEW row, RowInv(row)
  PROVE  Findings(row) = {} /\ (row.silent <=> HasOfflineFallback(row))
<1>1. Truthful(row.silent, row.reply, Held(row.results))
  BY DEF RowInv
<1>2. row.silent <=> HasOfflineFallback(row)
  BY <1>1 DEF Truthful, Held, HasOfflineFallback
<1>3. ClaimedTools(row.reply) \subseteq SuccessfulTools(row)
  <2>1. ASSUME row.reply.template = "done", row.reply.tool = "cancel_order"
        PROVE  "cancel_order" \in SuccessfulTools(row)
    BY <1>1, <2>1 DEF Truthful, Held, SuccessfulTools
  <2> QED
    BY <2>1 DEF ClaimedTools
<1>4. row.reply.id \in GroundedIds(row) \cup {0}
  BY <1>1 DEF Truthful, Held, GroundedIds
<1>5. ClaimedTools(row.reply) \ SuccessfulTools(row) = {} /\ {row.reply.id} \ (GroundedIds(row) \cup {0}) = {}
  BY <1>3, <1>4
<1>6. Findings(row) = {}
  BY <1>5 DEF Findings
<1> QED
  BY <1>2, <1>6

\* What a row's calls were held to, list by list.
LEMMA RowSentAllowed ==
  ASSUME NEW row \in RowRecords, RowInv(row), row.policed, NEW j \in DOMAIN row.results, row.results[j].sent
  PROVE  /\ row.results[j].tool \notin row.denied
         /\ RolePolicy(row.case.role).enabled /\ RolePolicy(row.case.role).permission
              => ListsAllow(RolePolicy(row.case.role), row.results[j].tool)
<1>1. PICK e \in Entries, c \in Cases : e = row.results[j] /\ c = row.case
  BY DEF RowRecords
<1>2. e \in Held(row.results) /\ e.sent /\ e.tool \in Tools
  BY <1>1 DEF Held, Entries
<1>3. e.tool \notin row.denied /\ c.role # "" /\ Permits(RolePolicy(c.role), e.tool)
  BY <1>1, <1>2 DEF RowInv
<1>4. RolePolicy(c.role) \in Policy
  <2>1. c.role \in {"unknown", "known"}
    BY <1>3 DEF Cases
  <2> QED
    BY <2>1, EvaluationAssumption DEF RolePolicy, Policy
<1> QED
  BY <1>1, <1>2, <1>3, <1>4, PermitsLists

\* The score of truthful rows tells the truth.
LEMMA ScoreEvalKeeps ==
  ASSUME EvaluationInv, NEW judged, ScoreEval(judged)
  PROVE  EvaluationInv'
<1>1. /\ eval.pc = "plan" /\ score' = Score(judged) /\ eval' = Idle /\ rows' = rows
  BY DEF ScoreEval
<1>2. rows \in Seq(RowRecords) /\ \A i \in DOMAIN rows : RowInv(rows[i])
  BY DEF EvaluationInv, EvaluationTypeOK
<1>3. PICK s \in Seq(RowRecords) : s = rows
  BY <1>2
<1> DEFINE found == {i \in DOMAIN s : Findings(s[i]) # {}}
           made == {i \in DOMAIN s : HasOfflineFallback(s[i])}
<1>5. score'.flagged = Cardinality(found) /\ score'.offline = Cardinality(made)
  BY <1>1, <1>3 DEF Score
<1>6. \A i \in DOMAIN s : Findings(s[i]) = {} /\ (s[i].silent <=> HasOfflineFallback(s[i]))
  BY <1>2, <1>3, NothingFound
<1>7. score'.flagged = 0
  <2>1. found = {}
    BY <1>6
  <2> HIDE DEF found
  <2> QED
    BY <1>5, <2>1, FS_EmptySet
<1>8. score'.offline = Cardinality({i \in DOMAIN s : s[i].silent})
  <2>1. made = {i \in DOMAIN s : s[i].silent}
    BY <1>6
  <2> QED
    BY <1>5, <2>1
<1>9. \A i \in DOMAIN s : s[i] \in RowRecords /\ RowInv(s[i])
  BY <1>2, <1>3
<1>10. \A i \in DOMAIN s : s[i].policed =>
         LET row == s[i]
             p == [EvalPolicy EXCEPT !.role = row.case.role]
         IN  \A j \in DOMAIN row.results : row.results[j].sent =>
               /\ row.results[j].tool \notin row.denied
               /\ p.enabled /\ p.permission => ListsAllow(p, row.results[j].tool)
  BY <1>9, RowSentAllowed DEF RolePolicy
<1>11. ScoreTellsTheTruth'
  <2> HIDE DEF found, made
  <2> QED
    BY <1>1, <1>3, <1>7, <1>8, <1>10 DEF ScoreTellsTheTruth
<1> QED
  BY <1>1, <1>2, <1>11 DEF EvaluationInv, EvaluationTypeOK, StepInv, Idle

\* EvaluationInv holds in every state of run_agent_eval: the rows so far and
\* the case under way tell what the service did.
THEOREM EvaluationInductive == EvaluationSpec => []EvaluationInv
<1>1. EvaluationInv /\ [EvaluationNext]_evaluationVars => EvaluationInv'
  <2> SUFFICES ASSUME EvaluationInv, [EvaluationNext]_evaluationVars PROVE EvaluationInv'
    OBVIOUS
  <2>1. ASSUME NEW suite \in Suites, NEW mode \in {"rule", "llm"}, NEW file \in FileStates,
               StartEval(suite, mode, file)
        PROVE  EvaluationInv'
    BY <2>1, StartEvalKeeps
  <2>2. ASSUME NEW answer \in LlmAnswers, NEW right \in BOOLEAN, PlanCase(answer, right)
        PROVE  EvaluationInv'
    BY <2>2, PlanCaseKeeps
  <2>3. CASE PolicyBroken \/ BadQuantity
    BY <2>3, BrokenKeeps
  <2>4. CASE DenyStep \/ AskStep \/ \E o \in HttpOutcomes : CallStep(o)
    <3>1. eval.pc = "step" /\ \E e : StepMade(e)
      BY <2>4, DenyStepMade, AskStepMade, CallStepMade DEF EvaluationInv
    <3> QED
      BY <3>1, StepMadeKeeps
  <2>5. CASE FinishCase
    BY <2>5, FinishCaseKeeps
  <2>6. ASSUME NEW judged \in [DOMAIN rows -> {"none", "PASS", "FAIL", "UNKNOWN"}], ScoreEval(judged)
        PROVE  EvaluationInv'
    BY <2>6, ScoreEvalKeeps
  <2>7. CASE UNCHANGED evaluationVars
    <3>1. \A t : EvalPermits(t)' = EvalPermits(t)
      BY <2>7 DEF evaluationVars, EvalPermits, Case
    <3> QED
      BY <2>7, <3>1 DEF evaluationVars, EvaluationInv, EvaluationTypeOK, StepInv, ScoreTellsTheTruth
  <2> QED
    BY <2>1, <2>2, <2>3, <2>4, <2>5, <2>6, <2>7 DEF EvaluationNext
<1> QED
  BY <1>1, EvaluationStart, PTL DEF EvaluationSpec

\* The score of evaluator.py rests on what happened: no reply of the executor is
\* called fabricated, the cases with a silent service and no others are counted
\* as offline, and no call of a role held to the policy was one its lists forbid
\* or another step was denied; for any suite, policy, model and number of retries.
THEOREM EvaluationTruthful == EvaluationSpec => []ScoreTellsTheTruth
<1>1. EvaluationInv => ScoreTellsTheTruth
  BY DEF EvaluationInv, ScoreTellsTheTruth
<1> QED
  BY <1>1, EvaluationInductive, PTL

-----------------------------------------------------------------------------
(* The report pipeline *)

JobFields ==
  [compare |-> {"kind", "pc", "arm", "by", "id", "started", "base", "chaos"},
   gate |-> {"kind", "at", "try", "settings", "began", "checks", "read"}]

\* The fields a job has, and numbers where the clock or the counter goes in.
JobOK ==
  /\ job = NoJob \/ job.kind \in {"compare", "gate"}
  /\ job.kind = "compare" =>
       /\ DOMAIN job = JobFields.compare
       /\ job.pc \in {"run", "score", "read", "write", "judge"}
       /\ job.id \in Nat /\ job.id <= jobs
       /\ job.started \in Nat /\ job.started <= now
  /\ job.kind = "gate" =>
       /\ DOMAIN job = JobFields.gate
       /\ job.at \in 1 .. 5
       /\ job.began \in Nat /\ job.began <= now
       /\ DOMAIN job.checks = 1 .. (job.at - 1) /\ Len(job.checks) = job.at - 1
       /\ DOMAIN job.read = 1 .. (job.at - 1) /\ Len(job.read) = job.at - 1

\* The files there are, dated where a property reads the date; no comparison
\* and no experiment is one of a job to come.
FilesOK ==
  /\ now \in Nat /\ jobs \in Nat /\ DOMAIN files = Artifacts
  /\ \A a \in {"benchmark", "security"} : files[a] # NoFile => files[a].at \in Int
  /\ files["compare"] # NoFile =>
       /\ files["compare"].at \in Int /\ files["compare"].at <= now
       /\ files["compare"].of \in Int /\ files["compare"].of <= jobs
  /\ files["experiment"] # NoFile =>
       files["experiment"].id \in Int /\ files["experiment"].id <= jobs
  /\ files["gate"] # NoFile => (files["gate"].pass <=> files["gate"].reasons = {})

\* While a comparison runs, every verdict is of an earlier job, and a comparison
\* report from after its start is its own, judged by its own tolerances.
CompareInv ==
  job.kind = "compare" =>
    /\ files["experiment"] # NoFile => files["experiment"].id < job.id
    /\ files["compare"] # NoFile /\ files["compare"].at >= job.started =>
         /\ job.pc = "judge" /\ files["compare"].of = job.id
         /\ files["compare"].failed =
              FailedSubGates(files["compare"].base, files["compare"].chaos,
                             EffectiveTolerance(job.by.tolerance))

\* What a gate that is running has noted so far: the outcome of each check it
\* is done with fits the report it read.
CheckNoted(i, verdict, report, began) ==
  /\ verdict \in {"PASS", "FAIL", "SKIPPED"}
  /\ i = 1 => verdict # "SKIPPED"
  /\ i = 1 /\ verdict = "PASS" =>
       report # NoFile /\ BenchmarkOk(report) /\ report.at \in Int /\ began - report.at <= MaxAge
  /\ i = 2 /\ verdict = "PASS" =>
       /\ report # NoFile /\ SecurityOk(report.highest)
       /\ report.at \in Int /\ began - report.at <= MaxAge
  /\ i = 2 /\ verdict = "SKIPPED" => report = NoFile
  /\ i = 4 /\ verdict = "PASS" => AgentOk(report.metrics)

GateInv ==
  job.kind = "gate" =>
    \A i \in 1 .. (job.at - 1) : CheckNoted(i, job.checks[i], job.read[i], job.began)

PipelineInv ==
  /\ FilesOK /\ JobOK /\ CompareInv /\ GateInv
  /\ VerdictFromOwnRun /\ PassRestsOnReports

\* The reports no property rests on, and the programs' own bookkeeping.
Judged == {"compare", "experiment", "gate", "summary"}

\* A program that writes one report writes that one and no other.
LEMMA ReportWritten ==
  ASSUME DOMAIN files = Artifacts, NEW a \in Artifacts, NEW report,
         files' = [files EXCEPT ![a] = report]
  PROVE  /\ DOMAIN files' = Artifacts /\ files'[a] = report
         /\ \A b \in Artifacts : b # a => files'[b] = files[b]
  OBVIOUS

\* A step that leaves the judged reports alone keeps what is said of the files.
LEMMA JudgedKept ==
  ASSUME PipelineInv, now' \in Nat, now <= now', jobs' \in Nat, jobs <= jobs',
         DOMAIN files' = Artifacts, \A b \in Judged : files'[b] = files[b],
         \A a \in {"benchmark", "security"} : files'[a] # NoFile => files'[a].at \in Int
  PROVE  FilesOK' /\ VerdictFromOwnRun' /\ PassRestsOnReports'
<1>1. /\ files'["compare"] = files["compare"] /\ files'["experiment"] = files["experiment"]
      /\ files'["gate"] = files["gate"] /\ files'["summary"] = files["summary"]
  BY DEF Judged
<1>2. FilesOK'
  BY <1>1 DEF PipelineInv, FilesOK
<1>3. VerdictFromOwnRun'
  BY <1>1 DEF PipelineInv, VerdictFromOwnRun, OwnVerdict
<1>4. PassRestsOnReports'
  BY <1>1 DEF PipelineInv, PassRestsOnReports, GateRests, SummaryRests
<1> QED BY <1>2, <1>3, <1>4

\* A step that leaves the running program, the comparison report and the
\* experiment's verdict alone keeps what is said of the program.
LEMMA JobKept ==
  ASSUME PipelineInv, now' \in Nat, now <= now', jobs' \in Nat, jobs <= jobs', job' = job,
         files'["compare"] = files["compare"], files'["experiment"] = files["experiment"]
  PROVE  JobOK' /\ CompareInv' /\ GateInv'
<1>1. JobOK'
  BY DEF PipelineInv, FilesOK, JobOK
<1>2. CompareInv'
  BY DEF PipelineInv, CompareInv
<1>3. GateInv'
  BY DEF PipelineInv, GateInv
<1> QED BY <1>1, <1>2, <1>3

\* No program running is fine whatever the files are.
LEMMA JobOver ==
  ASSUME job' = NoJob
  PROVE  JobOK' /\ CompareInv' /\ GateInv'
  BY DEF NoJob, JobOK, CompareInv, GateInv

\* The directory a behaviour starts with.
LEMMA PipelineStart == PipelineInit => PipelineInv
<1> SUFFICES ASSUME PipelineInit PROVE PipelineInv
  OBVIOUS
<1>1. /\ now = 0 /\ jobs = 0 /\ job = NoJob /\ files \in OldReports
  BY DEF PipelineInit
<1>2. FilesOK
  BY <1>1, PipelineAssumption, OldReportsAssumption DEF FilesOK
<1>3. VerdictFromOwnRun /\ PassRestsOnReports
  BY <1>1, OldReportsAssumption DEF VerdictFromOwnRun, PassRestsOnReports
<1>4. JobOK /\ CompareInv /\ GateInv
  BY <1>1 DEF NoJob, JobOK, CompareInv, GateInv
<1> QED BY <1>2, <1>3, <1>4 DEF PipelineInv

\* A started program counts.
LEMMA StartedCounts ==
  ASSUME PipelineInv, Started
  PROVE  jobs \in Nat /\ jobs' = jobs + 1 /\ jobs' \in Nat /\ jobs <= jobs'
  BY DEF PipelineInv, FilesOK, Started

\* A program of one step that writes none of the judged reports.
LEMMA OneStepKeeps ==
  ASSUME PipelineInv, Started, now' = now, job' = job, DOMAIN files' = Artifacts,
         \A b \in Judged : files'[b] = files[b],
         \A a \in {"benchmark", "security"} : files'[a] # NoFile => files'[a].at \in Int
  PROVE  PipelineInv'
<1>1. /\ now \in Nat /\ now' \in Nat /\ now <= now' /\ jobs' \in Nat /\ jobs <= jobs'
  BY StartedCounts DEF PipelineInv, FilesOK
<1>2. FilesOK' /\ VerdictFromOwnRun' /\ PassRestsOnReports'
  BY <1>1, JudgedKept
<1>3. files'["compare"] = files["compare"] /\ files'["experiment"] = files["experiment"]
  BY DEF Judged
<1>4. JobOK' /\ CompareInv' /\ GateInv'
  BY <1>1, <1>3, JobKept
<1> QED BY <1>2, <1>4 DEF PipelineInv

\* benchmark_compare, security_scan, the evaluation by hand, prompt_regression
\* and a definition that does not load.
LEMMA BenchmarkKeeps ==
  ASSUME PipelineInv, NEW base, NEW prot, NEW before, Benchmark(base, prot, before)
  PROVE  PipelineInv'
<1> DEFINE measured == [at |-> now, baseline |-> SummarizeRuns(base),
                        protected |-> SummarizeRuns(prot)]
<1>1. /\ Started /\ now' = now /\ job' = job
      /\ \E t : files' = [files EXCEPT !["benchmark"] = measured, !["trend"] = t]
  <2>1. /\ Started /\ now' = now /\ job' = job
    BY DEF Benchmark
  <2>2. \E t : files' = [files EXCEPT !["benchmark"] = measured, !["trend"] = t]
    BY Zenon DEF Benchmark
  <2> QED BY <2>1, <2>2
<1>2. PICK report : report = measured
  OBVIOUS
<1>3. report.at = now
  BY <1>2
<1>4. \E t : files' = [files EXCEPT !["benchmark"] = report, !["trend"] = t]
  BY <1>1, <1>2, Zenon
<1> HIDE DEF measured
<1>5. Started /\ now' = now /\ job' = job /\ now \in Nat /\ DOMAIN files = Artifacts
  BY <1>1 DEF PipelineInv, FilesOK
<1>6. /\ DOMAIN files' = Artifacts /\ files'["benchmark"] = report
      /\ \A b \in Artifacts \ {"benchmark", "trend"} : files'[b] = files[b]
  BY <1>4, <1>5 DEF Artifacts
<1>7. \A b \in Judged : files'[b] = files[b]
  BY <1>6 DEF Artifacts, Judged
<1>8. \A a \in {"benchmark", "security"} : files'[a] # NoFile => files'[a].at \in Int
  BY <1>3, <1>5, <1>6 DEF Artifacts, PipelineInv, FilesOK
<1> QED BY <1>5, <1>6, <1>7, <1>8, OneStepKeeps

LEMMA SecurityScanKeeps ==
  ASSUME PipelineInv, NEW world, NEW aware, SecurityScan(world, aware)
  PROVE  PipelineInv'
<1>1. PICK report : report.at = now /\ files' = [files EXCEPT !["security"] = report]
  BY DEF SecurityScan
<1>2. Started /\ now' = now /\ job' = job /\ now \in Nat /\ DOMAIN files = Artifacts
  BY DEF SecurityScan, PipelineInv, FilesOK
<1>3. /\ DOMAIN files' = Artifacts /\ files'["security"] = report
      /\ \A b \in Artifacts : b # "security" => files'[b] = files[b]
  BY <1>1, <1>2, ReportWritten DEF Artifacts
<1>4. \A b \in Judged : files'[b] = files[b]
  BY <1>3 DEF Artifacts, Judged
<1>5. \A a \in {"benchmark", "security"} : files'[a] # NoFile => files'[a].at \in Int
  BY <1>1, <1>2, <1>3 DEF Artifacts, PipelineInv, FilesOK
<1> QED BY <1>2, <1>3, <1>4, <1>5, OneStepKeeps

LEMMA OtherReportKeeps ==
  ASSUME PipelineInv, Started, now' = now, job' = job,
         NEW a \in {"raw", "score", "prompt"}, NEW report,
         files' = [files EXCEPT ![a] = report]
  PROVE  PipelineInv'
<1>1. DOMAIN files = Artifacts /\ a \in Artifacts
  BY DEF PipelineInv, FilesOK, Artifacts
<1>2. /\ DOMAIN files' = Artifacts
      /\ \A b \in Artifacts : b # a => files'[b] = files[b]
  BY <1>1, ReportWritten
<1>3. \A b \in Judged : files'[b] = files[b]
  BY <1>2 DEF Artifacts, Judged
<1>4. \A b \in {"benchmark", "security"} : files'[b] # NoFile => files'[b].at \in Int
  BY <1>2 DEF Artifacts, PipelineInv, FilesOK
<1> QED BY <1>2, <1>3, <1>4, OneStepKeeps

LEMMA RefusedKeeps ==
  ASSUME PipelineInv, NEW def, RefuseDefinition(def)
  PROVE  PipelineInv'
  BY OneStepKeeps DEF RefuseDefinition, PipelineInv, FilesOK, Judged

-----------------------------------------------------------------------------
\* The summary says PASS exactly when it gives no reason, as the gate does.
LEMMA SummaryTells ==
  ASSUME files["gate"] # NoFile => (files["gate"].pass <=> files["gate"].reasons = {})
  PROVE  Summary.pass <=> Summary.reasons = {}
<1> DEFINE tokens == files["compare"] # NoFile /\ files["compare"].failed # {}
           prompts == IF files["prompt"] = NoFile THEN {} ELSE files["prompt"].reasons
           failed == IF files["gate"] = NoFile THEN {} ELSE files["gate"].reasons
           why == (failed \X {"gate"}) \cup (prompts \X {"prompt"})
                    \cup (IF tokens THEN {<<"token_black_hole_gate", "compare">>} ELSE {})
           ok == (files["gate"] = NoFile \/ files["gate"].pass) /\ ~tokens /\ prompts = {}
<1>1. Summary.pass <=> ok
  BY DEF Summary
<1>2. Summary.reasons = why
  BY DEF Summary
<1>3. ok <=> failed = {} /\ ~tokens /\ prompts = {}
  OBVIOUS
<1>4. \A F, P : (F \X {"gate"}) \cup (P \X {"prompt"}) = {} <=> F = {} /\ P = {}
  <2> SUFFICES ASSUME NEW F, NEW P
               PROVE  (F \X {"gate"}) \cup (P \X {"prompt"}) = {} <=> F = {} /\ P = {}
    OBVIOUS
  <2>1. ASSUME NEW f \in F PROVE <<f, "gate">> \in F \X {"gate"}
    OBVIOUS
  <2>2. ASSUME NEW p \in P PROVE <<p, "prompt">> \in P \X {"prompt"}
    OBVIOUS
  <2> QED BY <2>1, <2>2
<1>5. why = {} <=> failed = {} /\ ~tokens /\ prompts = {}
  <2>1. (failed \X {"gate"}) \cup (prompts \X {"prompt"}) = {} <=> failed = {} /\ prompts = {}
    BY <1>4
  <2> QED BY <2>1
<1> QED BY <1>1, <1>2, <1>3, <1>5

\* unified_summary writes its own report.
LEMMA SummaryKeeps == PipelineInv /\ WriteSummary => PipelineInv'
<1> SUFFICES ASSUME PipelineInv, WriteSummary PROVE PipelineInv'
  OBVIOUS
<1>1. /\ now' = now /\ now \in Nat /\ now' \in Nat /\ now <= now' /\ job' = job
      /\ jobs' \in Nat /\ jobs <= jobs'
  BY StartedCounts DEF WriteSummary, PipelineInv, FilesOK
<1>2. PICK told : told = Summary
  OBVIOUS
<1>3. told.pass <=> told.reasons = {}
  BY <1>2, SummaryTells DEF PipelineInv, FilesOK
<1>4. files' = [files EXCEPT !["summary"] = told]
  BY <1>2 DEF WriteSummary
<1>5. /\ DOMAIN files' = Artifacts /\ files'["summary"] = told
      /\ \A b \in Artifacts : b # "summary" => files'[b] = files[b]
  BY <1>4, ReportWritten DEF PipelineInv, FilesOK, Artifacts
<1>6. /\ files'["compare"] = files["compare"] /\ files'["experiment"] = files["experiment"]
      /\ files'["gate"] = files["gate"] /\ files'["benchmark"] = files["benchmark"]
      /\ files'["security"] = files["security"]
  BY <1>5 DEF Artifacts
<1>7. FilesOK'
  BY <1>1, <1>5, <1>6 DEF PipelineInv, FilesOK
<1>8. VerdictFromOwnRun'
  BY <1>6 DEF PipelineInv, VerdictFromOwnRun, OwnVerdict
<1>9. PassRestsOnReports'
  BY <1>3, <1>5, <1>6 DEF PipelineInv, PassRestsOnReports, GateRests, SummaryRests
<1>10. JobOK' /\ CompareInv' /\ GateInv'
  BY <1>1, <1>6, JobKept
<1> QED BY <1>7, <1>8, <1>9, <1>10 DEF PipelineInv

-----------------------------------------------------------------------------
\* A comparison that starts is newer than every report and every verdict.
LEMMA StartCompareKeeps ==
  ASSUME PipelineInv, NEW by, StartCompare(by)
  PROVE  PipelineInv'
<1>1. /\ jobs \in Nat /\ jobs' = jobs + 1 /\ now \in Nat /\ now' = now + 1 /\ files' = files
      /\ jobs' \in Nat /\ jobs <= jobs' /\ now' \in Nat /\ now <= now'
  BY StartedCounts DEF StartCompare, PipelineInv, FilesOK
<1>2. /\ job'.kind = "compare" /\ DOMAIN job' = JobFields.compare /\ job'.pc = "run"
      /\ job'.id = jobs' /\ job'.started = now'
  BY <1>1 DEF StartCompare, JobFields
<1>3. FilesOK' /\ VerdictFromOwnRun' /\ PassRestsOnReports'
  BY <1>1, JudgedKept DEF PipelineInv, FilesOK
<1>4. JobOK' /\ GateInv'
  BY <1>1, <1>2 DEF JobOK, GateInv
<1>5. CompareInv'
  BY <1>1, <1>2 DEF CompareInv, PipelineInv, FilesOK
<1> QED BY <1>3, <1>4, <1>5 DEF PipelineInv

\* The comparison goes on to another of its steps.
CompareGoesOn ==
  /\ job'.kind = "compare" /\ DOMAIN job' = JobFields.compare
  /\ job'.pc \in {"run", "score", "read", "write", "judge"}
  /\ job'.id = job.id /\ job'.started = job.started /\ job'.by = job.by

\* A step of a comparison before it writes, as far as the judged reports go.
LEMMA CompareStepKeeps ==
  ASSUME PipelineInv, job.kind = "compare", job.pc # "judge", now' = now, jobs' = jobs,
         CompareGoesOn \/ job' = NoJob,
         DOMAIN files' = Artifacts, \A b \in Artifacts \ {"raw", "score"} : files'[b] = files[b]
  PROVE  PipelineInv'
<1>1. /\ now' \in Nat /\ now <= now' /\ jobs' \in Nat /\ jobs <= jobs'
  BY DEF PipelineInv, FilesOK
<1>2. /\ \A b \in Judged : files'[b] = files[b]
      /\ \A a \in {"benchmark", "security"} : files'[a] # NoFile => files'[a].at \in Int
  BY DEF Judged, Artifacts, PipelineInv, FilesOK
<1>3. FilesOK' /\ VerdictFromOwnRun' /\ PassRestsOnReports'
  BY <1>1, <1>2, JudgedKept
<1>4. CASE job' = NoJob
  BY <1>3, <1>4, JobOver DEF PipelineInv
<1>5. CASE CompareGoesOn
  <2>1. JobOK' /\ GateInv'
    BY <1>1, <1>5 DEF CompareGoesOn, JobOK, GateInv, PipelineInv
  <2>2. files'["compare"] = files["compare"] /\ files'["experiment"] = files["experiment"]
    BY <1>2 DEF Judged
  <2>3. CompareInv'
    BY <2>2, <1>5 DEF CompareGoesOn, CompareInv, PipelineInv
  <2> QED BY <1>3, <2>1, <2>3 DEF PipelineInv
<1> QED BY <1>4, <1>5

\* What a comparison leaves when it ends is over or the experiment's judgement.
LEMMA AfterCompareFits ==
  ASSUME PipelineInv, job.kind = "compare", job' = AfterCompare
  PROVE  job' = NoJob \/ (CompareGoesOn /\ job'.pc = "judge")
<1>1. job' = NoJob \/ job' = [job EXCEPT !.pc = "judge"]
  BY DEF AfterCompare
<1>2. DOMAIN job = JobFields.compare
  BY DEF PipelineInv, JobOK
<1> QED BY <1>1, <1>2 DEF CompareGoesOn, JobFields

\* run_one of an arm: the agent is run, scored and its score read back.
LEMMA CompareRunKeeps ==
  ASSUME PipelineInv, NEW s, CompareRun(s)
  PROVE  PipelineInv'
<1>1. /\ job.kind = "compare" /\ job.pc = "run" /\ now' = now /\ jobs' = jobs
      /\ DOMAIN job = JobFields.compare /\ DOMAIN files = Artifacts
  BY DEF CompareRun, PipelineInv, JobOK, FilesOK
<1>2. CompareGoesOn
  BY <1>1 DEF CompareRun, CompareGoesOn, JobFields
<1>3. /\ DOMAIN files' = Artifacts
      /\ \A b \in Artifacts \ {"raw", "score"} : files'[b] = files[b]
  BY <1>1 DEF CompareRun
<1> QED BY <1>1, <1>2, <1>3, CompareStepKeeps

LEMMA CompareScoreKeeps == PipelineInv /\ CompareScore => PipelineInv'
<1> SUFFICES ASSUME PipelineInv, CompareScore PROVE PipelineInv'
  OBVIOUS
<1>1. /\ job.kind = "compare" /\ job.pc = "score" /\ now' = now /\ jobs' = jobs
      /\ DOMAIN job = JobFields.compare /\ DOMAIN files = Artifacts
  BY DEF CompareScore, PipelineInv, JobOK, FilesOK
<1>2. CompareGoesOn
  BY <1>1 DEF CompareScore, CompareGoesOn, JobFields
<1>3. /\ DOMAIN files' = Artifacts
      /\ \A b \in Artifacts \ {"raw", "score"} : files'[b] = files[b]
  BY <1>1 DEF CompareScore
<1> QED BY <1>1, <1>2, <1>3, CompareStepKeeps

LEMMA CompareReadKeeps == PipelineInv /\ CompareRead => PipelineInv'
<1> SUFFICES ASSUME PipelineInv, CompareRead PROVE PipelineInv'
  OBVIOUS
<1>1. /\ job.kind = "compare" /\ job.pc = "read" /\ now' = now /\ jobs' = jobs
      /\ DOMAIN job = JobFields.compare /\ DOMAIN files = Artifacts /\ files' = files
  BY DEF CompareRead, PipelineInv, JobOK, FilesOK
<1>2. PICK m : m = files["score"].metrics
  OBVIOUS
<1>3. \/ job' = [job EXCEPT !.pc = "run", !.arm = "chaos", !.base = m]
      \/ job' = [job EXCEPT !.pc = "write", !.chaos = m]
  BY <1>2 DEF CompareRead
<1>4. CompareGoesOn
  BY <1>1, <1>3 DEF CompareGoesOn, JobFields
<1> QED BY <1>1, <1>4, CompareStepKeeps

\* A comparison that ends without a report.
LEMMA CompareEndsKeeps == PipelineInv /\ (CompareFails \/ ExperimentTimesOut) => PipelineInv'
<1> SUFFICES ASSUME PipelineInv, CompareFails \/ ExperimentTimesOut PROVE PipelineInv'
  OBVIOUS
<1>1. /\ job.kind = "compare" /\ job.pc # "judge" /\ now' = now /\ jobs' = jobs
      /\ files' = files /\ DOMAIN files = Artifacts
  BY DEF CompareFails, ExperimentTimesOut, PipelineInv, FilesOK
<1>2. CompareGoesOn \/ job' = NoJob
  BY <1>1, AfterCompareFits DEF CompareFails, ExperimentTimesOut
<1> QED BY <1>1, <1>2, CompareStepKeeps

\* The comparison writes its report: newer than its start, its own, and judged
\* by its tolerances.
LEMMA CompareWriteKeeps == PipelineInv /\ CompareWrite => PipelineInv'
<1> SUFFICES ASSUME PipelineInv, CompareWrite PROVE PipelineInv'
  OBVIOUS
<1>1. /\ job.kind = "compare" /\ job.pc = "write" /\ now' = now /\ jobs' = jobs
      /\ job' = AfterCompare
  BY DEF CompareWrite
<1>2. /\ now \in Nat /\ jobs \in Nat /\ DOMAIN files = Artifacts
      /\ job.id \in Nat /\ job.id <= jobs /\ job.started \in Nat /\ job.started <= now
  BY <1>1 DEF PipelineInv, FilesOK, JobOK
<1> DEFINE written == [at |-> now, of |-> job.id, base |-> job.base, chaos |-> job.chaos,
                       failed |-> FailedSubGates(job.base, job.chaos,
                                                 EffectiveTolerance(job.by.tolerance))]
<1>3. PICK c : c = written
  OBVIOUS
<1>4. /\ c.at = now /\ c.of = job.id
      /\ c.failed = FailedSubGates(c.base, c.chaos, EffectiveTolerance(job.by.tolerance))
  BY <1>3
<1>5. files' = [files EXCEPT !["compare"] = c]
  BY <1>3 DEF CompareWrite
<1> HIDE DEF written
<1>6. /\ DOMAIN files' = Artifacts /\ files'["compare"] = c
      /\ \A b \in Artifacts : b # "compare" => files'[b] = files[b]
  BY <1>2, <1>5, ReportWritten DEF Artifacts
<1>7. /\ files'["experiment"] = files["experiment"] /\ files'["gate"] = files["gate"]
      /\ files'["summary"] = files["summary"] /\ files'["benchmark"] = files["benchmark"]
      /\ files'["security"] = files["security"]
  BY <1>6 DEF Artifacts
<1>8. FilesOK'
  BY <1>1, <1>2, <1>4, <1>6, <1>7 DEF PipelineInv, FilesOK
<1>9. VerdictFromOwnRun'
  BY <1>1, <1>4, <1>6, <1>7 DEF PipelineInv, FilesOK, CompareInv, VerdictFromOwnRun, OwnVerdict
<1>10. PassRestsOnReports'
  BY <1>7 DEF PipelineInv, PassRestsOnReports, GateRests, SummaryRests
<1>11. CASE job' = NoJob
  BY <1>8, <1>9, <1>10, <1>11, JobOver DEF PipelineInv
<1>12. CASE CompareGoesOn /\ job'.pc = "judge"
  <2>1. JobOK' /\ GateInv'
    BY <1>1, <1>2, <1>12 DEF CompareGoesOn, JobOK, GateInv
  <2>2. CompareInv'
    BY <1>1, <1>2, <1>4, <1>6, <1>7, <1>12 DEF CompareGoesOn, CompareInv, PipelineInv
  <2> QED BY <1>8, <1>9, <1>10, <2>1, <2>2 DEF PipelineInv
<1> QED BY <1>1, <1>11, <1>12, AfterCompareFits

\* run_experiment judges a comparison report that is not older than itself,
\* which is its own, or writes nothing.
LEMMA JudgeKeeps == PipelineInv /\ Judge => PipelineInv'
<1> SUFFICES ASSUME PipelineInv, Judge PROVE PipelineInv'
  OBVIOUS
<1>1. /\ job.kind = "compare" /\ job' = NoJob /\ now' = now /\ jobs' = jobs
  BY DEF Judge
<1>2. /\ now \in Nat /\ jobs \in Nat /\ DOMAIN files = Artifacts
      /\ job.id \in Nat /\ job.id <= jobs /\ job.started \in Nat
  BY <1>1 DEF PipelineInv, FilesOK, JobOK
<1>3. JobOK' /\ CompareInv' /\ GateInv'
  BY <1>1, JobOver
<1>4. CASE files' = files
  <2>1. FilesOK' /\ VerdictFromOwnRun' /\ PassRestsOnReports'
    BY <1>1, <1>2, <1>4, JudgedKept DEF PipelineInv, FilesOK
  <2> QED BY <1>3, <2>1 DEF PipelineInv
<1>5. CASE files' # files
  <2>1. PICK c : c = files["compare"]
    OBVIOUS
  <2> DEFINE verdict == [at |-> now, id |-> job.id, of |-> c.of, def |-> job.by,
                         steady |-> SteadyState(c.base, job.by.floor),
                         pass |-> SteadyState(c.base, job.by.floor) /\ c.failed = {},
                         reasons |-> c.failed \cap ExplainedSubGates]
  <2>2. c # NoFile /\ ~(c.at < job.started) /\ files' = [files EXCEPT !["experiment"] = verdict]
    BY <1>5, <2>1 DEF Judge
  <2>3. /\ c.of = job.id
        /\ c.failed = FailedSubGates(c.base, c.chaos, EffectiveTolerance(job.by.tolerance))
    BY <1>1, <1>2, <2>1, <2>2 DEF PipelineInv, FilesOK, CompareInv
  <2>4. PICK e : e = verdict
    OBVIOUS
  <2>5. /\ e.id = job.id /\ e.of = e.id /\ e.def = job.by
        /\ e.pass => SteadyState(c.base, job.by.floor) /\ c.failed = {}
    BY <2>3, <2>4
  <2>6. files' = [files EXCEPT !["experiment"] = e]
    BY <2>2, <2>4
  <2> HIDE DEF verdict
  <2>7. /\ DOMAIN files' = Artifacts /\ files'["experiment"] = e
        /\ \A b \in Artifacts : b # "experiment" => files'[b] = files[b]
    BY <1>2, <2>6, ReportWritten DEF Artifacts
  <2>8. /\ files'["compare"] = c /\ files'["gate"] = files["gate"]
        /\ files'["summary"] = files["summary"] /\ files'["benchmark"] = files["benchmark"]
        /\ files'["security"] = files["security"]
    BY <2>1, <2>7 DEF Artifacts
  <2>9. FilesOK'
    BY <1>1, <1>2, <2>1, <2>5, <2>7, <2>8 DEF PipelineInv, FilesOK
  <2>10. VerdictFromOwnRun'
    BY <2>3, <2>5, <2>7, <2>8 DEF VerdictFromOwnRun, OwnVerdict
  <2>11. PassRestsOnReports'
    BY <2>8 DEF PipelineInv, PassRestsOnReports, GateRests, SummaryRests
  <2> QED BY <1>3, <2>9, <2>10, <2>11 DEF PipelineInv
<1> QED BY <1>4, <1>5

-----------------------------------------------------------------------------
(* The gate *)

\* A gate that starts has noted nothing.
LEMMA StartGateKeeps ==
  ASSUME PipelineInv, NEW settings, StartGate(settings)
  PROVE  PipelineInv'
<1>1. /\ now \in Nat /\ now' = now /\ now' \in Nat /\ now <= now' /\ files' = files
      /\ jobs' \in Nat /\ jobs <= jobs'
  BY StartedCounts DEF StartGate, PipelineInv, FilesOK
<1>2. /\ job'.kind = "gate" /\ DOMAIN job' = JobFields.gate /\ job'.at = 1
      /\ job'.began = now /\ job'.checks = << >> /\ job'.read = << >>
  BY DEF StartGate, JobFields
<1>3. FilesOK' /\ VerdictFromOwnRun' /\ PassRestsOnReports'
  BY <1>1, JudgedKept DEF PipelineInv, FilesOK
<1>4. JobOK' /\ CompareInv'
  BY <1>1, <1>2 DEF JobOK, CompareInv
<1>5. GateInv'
  BY <1>2 DEF GateInv
<1> QED BY <1>3, <1>4, <1>5 DEF PipelineInv

\* What one more check says fits the report it reads now.
LEMMA VerdictFits ==
  ASSUME PipelineInv, NEW i \in 1 .. 4, NEW settings, NEW began \in Nat, began <= now,
         Verdict(Checks[i], settings) # "CRASH"
  PROVE  CheckNoted(i, Verdict(Checks[i], settings), files[Reads(Checks[i])], began)
<1>1. /\ Checks[1] = "benchmark" /\ Checks[2] = "security"
      /\ Checks[3] = "benchmark_trend" /\ Checks[4] = "agent_eval"
  BY DEF Checks
<1>2. /\ now \in Nat /\ MaxAge \in Nat
      /\ files["benchmark"] # NoFile => files["benchmark"].at \in Int
      /\ files["security"] # NoFile => files["security"].at \in Int
  BY PipelineAssumption DEF PipelineInv, FilesOK
<1>3. ASSUME NEW report, report.at \in Int, Fresh(report)
      PROVE  began - report.at <= MaxAge
  BY <1>2, <1>3 DEF Fresh
<1>4. CASE i = 1
  BY <1>1, <1>2, <1>3, <1>4 DEF Verdict, Reads, CheckNoted
<1>5. CASE i = 2
  BY <1>1, <1>2, <1>3, <1>5 DEF Verdict, Reads, CheckNoted
<1>6. CASE i = 3
  BY <1>1, <1>6 DEF Verdict, CheckNoted
<1>7. CASE i = 4
  BY <1>1, <1>7 DEF Verdict, Reads, CheckNoted
<1> QED BY <1>4, <1>5, <1>6, <1>7

\* Noting one more thing keeps what was noted before.
LEMMA OneMore ==
  ASSUME NEW n \in Nat, NEW s, DOMAIN s = 1 .. n, Len(s) = n, NEW e
  PROVE  /\ DOMAIN Append(s, e) = 1 .. (n + 1) /\ Len(Append(s, e)) = n + 1
         /\ Append(s, e)[n + 1] = e /\ \A i \in 1 .. n : Append(s, e)[i] = s[i]
  OBVIOUS

\* A gate that goes on, dropping or noting a check, leaves the files alone.
LEMMA GateCheckKeeps == PipelineInv /\ GateCheck => PipelineInv'
<1> SUFFICES ASSUME PipelineInv, GateCheck PROVE PipelineInv'
  OBVIOUS
<1>1. /\ job.kind = "gate" /\ job.at <= Len(Checks) /\ now' = now /\ files' = files /\ jobs' = jobs
  BY DEF GateCheck
<1>2. /\ now \in Nat /\ jobs \in Nat /\ DOMAIN job = JobFields.gate /\ job.at \in 1 .. 4
      /\ job.began \in Nat /\ job.began <= now
      /\ DOMAIN job.checks = 1 .. (job.at - 1) /\ Len(job.checks) = job.at - 1
      /\ DOMAIN job.read = 1 .. (job.at - 1) /\ Len(job.read) = job.at - 1
  BY <1>1 DEF PipelineInv, FilesOK, JobOK, Checks
<1>3. FilesOK' /\ VerdictFromOwnRun' /\ PassRestsOnReports'
  BY <1>1, <1>2, JudgedKept DEF PipelineInv, FilesOK
<1>4. PICK v : v = Verdict(Checks[job.at], job.settings)
  OBVIOUS
<1>5. PICK r : r = files[Reads(Checks[job.at])]
  OBVIOUS
<1>6. v # "CRASH"
  BY <1>4 DEF GateCheck
<1>7. \/ job' = [job EXCEPT !.try = @ + 1]
      \/ job' = [job EXCEPT !.at = @ + 1, !.try = 1, !.checks = Append(@, v), !.read = Append(@, r)]
  BY <1>4, <1>5 DEF GateCheck
<1>8. CheckNoted(job.at, v, r, job.began)
  BY <1>2, <1>4, <1>5, <1>6, VerdictFits
<1>9. CASE job' = [job EXCEPT !.try = @ + 1]
  <2>1. /\ job'.kind = "gate" /\ DOMAIN job' = JobFields.gate /\ job'.at = job.at
        /\ job'.began = job.began /\ job'.checks = job.checks /\ job'.read = job.read
    BY <1>1, <1>2, <1>9 DEF JobFields
  <2>2. JobOK' /\ CompareInv'
    BY <1>1, <1>2, <2>1 DEF JobOK, CompareInv
  <2>3. GateInv'
    BY <1>1, <2>1 DEF PipelineInv, GateInv
  <2> QED BY <1>3, <2>2, <2>3 DEF PipelineInv
<1>10. CASE job' = [job EXCEPT !.at = @ + 1, !.try = 1, !.checks = Append(@, v), !.read = Append(@, r)]
  <2>1. /\ job'.kind = "gate" /\ DOMAIN job' = JobFields.gate /\ job'.at = job.at + 1
        /\ job'.began = job.began /\ job'.checks = Append(job.checks, v)
        /\ job'.read = Append(job.read, r)
    BY <1>1, <1>2, <1>10 DEF JobFields
  <2>2. PICK n \in Nat : n = job.at - 1
    BY <1>2
  <2>3. /\ DOMAIN job'.checks = 1 .. (n + 1) /\ Len(job'.checks) = n + 1
        /\ job'.checks[n + 1] = v /\ \A i \in 1 .. n : job'.checks[i] = job.checks[i]
    BY <1>2, <2>1, <2>2, OneMore
  <2>4. /\ DOMAIN job'.read = 1 .. (n + 1) /\ Len(job'.read) = n + 1
        /\ job'.read[n + 1] = r /\ \A i \in 1 .. n : job'.read[i] = job.read[i]
    BY <1>2, <2>1, <2>2, OneMore
  <2>5. JobOK' /\ CompareInv'
    BY <1>1, <1>2, <2>1, <2>2, <2>3, <2>4 DEF JobOK, CompareInv
  <2>6. GateInv'
    <3> SUFFICES ASSUME NEW i \in 1 .. (job'.at - 1)
                 PROVE  CheckNoted(i, job'.checks[i], job'.read[i], job'.began)
      BY DEF GateInv
    <3>0. job'.at - 1 = n + 1
      BY <1>2, <2>1, <2>2
    <3>1. CASE i = n + 1
      <4>1. i = job.at
        BY <1>2, <2>2, <3>1
      <4>2. job'.checks[i] = v /\ job'.read[i] = r /\ job'.began = job.began
        BY <2>1, <2>3, <2>4, <3>1
      <4> QED BY <1>8, <4>1, <4>2
    <3>2. CASE i \in 1 .. n
      <4>1. CheckNoted(i, job.checks[i], job.read[i], job.began)
        BY <1>1, <2>2, <3>2, <1>2 DEF PipelineInv, GateInv
      <4> QED BY <4>1, <2>1, <2>3, <2>4, <3>2
    <3> QED BY <3>0, <3>1, <3>2
  <2> QED BY <1>3, <2>5, <2>6 DEF PipelineInv
<1> QED BY <1>7, <1>9, <1>10

\* A gate that crashes leaves everything as it was.
LEMMA GateCrashesKeeps == PipelineInv /\ GateCrashes => PipelineInv'
<1> SUFFICES ASSUME PipelineInv, GateCrashes PROVE PipelineInv'
  OBVIOUS
<1>1. /\ now' = now /\ now \in Nat /\ files' = files /\ jobs' = jobs /\ jobs \in Nat /\ job' = NoJob
  BY DEF GateCrashes, PipelineInv, FilesOK
<1>2. FilesOK' /\ VerdictFromOwnRun' /\ PassRestsOnReports'
  BY <1>1, JudgedKept DEF PipelineInv, FilesOK
<1> QED BY <1>1, <1>2, JobOver DEF PipelineInv

\* The gate's document follows from what it noted: PASS means no check failed.
LEMMA GateWriteKeeps == PipelineInv /\ GateWrite => PipelineInv'
<1> SUFFICES ASSUME PipelineInv, GateWrite PROVE PipelineInv'
  OBVIOUS
<1>1. /\ job.kind = "gate" /\ job.at > Len(Checks) /\ job' = NoJob /\ now' = now /\ jobs' = jobs
  BY DEF GateWrite
<1>2. /\ now \in Nat /\ jobs \in Nat /\ DOMAIN files = Artifacts /\ job.at = 5
      /\ job.began \in Nat /\ job.began <= now /\ DOMAIN job.checks = 1 .. 4
      /\ MaxAge \in Nat
  <2>1. Len(Checks) = 4
    BY DEF Checks
  <2>2. job.at \in 1 .. 5 /\ job.began \in Nat /\ job.began <= now
        /\ DOMAIN job.checks = 1 .. (job.at - 1)
    BY <1>1 DEF PipelineInv, JobOK
  <2>3. job.at = 5
    BY <1>1, <2>1, <2>2
  <2>4. DOMAIN job.checks = 1 .. 4
    BY <2>2, <2>3
  <2> QED BY <2>2, <2>3, <2>4, PipelineAssumption DEF PipelineInv, FilesOK
<1> DEFINE document == [at |-> now, began |-> job.began, checks |-> job.checks, read |-> job.read,
                        reasons |-> FailedChecks(job.checks),
                        pass |-> FailedChecks(job.checks) = {}]
<1>3. PICK g : g = document
  OBVIOUS
<1>4. /\ g.at = now /\ g.began = job.began /\ g.checks = job.checks /\ g.read = job.read
      /\ g.reasons = FailedChecks(job.checks) /\ (g.pass <=> g.reasons = {})
  BY <1>3
<1>5. files' = [files EXCEPT !["gate"] = g]
  BY <1>3 DEF GateWrite
<1> HIDE DEF document
<1>6. /\ DOMAIN files' = Artifacts /\ files'["gate"] = g
      /\ \A b \in Artifacts : b # "gate" => files'[b] = files[b]
  BY <1>2, <1>5, ReportWritten DEF Artifacts
<1>7. /\ files'["experiment"] = files["experiment"] /\ files'["compare"] = files["compare"]
      /\ files'["summary"] = files["summary"] /\ files'["benchmark"] = files["benchmark"]
      /\ files'["security"] = files["security"]
  BY <1>6 DEF Artifacts
<1>8. FilesOK'
  BY <1>1, <1>2, <1>4, <1>6, <1>7 DEF PipelineInv, FilesOK
<1>9. VerdictFromOwnRun' /\ SummaryRests(files')
  BY <1>7 DEF PipelineInv, PassRestsOnReports, VerdictFromOwnRun, OwnVerdict, SummaryRests
<1>10. \A i \in 1 .. 4 : CheckNoted(i, g.checks[i], g.read[i], g.began)
  BY <1>1, <1>2, <1>4 DEF PipelineInv, GateInv
<1>11. g.pass => \A i \in 1 .. 4 : g.checks[i] # "FAIL"
  BY <1>2, <1>4 DEF FailedChecks
<1>12. GateRests(files')
  <2> SUFFICES ASSUME g # NoFile, g.pass
               PROVE  /\ g.read[1] # NoFile /\ BenchmarkOk(g.read[1])
                      /\ g.at - g.read[1].at <= MaxAge + (g.at - g.began)
                      /\ g.checks[2] = "PASS" =>
                           /\ SecurityOk(g.read[2].highest)
                           /\ g.at - g.read[2].at <= MaxAge + (g.at - g.began)
                      /\ g.checks[4] = "PASS" => AgentOk(g.read[4].metrics)
                      /\ g.read[2] # NoFile => g.checks[2] = "PASS"
    BY <1>6 DEF GateRests
  <2>1. g.checks[1] = "PASS" /\ g.checks[2] \in {"PASS", "SKIPPED"}
    BY <1>10, <1>11 DEF CheckNoted
  <2>2. /\ g.read[1] # NoFile /\ BenchmarkOk(g.read[1])
        /\ g.read[1].at \in Int /\ g.began - g.read[1].at <= MaxAge
    BY <1>10, <2>1 DEF CheckNoted
  <2>3. g.checks[2] = "PASS" =>
          /\ SecurityOk(g.read[2].highest)
          /\ g.read[2].at \in Int /\ g.began - g.read[2].at <= MaxAge
    BY <1>10 DEF CheckNoted
  <2>4. g.read[2] # NoFile => g.checks[2] = "PASS"
    BY <1>10, <2>1 DEF CheckNoted
  <2>5. g.checks[4] = "PASS" => AgentOk(g.read[4].metrics)
    BY <1>10 DEF CheckNoted
  <2>6. ASSUME NEW t \in Int, g.began - t <= MaxAge
        PROVE  g.at - t <= MaxAge + (g.at - g.began)
    BY <1>2, <1>4, <2>6
  <2> QED BY <2>2, <2>3, <2>4, <2>5, <2>6
<1>13. PassRestsOnReports'
  BY <1>9, <1>12 DEF PassRestsOnReports, GateRests, SummaryRests
<1>14. VerdictFromOwnRun'
  BY <1>9
<1> QED BY <1>1, <1>8, <1>13, <1>14, JobOver DEF PipelineInv

-----------------------------------------------------------------------------
\* A step that changes nothing keeps the invariant.
LEMMA PipelineStutter == PipelineInv /\ UNCHANGED pipelineVars => PipelineInv'
<1> SUFFICES ASSUME PipelineInv, UNCHANGED pipelineVars PROVE PipelineInv'
  OBVIOUS
<1>1. /\ now' = now /\ files' = files /\ jobs' = jobs /\ job' = job
      /\ now \in Nat /\ jobs \in Nat
  BY DEF pipelineVars, PipelineInv, FilesOK
<1>2. FilesOK' /\ VerdictFromOwnRun' /\ PassRestsOnReports'
  BY <1>1, JudgedKept DEF PipelineInv, FilesOK
<1>3. JobOK' /\ CompareInv' /\ GateInv'
  BY <1>1, JobKept
<1> QED BY <1>2, <1>3 DEF PipelineInv

\* Time passes.
LEMMA PipelineTickKeeps == PipelineInv /\ PipelineTick => PipelineInv'
<1> SUFFICES ASSUME PipelineInv, PipelineTick PROVE PipelineInv'
  OBVIOUS
<1>1. /\ now' = now + 1 /\ files' = files /\ jobs' = jobs /\ job' = job
      /\ now \in Nat /\ jobs \in Nat
  BY DEF PipelineTick, PipelineInv, FilesOK
<1>2. FilesOK' /\ VerdictFromOwnRun' /\ PassRestsOnReports'
  BY <1>1, JudgedKept DEF PipelineInv, FilesOK
<1>3. JobOK' /\ CompareInv' /\ GateInv'
  BY <1>1, JobKept
<1> QED BY <1>2, <1>3 DEF PipelineInv

\* Every program that is started keeps the invariant.
LEMMA StartProgramKeeps == PipelineInv /\ StartProgram => PipelineInv'
<1> SUFFICES ASSUME PipelineInv, StartProgram PROVE PipelineInv'
  OBVIOUS
<1>1. ASSUME NEW base, NEW prot, NEW before, Benchmark(base, prot, before) PROVE PipelineInv'
  BY <1>1, BenchmarkKeeps
<1>2. ASSUME NEW world, NEW aware, SecurityScan(world, aware) PROVE PipelineInv'
  BY <1>2, SecurityScanKeeps
<1>3. ASSUME NEW s, RunAgentEval(s) PROVE PipelineInv'
  BY <1>3, OtherReportKeeps DEF RunAgentEval
<1>4. ASSUME ScoreAgentEval PROVE PipelineInv'
  BY <1>4, OtherReportKeeps DEF ScoreAgentEval
<1>5. ASSUME NEW b, NEW c, PromptRegression(b, c) PROVE PipelineInv'
  BY <1>5, OtherReportKeeps DEF PromptRegression
<1>6. ASSUME NEW def, StartCompare(def) PROVE PipelineInv'
  BY <1>6, StartCompareKeeps
<1>7. ASSUME NEW def, StartExperiment(def) \/ RefuseDefinition(def) PROVE PipelineInv'
  BY <1>6, <1>7, RefusedKeeps DEF StartExperiment
<1>8. ASSUME NEW settings, StartGate(settings) PROVE PipelineInv'
  BY <1>8, StartGateKeeps
<1>9. ASSUME WriteSummary PROVE PipelineInv'
  BY <1>9, SummaryKeeps
<1> QED BY <1>1, <1>2, <1>3, <1>4, <1>5, <1>6, <1>7, <1>8, <1>9 DEF StartProgram

\* Every step of the program that runs keeps the invariant.
LEMMA JobStepKeeps == PipelineInv /\ JobStep => PipelineInv'
  BY CompareRunKeeps, CompareScoreKeeps, CompareReadKeeps, CompareWriteKeeps, CompareEndsKeeps,
     JudgeKeeps, GateCheckKeeps, GateCrashesKeeps, GateWriteKeeps DEF JobStep

\* PipelineInv holds in every state of the report files and of the comparison,
\* experiment or gate that is running.
THEOREM PipelineInductive == PipelineSpec => []PipelineInv
<1>1. PipelineInit => PipelineInv
  BY PipelineStart
<1>2. PipelineInv /\ [PipelineNext]_pipelineVars => PipelineInv'
  BY PipelineStutter, PipelineTickKeeps, StartProgramKeeps, JobStepKeeps DEF PipelineNext
<1> QED BY <1>1, <1>2, PTL DEF PipelineSpec

\* run_experiment.main never judges a report of another run, and PASS means
\* that every steady-state floor and every sub-gate of its own comparison held.
THEOREM PipelineOwnVerdict == PipelineSpec => []VerdictFromOwnRun
<1>1. PipelineInv => VerdictFromOwnRun
  BY DEF PipelineInv
<1> QED BY <1>1, PipelineInductive, PTL

\* unified_quality_gate passes only on reports that were good and fresh when it
\* read them, and unified_summary says PASS exactly when it gives no reason.
THEOREM PipelinePassRests == PipelineSpec => []PassRestsOnReports
<1>1. PipelineInv => PassRestsOnReports
  BY DEF PipelineInv
<1> QED BY <1>1, PipelineInductive, PTL
=============================================================================
