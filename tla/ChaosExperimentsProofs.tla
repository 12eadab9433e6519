------------------------ MODULE ChaosExperimentsProofs ------------------------
(***************************************************************************)
(* Proofs about ChaosExperiments for any workers, experiments, duration    *)
(* and bounds.  ReportSound is not inductive by itself: a document that a  *)
(* call has read and changed is written back later, so the copies in       *)
(* flight must be sound as well (CopySound), and they stay sound because   *)
(* the observations only grow.                                             *)
(*                                                                         *)
(* The second half proves the two properties about the whole life of an    *)
(* experiment: the gauge (GaugeInv) and who it acts on (OffInv).           *)
(***************************************************************************)
EXTENDS ChaosExperiments, TLAPS

\* A document held for writing is sound for the experiment it belongs to.
CopySound ==
  \A w \in Workers : pc[w] \in {"save", "show_check"} =>
    SoundFor(copy[w], tgt[w])

\* A call that is about to write knows which experiment it works on, and one
\* that holds a document goes back to a loop or ends.
WritePC  == {"create_exp", "create_report", "create_count", "stop_save", "recover",
             "save", "show_check"}
ReturnPC == {"sweep", "list", "breaker", "service", "raised", "fallback", "respond",
             "stop", "done"}
Known(w) == /\ pc[w] \in WritePC => tgt[w] \in Experiments
            /\ pc[w] \in {"save", "show_check"} => ret[w] \in ReturnPC
TargetKnown == \A w \in Workers : Known(w)

IInv == TypeOK /\ TargetKnown /\ ReportSound /\ CopySound

-----------------------------------------------------------------------------
\* The labels the actions name are control points.
LEMMA Labels ==
  /\ "new" \in PC /\ "create_exp" \in PC /\ "create_report" \in PC /\ "create_count" \in PC
  /\ "sweep_keys" \in PC /\ "sweep" \in PC /\ "list_keys" \in PC /\ "list" \in PC
  /\ "breaker" \in PC /\ "service" \in PC /\ "fallback" \in PC /\ "respond" \in PC
  /\ "stop" \in PC /\ "stop_save" \in PC /\ "recover" \in PC /\ "show" \in PC
  /\ "show_report" \in PC /\ "show_check" \in PC /\ "save" \in PC /\ "done" \in PC
  /\ "raised" \in PC
BY DEF PC

\* The changes the code makes to a report document give a report document.
LEMMA Documents ==
  /\ NoReport \in Reports
  /\ \A d \in Reports : [d EXCEPT !.recovered = TRUE] \in Reports
  /\ \A d \in Reports, t \in Nat : [d EXCEPT !.live = TRUE, !.exp = t] \in Reports
  /\ \A s, t \in Nat : [NoReport EXCEPT !.live = TRUE, !.created = s, !.exp = t] \in Reports
BY DEF Reports, NoReport, Counters

\* The experiment documents that are written.
LEMMA ExperimentDocuments ==
  /\ NoExp \in ExpDocs
  /\ \A t \in Nat : /\ [status |-> "running", exp |-> t] \in ExpDocs
                    /\ [status |-> "stopped", exp |-> t] \in ExpDocs
BY DEF ExpDocs, NoExp

\* So does counting an observation, which also keeps the history well formed.
LEMMA Counting ==
  ASSUME NEW d \in Reports, NEW s \in [Counters \union {"created"} -> Nat], NEW what
  PROVE  /\ [d EXCEPT !.counts = [c \in Counters |-> IF c \in what THEN @[c] + 1 ELSE @[c]]]
              \in Reports
         /\ [c \in DOMAIN s |-> IF c \in what THEN s[c] + 1 ELSE s[c]]
              \in [Counters \union {"created"} -> Nat]
BY DEF Reports

\* Moving on, and holding a changed document, keep the types.
LEMMA GotoType ==
  ASSUME TypeOK, NEW w \in Workers, NEW l \in PC, Goto(w, l)
  PROVE  pc' \in [Workers -> PC]
BY DEF Goto, TypeOK

\* A worker that keeps a copy of a report keeps the types.
LEMMA HoldType ==
  ASSUME TypeOK, NEW w \in Workers, NEW e \in Experiments, NEW new \in Reports,
         NEW after \in PC, Hold(w, e, new, after)
  PROVE  /\ copy' \in [Workers -> Reports] /\ ret' \in [Workers -> PC]
         /\ tgt' \in [Workers -> Experiments \union {NoExperiment}]
         /\ pc' \in [Workers -> PC]
<1>1. pc' \in [Workers -> PC]
  BY GotoType, Labels DEF Hold
<1> QED
  BY <1>1 DEF Hold, Set, TypeOK

\* Reading a report for an observation keeps the types of what it touches.
LEMMA ObserveType ==
  ASSUME TypeOK, NEW w \in Workers, NEW e \in Experiments, NEW what, NEW after \in PC,
         Observe(w, e, what, after)
  PROVE  /\ seen' \in [Experiments -> [Counters \union {"created"} -> Nat]]
         /\ copy' \in [Workers -> Reports] /\ ret' \in [Workers -> PC]
         /\ tgt' \in [Workers -> Experiments \union {NoExperiment}]
         /\ pc' \in [Workers -> PC]
<1>1. report[e] \in Reports /\ seen[e] \in [Counters \union {"created"} -> Nat]
  BY DEF TypeOK
<1>2. seen' \in [Experiments -> [Counters \union {"created"} -> Nat]]
  BY <1>1, Counting DEF Observe, TypeOK
<1>3. Bump(e, what) \in Reports
  BY <1>1, Counting DEF Bump
<1>4. CASE report[e].live
  BY <1>2, <1>3, <1>4, HoldType DEF Observe
<1>5. CASE ~report[e].live
  BY <1>2, <1>5, GotoType DEF Observe, TypeOK
<1> QED
  BY <1>4, <1>5

\* The end of a loop, which leaves only `failed` to the action that uses it.
LEMMA EndLoopType ==
  ASSUME TypeOK, NEW w \in Workers, NEW l \in PC, NEW next \in SUBSET Experiments,
         EndLoop(w, l, next), failed' \in [Workers -> BOOLEAN]
  PROVE  TypeOK'
<1>1. pc' \in [Workers -> PC]
  BY GotoType DEF EndLoop
<1>2. todo' \in [Workers -> SUBSET Experiments]
  BY DEF EndLoop, TypeOK, Set
<1> QED
  BY <1>1, <1>2 DEF EndLoop, TypeOK

\* A call that begins.
LEMMA BeginType ==
  ASSUME TypeOK, NEW w \in Workers, NEW o \in Ops, NEW m \in SUBSET Experiments,
         NEW l \in PC, Begin(w, o, m, l), todo' \in [Workers -> SUBSET Experiments],
         tgt' \in [Workers -> Experiments \union {NoExperiment}],
         seen' \in [Experiments -> [Counters \union {"created"} -> Nat]]
  PROVE  TypeOK'
<1>1. pc' \in [Workers -> PC]
  BY GotoType DEF Begin
<1>2. op' \in [Workers -> Ops] /\ matched' \in [Workers -> SUBSET Experiments]
  BY DEF Begin, TypeOK, Set
<1>3. clk' \in [Workers -> Nat] /\ ended' \in [Workers -> SUBSET Experiments]
  BY DEF Begin, TypeOK, Set
<1> QED
  BY <1>1, <1>2, <1>3 DEF Begin, TypeOK

\* Every arrival keeps the types.
LEMMA ArriveType == ASSUME TypeOK, NEW w \in Workers, Arrive(w) PROVE TypeOK'
<1>1. /\ "create" \in Ops /\ "list" \in Ops /\ "show" \in Ops /\ "stop" \in Ops
      /\ "stop_all" \in Ops /\ "request" \in Ops
  BY DEF Ops
<1>2. ASSUME NEW e \in Experiments, BeginCreate(w, e) PROVE TypeOK'
  <2>1. seen' \in [Experiments -> [Counters \union {"created"} -> Nat]]
    BY <1>2 DEF BeginCreate, TypeOK
  <2>2. tgt' \in [Workers -> Experiments \union {NoExperiment}]
    BY <1>2 DEF BeginCreate, TypeOK, Set
  <2>3. todo' \in [Workers -> SUBSET Experiments]
    BY <1>2 DEF BeginCreate, TypeOK
  <2>4. Begin(w, "create", {e}, "create_exp")
    BY <1>2 DEF BeginCreate
  <2> QED
    BY <1>1, <2>1, <2>2, <2>3, <2>4, BeginType, Labels
<1>3. ASSUME NEW e \in Experiments, BeginStop(w, e) PROVE TypeOK'
  <2>1. todo' \in [Workers -> SUBSET Experiments]
    BY <1>3 DEF BeginStop, TypeOK, Set
  <2>2. UNCHANGED <<tgt, seen>> /\ Begin(w, "stop", {e}, "stop")
    BY <1>3 DEF BeginStop
  <2> QED
    BY <1>1, <2>1, <2>2, BeginType, Labels DEF TypeOK
<1>4. ASSUME NEW o \in Ops, NEW m \in SUBSET Experiments, BeginSweep(w, o, m) PROVE TypeOK'
  BY <1>4, BeginType, Labels DEF BeginSweep, TypeOK
<1>5. CASE BeginStopAll(w)
  BY <1>1, <1>5, BeginType, Labels DEF BeginStopAll, TypeOK
<1>6. \A e \in Experiments : {e} \in SUBSET Experiments /\ {} \in SUBSET Experiments
  OBVIOUS
<1>7. CASE BeginSweep(w, "request", {})
  BY <1>1, <1>4, <1>7
<1>8. CASE BeginSweep(w, "list", {})
  BY <1>1, <1>4, <1>8
<1>9. ASSUME NEW e \in Experiments, BeginSweep(w, "show", {e}) PROVE TypeOK'
  BY <1>1, <1>4, <1>9
<1> QED
  BY <1>2, <1>3, <1>5, <1>7, <1>8, <1>9 DEF Arrive

\* Every step keeps the shape of the documents, the gauge and the calls.
LEMMA TypeStep == TypeOK /\ TargetKnown /\ [Next]_vars => TypeOK'
<1> SUFFICES ASSUME TypeOK, TargetKnown, [Next]_vars PROVE TypeOK'
  OBVIOUS
<1>1. CASE Tick
  <2>1. exp' \in [Experiments -> ExpDocs] /\ report' \in [Experiments -> Reports]
    BY <1>1, ExperimentDocuments, Documents DEF Tick, TypeOK
  <2>2. now' \in Nat
    BY <1>1 DEF Tick, TypeOK
  <2> QED
    BY <1>1, <2>1, <2>2 DEF Tick, TypeOK, locals
<1>2. ASSUME NEW w \in Workers, Arrive(w) PROVE TypeOK'
  BY <1>2, ArriveType
<1>3. ASSUME NEW w \in Workers, SaveReport(w) PROVE TypeOK'
  <2>1. pc' \in [Workers -> PC]
    BY <1>3, GotoType DEF SaveReport, TypeOK
  <2>2. copy[w] \in Reports /\ now + Duration + BufferSec \in Nat
    BY DurationAssumption DEF TypeOK
  <2>3. report' \in [Experiments -> Reports]
    BY <1>3, <2>2, Documents DEF SaveReport, TypeOK
  <2>4. tgt[w] \in Experiments
    BY <1>3 DEF SaveReport, TargetKnown, Known, WritePC
  <2>5. excused' \subseteq Experiments
    BY <1>3, <2>4 DEF SaveReport, TypeOK
  <2> QED
    BY <1>3, <2>1, <2>3, <2>5 DEF SaveReport, TypeOK, locals
<1>4. ASSUME NEW w \in Workers, CreateExperiment(w) PROVE TypeOK'
  <2>1. pc' \in [Workers -> PC]
    BY <1>4, GotoType, Labels DEF CreateExperiment
  <2>2. now + Duration \in Nat
    BY DurationAssumption DEF TypeOK
  <2>3. exp' \in [Experiments -> ExpDocs]
    BY <1>4, <2>2, ExperimentDocuments DEF CreateExperiment, TypeOK
  <2> QED
    BY <1>4, <2>1, <2>3 DEF CreateExperiment, TypeOK, locals
<1>5. ASSUME NEW w \in Workers, StopSave(w) PROVE TypeOK'
  <2>1. pc' \in [Workers -> PC]
    BY <1>5, GotoType, Labels DEF StopSave
  <2>2. now + BufferSec \in Nat
    BY DurationAssumption DEF TypeOK
  <2>3. exp' \in [Experiments -> ExpDocs]
    BY <1>5, <2>2, ExperimentDocuments DEF StopSave, TypeOK
  <2> QED
    BY <1>5, <2>1, <2>3 DEF StopSave, TypeOK, locals
<1>6. ASSUME NEW w \in Workers, CreateReport(w) PROVE TypeOK'
  <2>1. pc' \in [Workers -> PC]
    BY <1>6, GotoType, Labels DEF CreateReport
  <2>2. clk[w] \in Nat /\ now + Duration + BufferSec \in Nat
    BY DurationAssumption DEF TypeOK
  <2>3. report' \in [Experiments -> Reports]
    BY <1>6, <2>2, Documents DEF CreateReport, TypeOK
  <2> QED
    BY <1>6, <2>1, <2>3 DEF CreateReport, TypeOK, locals
<1>7. ASSUME NEW w \in Workers, RecordCreated(w) PROVE TypeOK'
  <2>1. pc' \in [Workers -> PC]
    BY <1>7, GotoType, Labels DEF RecordCreated
  <2>2. gauge' \in [Experiments -> Int]
    BY <1>7 DEF RecordCreated, TypeOK, TargetKnown, Known, WritePC
  <2> QED
    BY <1>7, <2>1, <2>2 DEF RecordCreated, TypeOK, locals
<1>8. ASSUME NEW w \in Workers, SweepKeys(w) PROVE TypeOK'
  <2>1. pc' \in [Workers -> PC]
    BY <1>8, GotoType, Labels DEF SweepKeys
  <2>2. todo' \in [Workers -> SUBSET Experiments]
    BY <1>8 DEF SweepKeys, TypeOK, Set
  <2> QED
    BY <1>8, <2>1, <2>2 DEF SweepKeys, TypeOK
<1>9. ASSUME NEW w \in Workers, ListKeys(w) PROVE TypeOK'
  <2>1. pc' \in [Workers -> PC]
    BY <1>9, GotoType, Labels DEF ListKeys
  <2>2. todo' \in [Workers -> SUBSET Experiments]
    BY <1>9 DEF ListKeys, TypeOK, Set
  <2> QED
    BY <1>9, <2>1, <2>2 DEF ListKeys, TypeOK
<1>10. ASSUME NEW w \in Workers, SweepEnd(w) PROVE TypeOK'
  <2>1. matched[w] \in SUBSET Experiments /\ failed' \in [Workers -> BOOLEAN]
    BY <1>10 DEF SweepEnd, TypeOK
  <2> QED
    BY <1>10, <2>1, EndLoopType, Labels DEF SweepEnd
<1>11. ASSUME NEW w \in Workers, ListEnd(w) PROVE TypeOK'
  <2>1. matched[w] \in SUBSET Experiments /\ failed' \in [Workers -> BOOLEAN]
    BY <1>11 DEF ListEnd, TypeOK
  <2> QED
    BY <1>11, <2>1, EndLoopType, Labels DEF ListEnd
<1>12. ASSUME NEW w \in Workers, Reject(w) PROVE TypeOK'
  <2>1. matched[w] \in SUBSET Experiments /\ failed' \in [Workers -> BOOLEAN]
    BY <1>12 DEF Reject, TypeOK
  <2> QED
    BY <1>12, <2>1, EndLoopType, Labels DEF Reject
<1>13. ASSUME NEW w \in Workers, Admit(w) PROVE TypeOK'
  <2>1. matched[w] \in SUBSET Experiments /\ failed' \in [Workers -> BOOLEAN]
    BY <1>13 DEF Admit, TypeOK
  <2> QED
    BY <1>13, <2>1, EndLoopType, Labels DEF Admit
<1>14. ASSUME NEW w \in Workers, RespondEnd(w) PROVE TypeOK'
  <2>1. matched[w] \in SUBSET Experiments /\ failed' \in [Workers -> BOOLEAN]
    BY <1>14 DEF RespondEnd, TypeOK
  <2> QED
    BY <1>14, <2>1, EndLoopType, Labels DEF RespondEnd
<1>15. ASSUME NEW w \in Workers, StopEnd(w) PROVE TypeOK'
  <2>1. matched[w] \in SUBSET Experiments /\ failed' \in [Workers -> BOOLEAN]
    BY <1>15 DEF StopEnd, TypeOK
  <2> QED
    BY <1>15, <2>1, EndLoopType, Labels DEF StopEnd
<1>16. ASSUME NEW w \in Workers, Respond(w) PROVE TypeOK'
  <2>1. matched[w] \in SUBSET Experiments /\ failed' \in [Workers -> BOOLEAN]
    BY <1>16 DEF Respond, TypeOK, Set
  <2> QED
    BY <1>16, <2>1, EndLoopType, Labels DEF Respond
<1>17. ASSUME NEW w \in Workers, RecordRecovered(w) PROVE TypeOK'
  <2>1. CASE ~report[tgt[w]].live
    <3>1. pc' \in [Workers -> PC]
      BY <1>17, <2>1, GotoType, Labels DEF RecordRecovered
    <3> QED
      BY <1>17, <2>1, <3>1 DEF RecordRecovered, TypeOK
  <2>2. CASE report[tgt[w]].live /\ tgt[w] \in Experiments
    <3>1. Recovered(tgt[w]) \in Reports
      BY <2>2, Documents DEF Recovered, TypeOK
    <3>2. gauge' \in [Experiments -> Int] /\ excused' \subseteq Experiments
      BY <1>17, <2>2 DEF RecordRecovered, Settle, TypeOK
    <3>3. Hold(w, tgt[w], Recovered(tgt[w]), "stop")
      BY <1>17, <2>2 DEF RecordRecovered
    <3> QED
      BY <1>17, <2>2, <3>1, <3>2, <3>3, HoldType, Labels DEF RecordRecovered, TypeOK
  <2> QED
    BY <1>17, <2>1, <2>2 DEF TargetKnown, Known, WritePC, RecordRecovered
<1>18. ASSUME NEW w \in Workers, ShowExperiment(w) PROVE TypeOK'
  <2>1. pc' \in [Workers -> PC]
    BY <1>18, GotoType, Labels DEF ShowExperiment
  <2> QED
    BY <1>18, <2>1 DEF ShowExperiment, TypeOK, locals
<1>19. ASSUME NEW w \in Workers, ShowReport(w) PROVE TypeOK'
  <2>1. pc' \in [Workers -> PC]
    BY <1>19, GotoType, Labels DEF ShowReport
  <2>2. PICK e \in matched[w] : /\ copy' = Set(copy, w, report[e]) /\ tgt' = Set(tgt, w, e)
                                /\ ret' = Set(ret, w, "done")
    BY <1>19 DEF ShowReport
  <2>3. e \in Experiments
    BY <2>2 DEF TypeOK
  <2>4. /\ copy' \in [Workers -> Reports] /\ ret' \in [Workers -> PC]
        /\ tgt' \in [Workers -> Experiments \union {NoExperiment}]
    BY <2>2, <2>3, Labels DEF Set, TypeOK
  <2> QED
    BY <1>19, <2>1, <2>4 DEF ShowReport, TypeOK
<1>20. ASSUME NEW w \in Workers, ShowCheck(w) PROVE TypeOK'
  <2>1. pc' \in [Workers -> PC]
    BY <1>20, GotoType, Labels DEF ShowCheck
  <2>2. copy' \in [Workers -> Reports]
    <3>1. copy[w] \in Reports /\ [copy[w] EXCEPT !.recovered = TRUE] \in Reports
      BY Documents DEF TypeOK
    <3>2. \/ copy' = copy
          \/ copy' = [copy EXCEPT ![w] = [copy[w] EXCEPT !.recovered = TRUE]]
      BY <1>20 DEF ShowCheck
    <3> QED
      BY <3>1, <3>2 DEF TypeOK
  <2>3. excused' \subseteq Experiments
    BY <1>20 DEF TargetKnown, Known, WritePC, ShowCheck, TypeOK
  <2> QED
    BY <1>20, <2>1, <2>2, <2>3 DEF ShowCheck, TypeOK
<1>21. ASSUME NEW w \in Workers, NEW e \in Experiments, SweepGet(w, e) PROVE TypeOK'
  <2>1. todo' \in [Workers -> SUBSET Experiments]
    BY <1>21 DEF SweepGet, TypeOK, Set
  <2>2. CASE Due(w, e)
    <3>1. Recovered(e) \in Reports
      BY Documents DEF Recovered, TypeOK
    <3>2. gauge' \in [Experiments -> Int]
      BY <1>21, <2>2 DEF SweepGet, Settle, TypeOK
    <3> QED
      BY <1>21, <2>1, <2>2, <3>1, <3>2, HoldType, Labels DEF SweepGet, TypeOK
  <2>3. CASE ~Due(w, e)
    BY <1>21, <2>1, <2>3 DEF SweepGet, TypeOK
  <2> QED
    BY <2>2, <2>3
<1>22. ASSUME NEW w \in Workers, NEW e \in Experiments, ListGet(w, e) PROVE TypeOK'
  <2>1. todo' \in [Workers -> SUBSET Experiments]
    BY <1>22 DEF ListGet, TypeOK, Set
  <2>2. matched[w] \union {e} \in SUBSET Experiments
    BY DEF TypeOK
  <2>3. matched' \in [Workers -> SUBSET Experiments]
    BY <1>22, <2>2 DEF ListGet, TypeOK, Set
  <2> QED
    BY <1>22, <2>1, <2>3 DEF ListGet, TypeOK
<1>23. ASSUME NEW w \in Workers, NEW e \in Experiments, InjectDelay(w, e) PROVE TypeOK'
  BY <1>23, ObserveType DEF InjectDelay, TypeOK
<1>24. ASSUME NEW w \in Workers, NEW e \in Experiments, RecordFallback(w, e) PROVE TypeOK'
  <2>1. todo' \in [Workers -> SUBSET Experiments]
    BY <1>24 DEF RecordFallback, TypeOK, Set
  <2> QED
    BY <1>24, <2>1, ObserveType, Labels DEF RecordFallback, TypeOK
<1>25. ASSUME NEW w \in Workers, NEW e \in Experiments, RecordResponse(w, e) PROVE TypeOK'
  <2>1. todo' \in [Workers -> SUBSET Experiments]
    BY <1>25 DEF RecordResponse, TypeOK, Set
  <2> QED
    BY <1>25, <2>1, ObserveType, Labels DEF RecordResponse, TypeOK
<1>26. ASSUME NEW w \in Workers, NEW e \in Experiments, StopGet(w, e) PROVE TypeOK'
  <2>1. todo' \in [Workers -> SUBSET Experiments]
    BY <1>26 DEF StopGet, TypeOK, Set
  <2>2. pc' \in [Workers -> PC] /\ tgt' \in [Workers -> Experiments \union {NoExperiment}]
    BY <1>26, GotoType, Labels DEF StopGet, TypeOK, Set
  <2> QED
    BY <1>26, <2>1, <2>2 DEF StopGet, TypeOK
<1>27. ASSUME NEW w \in Workers, NEW e \in Experiments, InjectRaise(w, e) PROVE TypeOK'
  <2>1. failed' \in [Workers -> BOOLEAN]
    BY <1>27, Zenon DEF InjectRaise, TypeOK, Set
  <2> QED
    BY <1>27, <2>1, ObserveType, Labels DEF InjectRaise, TypeOK
<1>28. CASE UNCHANGED vars
  BY <1>28 DEF vars, locals, TypeOK
<1> QED
  BY <1>1, <1>2, <1>3, <1>4, <1>5, <1>6, <1>7, <1>8, <1>9, <1>10, <1>11, <1>12, <1>13, <1>14, <1>15, <1>16, <1>17, <1>18, <1>19, <1>20, <1>21, <1>22, <1>23, <1>24, <1>25, <1>26, <1>27, <1>28 DEF Next, Step

\* A call about to write always knows its experiment and where to go on.
LEMMA KnownStep == TypeOK /\ TargetKnown /\ [Next]_vars => TargetKnown'
<1> SUFFICES ASSUME TypeOK, TargetKnown, [Next]_vars PROVE TargetKnown'
  OBVIOUS
<1>1. ASSUME NEW w \in Workers, \A v \in Workers \ {w} : UNCHANGED <<pc[v], tgt[v], ret[v]>>, Known(w)'
      PROVE  TargetKnown'
  BY <1>1 DEF TargetKnown, Known
<1>2. CASE Tick
  BY <1>2 DEF Tick, TargetKnown, Known, locals
<1>3. ASSUME NEW w \in Workers, Arrive(w) PROVE TargetKnown'
  <2>1. /\ \A v \in Workers \ {w} : UNCHANGED <<pc[v], tgt[v], ret[v]>>
        /\ Known(w)'
    BY <1>3 DEF Arrive, BeginStopAll, BeginSweep, BeginCreate, BeginStop, Begin, Goto, Set,
                Known, WritePC, ReturnPC, TypeOK
  <2> QED
    BY <1>1, <2>1
<1>4. ASSUME NEW w \in Workers, SaveReport(w) PROVE TargetKnown'
  <2>1. \A v \in Workers \ {w} : UNCHANGED <<pc[v], tgt[v], ret[v]>>
    BY <1>4 DEF SaveReport, Goto, Set, TypeOK, locals
  <2>2. Known(w)'
    BY <1>4 DEF SaveReport, Goto, Set, TypeOK, locals, TargetKnown, Known, WritePC, ReturnPC
  <2> QED
    BY <1>1, <2>1, <2>2
<1>5. ASSUME NEW w \in Workers, CreateExperiment(w) PROVE TargetKnown'
  <2>1. \A v \in Workers \ {w} : UNCHANGED <<pc[v], tgt[v], ret[v]>>
    BY <1>5 DEF CreateExperiment, Goto, Set, TypeOK, locals
  <2>2. Known(w)'
    BY <1>5 DEF CreateExperiment, Goto, Set, TypeOK, locals, TargetKnown, Known, WritePC, ReturnPC
  <2> QED
    BY <1>1, <2>1, <2>2
<1>6. ASSUME NEW w \in Workers, CreateReport(w) PROVE TargetKnown'
  <2>1. \A v \in Workers \ {w} : UNCHANGED <<pc[v], tgt[v], ret[v]>>
    BY <1>6 DEF CreateReport, Goto, Set, TypeOK, locals
  <2>2. Known(w)'
    BY <1>6 DEF CreateReport, Goto, Set, TypeOK, locals, TargetKnown, Known, WritePC, ReturnPC
  <2> QED
    BY <1>1, <2>1, <2>2
<1>7. ASSUME NEW w \in Workers, RecordCreated(w) PROVE TargetKnown'
  <2>1. \A v \in Workers \ {w} : UNCHANGED <<pc[v], tgt[v], ret[v]>>
    BY <1>7 DEF RecordCreated, Goto, Set, TypeOK, locals
  <2>2. Known(w)'
    BY <1>7 DEF RecordCreated, Goto, Set, TypeOK, locals, TargetKnown, Known, WritePC, ReturnPC
  <2> QED
    BY <1>1, <2>1, <2>2
<1>8. ASSUME NEW w \in Workers, SweepKeys(w) PROVE TargetKnown'
  <2>1. \A v \in Workers \ {w} : UNCHANGED <<pc[v], tgt[v], ret[v]>>
    BY <1>8 DEF SweepKeys, Goto, Set, TypeOK, locals
  <2>2. Known(w)'
    BY <1>8 DEF SweepKeys, Goto, Set, TypeOK, locals, TargetKnown, Known, WritePC, ReturnPC
  <2> QED
    BY <1>1, <2>1, <2>2
<1>9. ASSUME NEW w \in Workers, SweepEnd(w) PROVE TargetKnown'
  <2>1. \A v \in Workers \ {w} : UNCHANGED <<pc[v], tgt[v], ret[v]>>
    BY <1>9 DEF SweepEnd, EndLoop, Goto, Set, TypeOK, locals
  <2>2. Known(w)'
    BY <1>9 DEF SweepEnd, EndLoop, Goto, Set, TypeOK, locals, TargetKnown, Known, WritePC, ReturnPC
  <2> QED
    BY <1>1, <2>1, <2>2
<1>10. ASSUME NEW w \in Workers, ListKeys(w) PROVE TargetKnown'
  <2>1. \A v \in Workers \ {w} : UNCHANGED <<pc[v], tgt[v], ret[v]>>
    BY <1>10 DEF ListKeys, Goto, Set, TypeOK, locals
  <2>2. Known(w)'
    BY <1>10 DEF ListKeys, Goto, Set, TypeOK, locals, TargetKnown, Known, WritePC, ReturnPC
  <2> QED
    BY <1>1, <2>1, <2>2
<1>11. ASSUME NEW w \in Workers, ListEnd(w) PROVE TargetKnown'
  <2>1. \A v \in Workers \ {w} : UNCHANGED <<pc[v], tgt[v], ret[v]>>
    BY <1>11 DEF ListEnd, EndLoop, Goto, Set, TypeOK, locals
  <2>2. Known(w)'
    BY <1>11 DEF ListEnd, EndLoop, Goto, Set, TypeOK, locals, TargetKnown, Known, WritePC, ReturnPC
  <2> QED
    BY <1>1, <2>1, <2>2
<1>12. ASSUME NEW w \in Workers, Reject(w) PROVE TargetKnown'
  <2>1. \A v \in Workers \ {w} : UNCHANGED <<pc[v], tgt[v], ret[v]>>
    BY <1>12 DEF Reject, EndLoop, Goto, Set, TypeOK, locals
  <2>2. Known(w)'
    BY <1>12 DEF Reject, EndLoop, Goto, Set, TypeOK, locals, TargetKnown, Known, WritePC, ReturnPC
  <2> QED
    BY <1>1, <2>1, <2>2
<1>13. ASSUME NEW w \in Workers, Admit(w) PROVE TargetKnown'
  <2>1. \A v \in Workers \ {w} : UNCHANGED <<pc[v], tgt[v], ret[v]>>
    BY <1>13 DEF Admit, EndLoop, Goto, Set, TypeOK, locals
  <2>2. Known(w)'
    BY <1>13 DEF Admit, EndLoop, Goto, Set, TypeOK, locals, TargetKnown, Known, WritePC, ReturnPC
  <2> QED
    BY <1>1, <2>1, <2>2
<1>14. ASSUME NEW w \in Workers, Respond(w) PROVE TargetKnown'
  <2>1. \A v \in Workers \ {w} : UNCHANGED <<pc[v], tgt[v], ret[v]>>
    BY <1>14 DEF Respond, EndLoop, Goto, Set, TypeOK, locals
  <2>2. Known(w)'
    BY <1>14 DEF Respond, EndLoop, Goto, Set, TypeOK, locals, TargetKnown, Known, WritePC, ReturnPC
  <2> QED
    BY <1>1, <2>1, <2>2
<1>15. ASSUME NEW w \in Workers, RespondEnd(w) PROVE TargetKnown'
  <2>1. \A v \in Workers \ {w} : UNCHANGED <<pc[v], tgt[v], ret[v]>>
    BY <1>15 DEF RespondEnd, EndLoop, Goto, Set, TypeOK, locals
  <2>2. Known(w)'
    BY <1>15 DEF RespondEnd, EndLoop, Goto, Set, TypeOK, locals, TargetKnown, Known, WritePC, ReturnPC
  <2> QED
    BY <1>1, <2>1, <2>2
<1>16. ASSUME NEW w \in Workers, StopSave(w) PROVE TargetKnown'
  <2>1. \A v \in Workers \ {w} : UNCHANGED <<pc[v], tgt[v], ret[v]>>
    BY <1>16 DEF StopSave, Goto, Set, TypeOK, locals
  <2>2. Known(w)'
    BY <1>16 DEF StopSave, Goto, Set, TypeOK, locals, TargetKnown, Known, WritePC, ReturnPC
  <2> QED
    BY <1>1, <2>1, <2>2
<1>17. ASSUME NEW w \in Workers, RecordRecovered(w) PROVE TargetKnown'
  <2>1. \A v \in Workers \ {w} : UNCHANGED <<pc[v], tgt[v], ret[v]>>
    BY <1>17 DEF RecordRecovered, Hold, Goto, Set, TypeOK, locals
  <2>2. Known(w)'
    BY <1>17 DEF RecordRecovered, Hold, Goto, Set, TypeOK, locals, TargetKnown, Known, WritePC, ReturnPC
  <2> QED
    BY <1>1, <2>1, <2>2
<1>18. ASSUME NEW w \in Workers, StopEnd(w) PROVE TargetKnown'
  <2>1. \A v \in Workers \ {w} : UNCHANGED <<pc[v], tgt[v], ret[v]>>
    BY <1>18 DEF StopEnd, EndLoop, Goto, Set, TypeOK, locals
  <2>2. Known(w)'
    BY <1>18 DEF StopEnd, EndLoop, Goto, Set, TypeOK, locals, TargetKnown, Known, WritePC, ReturnPC
  <2> QED
    BY <1>1, <2>1, <2>2
<1>19. ASSUME NEW w \in Workers, ShowExperiment(w) PROVE TargetKnown'
  <2>1. \A v \in Workers \ {w} : UNCHANGED <<pc[v], tgt[v], ret[v]>>
    BY <1>19 DEF ShowExperiment, Goto, Set, TypeOK, locals
  <2>2. Known(w)'
    BY <1>19 DEF ShowExperiment, Goto, Set, TypeOK, locals, TargetKnown, Known, WritePC, ReturnPC
  <2> QED
    BY <1>1, <2>1, <2>2
<1>20. ASSUME NEW w \in Workers, ShowReport(w) PROVE TargetKnown'
  <2>1. \A v \in Workers \ {w} : UNCHANGED <<pc[v], tgt[v], ret[v]>>
    BY <1>20 DEF ShowReport, Goto, Set, TypeOK, locals
  <2>2. Known(w)'
    BY <1>20 DEF ShowReport, Goto, Set, TypeOK, locals, TargetKnown, Known, WritePC, ReturnPC
  <2> QED
    BY <1>1, <2>1, <2>2
<1>21. ASSUME NEW w \in Workers, ShowCheck(w) PROVE TargetKnown'
  <2>1. \A v \in Workers \ {w} : UNCHANGED <<pc[v], tgt[v], ret[v]>>
    BY <1>21 DEF ShowCheck, Goto, Set, TypeOK, locals
  <2>2. Known(w)'
    BY <1>21 DEF ShowCheck, Goto, Set, TypeOK, locals, TargetKnown, Known, WritePC, ReturnPC
  <2> QED
    BY <1>1, <2>1, <2>2
<1>22. ASSUME NEW w \in Workers, NEW e \in Experiments, SweepGet(w, e) PROVE TargetKnown'
  <2>1. \A v \in Workers \ {w} : UNCHANGED <<pc[v], tgt[v], ret[v]>>
    BY <1>22 DEF SweepGet, Hold, Goto, Set, TypeOK, locals
  <2>2. Known(w)'
    BY <1>22 DEF SweepGet, Hold, Goto, Set, TypeOK, locals, TargetKnown, Known, WritePC, ReturnPC
  <2> QED
    BY <1>1, <2>1, <2>2
<1>23. ASSUME NEW w \in Workers, NEW e \in Experiments, ListGet(w, e) PROVE TargetKnown'
  <2>1. \A v \in Workers \ {w} : UNCHANGED <<pc[v], tgt[v], ret[v]>>
    BY <1>23 DEF ListGet, Goto, Set, TypeOK, locals
  <2>2. Known(w)'
    BY <1>23 DEF ListGet, Goto, Set, TypeOK, locals, TargetKnown, Known, WritePC, ReturnPC
  <2> QED
    BY <1>1, <2>1, <2>2
<1>24. ASSUME NEW w \in Workers, NEW e \in Experiments, InjectDelay(w, e) PROVE TargetKnown'
  <2>1. \A v \in Workers \ {w} : UNCHANGED <<pc[v], tgt[v], ret[v]>>
    BY <1>24 DEF InjectDelay, Observe, Hold, Goto, Set, TypeOK, locals
  <2>2. Known(w)'
    BY <1>24 DEF InjectDelay, Observe, Hold, Goto, Set, TypeOK, locals, TargetKnown, Known, WritePC, ReturnPC
  <2> QED
    BY <1>1, <2>1, <2>2
<1>25. ASSUME NEW w \in Workers, NEW e \in Experiments, RecordFallback(w, e) PROVE TargetKnown'
  <2>1. \A v \in Workers \ {w} : UNCHANGED <<pc[v], tgt[v], ret[v]>>
    BY <1>25 DEF RecordFallback, Observe, Hold, Goto, Set, TypeOK, locals
  <2>2. Known(w)'
    BY <1>25 DEF RecordFallback, Observe, Hold, Goto, Set, TypeOK, locals, TargetKnown, Known, WritePC, ReturnPC
  <2> QED
    BY <1>1, <2>1, <2>2
<1>26. ASSUME NEW w \in Workers, NEW e \in Experiments, RecordResponse(w, e) PROVE TargetKnown'
  <2>1. \A v \in Workers \ {w} : UNCHANGED <<pc[v], tgt[v], ret[v]>>
    BY <1>26 DEF RecordResponse, Observe, Hold, Goto, Set, TypeOK, locals
  <2>2. Known(w)'
    BY <1>26 DEF RecordResponse, Observe, Hold, Goto, Set, TypeOK, locals, TargetKnown, Known, WritePC, ReturnPC
  <2> QED
    BY <1>1, <2>1, <2>2
<1>27. ASSUME NEW w \in Workers, NEW e \in Experiments, StopGet(w, e) PROVE TargetKnown'
  <2>1. \A v \in Workers \ {w} : UNCHANGED <<pc[v], tgt[v], ret[v]>>
    BY <1>27 DEF StopGet, Goto, Set, TypeOK, locals
  <2>2. Known(w)'
    BY <1>27 DEF StopGet, Goto, Set, TypeOK, locals, TargetKnown, Known, WritePC, ReturnPC
  <2> QED
    BY <1>1, <2>1, <2>2
<1>28. ASSUME NEW w \in Workers, NEW e \in Experiments, InjectRaise(w, e) PROVE TargetKnown'
  <2>1. \A v \in Workers \ {w} : UNCHANGED <<pc[v], tgt[v], ret[v]>>
    BY <1>28 DEF InjectRaise, Observe, Hold, Goto, Set, TypeOK, locals
  <2>2. Known(w)'
    BY <1>28 DEF InjectRaise, Observe, Hold, Goto, Set, TypeOK, locals, TargetKnown, Known, WritePC, ReturnPC
  <2> QED
    BY <1>1, <2>1, <2>2
<1>29. CASE UNCHANGED vars
  BY <1>29 DEF vars, locals, TargetKnown, Known
<1> QED
  BY <1>2, <1>3, <1>4, <1>5, <1>6, <1>7, <1>8, <1>9, <1>10, <1>11, <1>12, <1>13, <1>14, <1>15, <1>16, <1>17, <1>18, <1>19, <1>20, <1>21, <1>22, <1>23, <1>24, <1>25, <1>26, <1>27, <1>28, <1>29 DEF Next, Step

\* Observations only grow.
Grows == \A e \in Experiments, c \in Counters : seen[e][c] <= seen'[e][c]

\* Recording an observation leaves the others as they are.
LEMMA ObserveGrows ==
  ASSUME TypeOK, NEW w \in Workers, NEW e \in Experiments, NEW what, NEW after,
         Observe(w, e, what, after)
  PROVE  /\ Grows
         /\ \A c \in Counters : seen'[e][c] = IF c \in what THEN seen[e][c] + 1 ELSE seen[e][c]
<1>1. \A x \in Experiments : /\ seen[x] \in [Counters \union {"created"} -> Nat]
                             /\ DOMAIN seen[x] = Counters \union {"created"}
  BY DEF TypeOK
<1>2. seen' = [seen EXCEPT ![e] =
         [c \in Counters \union {"created"} |-> IF c \in what THEN seen[e][c] + 1 ELSE seen[e][c]]]
  BY <1>1 DEF Observe
<1>3. \A x \in Experiments \ {e} : seen'[x] = seen[x]
  BY <1>2 DEF TypeOK
<1>4. \A c \in Counters : seen'[e][c] = IF c \in what THEN seen[e][c] + 1 ELSE seen[e][c]
  BY <1>2 DEF TypeOK
<1>5. \A x \in Experiments, c \in Counters : seen[x][c] \in Nat
  BY <1>1
<1> QED
  BY <1>3, <1>4, <1>5 DEF Grows

\* A sound document stays sound while the observations grow.
LEMMA SoundGrows ==
  ASSUME TypeOK, TypeOK', Grows, NEW d \in Reports, NEW e \in Experiments, SoundFor(d, e)
  PROVE  /\ \A c \in Counters : d.counts[c] <= seen'[e][c]
         /\ d.counts["errors"] <= d.counts["requests"]
<1>1. \A c \in Counters : d.counts[c] \in Nat /\ seen[e][c] \in Nat /\ seen'[e][c] \in Nat
  BY DEF Reports, TypeOK
<1> QED
  BY <1>1 DEF SoundFor, Grows

\* Reports that are kept and copies that are kept, or dropped, stay sound.
LEMMA KeptReports ==
  ASSUME IInv, TypeOK', Grows, UNCHANGED report PROVE ReportSound'
<1>1. \A e \in Experiments : report[e] \in Reports /\ SoundFor(report[e], e)
  BY DEF IInv, TypeOK, ReportSound
<1> QED
  BY <1>1, SoundGrows DEF ReportSound, SoundFor, IInv

\* Copies that a step leaves alone stay sound.
LEMMA KeptCopies ==
  ASSUME IInv, TypeOK', Grows, NEW w \in Workers,
         \A v \in Workers \ {w} : UNCHANGED <<pc[v], tgt[v], copy[v]>>,
         pc'[w] \in {"save", "show_check"} => SoundFor(copy[w], tgt[w])'
  PROVE  CopySound'
<1>1. ASSUME NEW v \in Workers \ {w}, pc'[v] \in {"save", "show_check"}
      PROVE  SoundFor(copy[v], tgt[v])'
  <2>1. /\ pc[v] \in {"save", "show_check"} /\ tgt[v] \in Experiments /\ copy[v] \in Reports
        /\ SoundFor(copy[v], tgt[v])
    BY <1>1 DEF IInv, TypeOK, CopySound, TargetKnown, Known, WritePC
  <2>2. UNCHANGED <<tgt[v], copy[v]>>
    BY <1>1
  <2> QED
    BY <2>1, <2>2, SoundGrows DEF SoundFor, IInv
<1> QED
  BY <1>1 DEF CopySound

\* A step that reads or writes no report document.
LEMMA QuietStep ==
  ASSUME IInv, TypeOK', Grows, NEW w \in Workers, UNCHANGED <<report, copy>>,
         \A v \in Workers \ {w} : UNCHANGED <<pc[v], tgt[v]>>,
         pc'[w] \notin {"save", "show_check"}
  PROVE  ReportSound' /\ CopySound'
BY KeptReports, KeptCopies

\* A step that reads the report of e for an observation.
LEMMA ObserveSound ==
  ASSUME IInv, TypeOK', NEW w \in Workers, NEW e \in Experiments, NEW what, NEW after \in PC,
         after \notin {"save", "show_check"}, Observe(w, e, what, after), UNCHANGED report,
         "errors" \in what => "requests" \in what
  PROVE  ReportSound' /\ CopySound'
<1>1. Grows
  BY ObserveGrows DEF IInv
<1>2. \A v \in Workers \ {w} : UNCHANGED <<pc[v], tgt[v], copy[v]>>
  BY DEF Observe, Hold, Goto, Set, IInv, TypeOK
<1>3. CASE report[e].live
  <2>1. /\ report[e] \in Reports /\ SoundFor(report[e], e)
        /\ \A c \in Counters : report[e].counts[c] \in Nat /\ seen[e][c] \in Nat
    BY DEF IInv, TypeOK, ReportSound, Reports
  <2>2. \A c \in Counters : Bump(e, what).counts[c] =
           IF c \in what THEN report[e].counts[c] + 1 ELSE report[e].counts[c]
    BY <2>1 DEF Bump, Reports
  <2>3. \A c \in Counters : seen'[e][c] = IF c \in what THEN seen[e][c] + 1 ELSE seen[e][c]
    BY ObserveGrows DEF IInv
  <2>4. copy'[w] = Bump(e, what) /\ tgt'[w] = e
    BY <1>3 DEF Observe, Hold, Set, IInv, TypeOK
  <2>5. "errors" \in Counters /\ "requests" \in Counters
    BY DEF Counters
  <2>6. \A c \in Counters : Bump(e, what).counts[c] <= seen'[e][c]
    BY <2>1, <2>2, <2>3 DEF SoundFor
  <2>7. Bump(e, what).counts["errors"] <= Bump(e, what).counts["requests"]
    BY <2>1, <2>2, <2>5 DEF SoundFor
  <2>8. SoundFor(copy[w], tgt[w])'
    BY <2>4, <2>6, <2>7 DEF SoundFor
  <2> QED
    BY <1>1, <1>2, <2>8, KeptReports, KeptCopies
<1>4. CASE ~report[e].live
  <2>1. pc'[w] \notin {"save", "show_check"}
    BY <1>4 DEF Observe, Goto, IInv, TypeOK
  <2> QED
    BY <1>1, <1>2, <2>1, KeptReports, KeptCopies
<1> QED
  BY <1>3, <1>4

\* A step that holds the report of e, marked recovered.
LEMMA RecoverSound ==
  ASSUME IInv, TypeOK', NEW w \in Workers, NEW e \in Experiments, NEW after,
         Hold(w, e, Recovered(e), after), UNCHANGED <<report, seen>>
  PROVE  ReportSound' /\ CopySound'
<1>1. Grows
  BY DEF Grows, IInv, TypeOK
<1>2. \A v \in Workers \ {w} : UNCHANGED <<pc[v], tgt[v], copy[v]>>
  BY DEF Hold, Goto, Set, IInv, TypeOK
<1>3. copy'[w] = Recovered(e) /\ tgt'[w] = e
  BY DEF Hold, Set, IInv, TypeOK
<1>4. Recovered(e).counts = report[e].counts /\ SoundFor(report[e], e)
  BY DEF Recovered, IInv, TypeOK, Reports, ReportSound
<1>5. SoundFor(copy[w], tgt[w])'
  BY <1>3, <1>4 DEF SoundFor
<1> QED
  BY <1>1, <1>2, <1>5, KeptReports, KeptCopies

\* Every step keeps reports and copies sound.
LEMMA SoundStep == IInv /\ TypeOK' /\ [Next]_vars => ReportSound' /\ CopySound'
<1> SUFFICES ASSUME IInv, TypeOK', [Next]_vars PROVE ReportSound' /\ CopySound'
  OBVIOUS
<1>0. TypeOK /\ TargetKnown /\ ReportSound /\ CopySound
  BY DEF IInv
<1>1. UNCHANGED seen => Grows
  BY <1>0 DEF Grows, TypeOK
<1>3. \A e \in Experiments : SoundFor(NoReport, e)'
  BY DEF SoundFor, NoReport, TypeOK, Counters
<1>4. CASE Tick
  <2>1. \A e \in Experiments : report'[e] = report[e] \/ report'[e] = NoReport
    BY <1>4 DEF Tick
  <2>2. UNCHANGED <<seen, pc, tgt, copy>>
    BY <1>4 DEF Tick, locals
  <2> QED
    BY <1>0, <1>3, <2>1, <2>2 DEF ReportSound, CopySound, SoundFor
<1>5. ASSUME NEW w \in Workers, Arrive(w) PROVE ReportSound' /\ CopySound'
  <2>1. Grows
    <3>1. ASSUME NEW e \in Experiments, BeginCreate(w, e) PROVE Grows
      <4>1. seen' = [seen EXCEPT ![e]["created"] = 1]
        BY <3>1 DEF BeginCreate
      <4>2. \A x \in Experiments, c \in Counters : seen'[x][c] = seen[x][c]
        BY <1>0, <4>1 DEF TypeOK, Counters
      <4>3. \A x \in Experiments, c \in Counters : seen[x][c] \in Nat
        BY <1>0 DEF TypeOK
      <4> QED
        BY <4>2, <4>3 DEF Grows
    <3>2. UNCHANGED seen \/ \E e \in Experiments : BeginCreate(w, e)
      BY <1>5 DEF Arrive, BeginStopAll, BeginSweep, BeginStop
    <3> QED
      BY <1>1, <3>1, <3>2
  <2>2. /\ UNCHANGED <<report, copy>>
        /\ \A v \in Workers \ {w} : UNCHANGED <<pc[v], tgt[v]>>
        /\ pc'[w] \notin {"save", "show_check"}
    BY <1>0, <1>5 DEF Arrive, BeginStopAll, BeginSweep, BeginCreate, BeginStop, Begin, Goto, Set, TypeOK
  <2> QED
    BY <2>1, <2>2, QuietStep
<1>6. ASSUME NEW w \in Workers, CreateExperiment(w) PROVE ReportSound' /\ CopySound'
  <2>1. /\ UNCHANGED <<report, copy, seen>>
        /\ \A v \in Workers \ {w} : UNCHANGED <<pc[v], tgt[v]>>
        /\ pc'[w] \notin {"save", "show_check"}
    BY <1>0, <1>6 DEF CreateExperiment, Goto, Set, TypeOK, locals
  <2> QED
    BY <1>1, <2>1, QuietStep
<1>7. ASSUME NEW w \in Workers, RecordCreated(w) PROVE ReportSound' /\ CopySound'
  <2>1. /\ UNCHANGED <<report, copy, seen>>
        /\ \A v \in Workers \ {w} : UNCHANGED <<pc[v], tgt[v]>>
        /\ pc'[w] \notin {"save", "show_check"}
    BY <1>0, <1>7 DEF RecordCreated, Goto, Set, TypeOK, locals
  <2> QED
    BY <1>1, <2>1, QuietStep
<1>8. ASSUME NEW w \in Workers, SweepKeys(w) PROVE ReportSound' /\ CopySound'
  <2>1. /\ UNCHANGED <<report, copy, seen>>
        /\ \A v \in Workers \ {w} : UNCHANGED <<pc[v], tgt[v]>>
        /\ pc'[w] \notin {"save", "show_check"}
    BY <1>0, <1>8 DEF SweepKeys, Goto, Set, TypeOK, locals
  <2> QED
    BY <1>1, <2>1, QuietStep
<1>9. ASSUME NEW w \in Workers, SweepEnd(w) PROVE ReportSound' /\ CopySound'
  <2>1. /\ UNCHANGED <<report, copy, seen>>
        /\ \A v \in Workers \ {w} : UNCHANGED <<pc[v], tgt[v]>>
        /\ pc'[w] \notin {"save", "show_check"}
    BY <1>0, <1>9 DEF SweepEnd, EndLoop, Goto, Set, TypeOK, locals
  <2> QED
    BY <1>1, <2>1, QuietStep
<1>10. ASSUME NEW w \in Workers, ListKeys(w) PROVE ReportSound' /\ CopySound'
  <2>1. /\ UNCHANGED <<report, copy, seen>>
        /\ \A v \in Workers \ {w} : UNCHANGED <<pc[v], tgt[v]>>
        /\ pc'[w] \notin {"save", "show_check"}
    BY <1>0, <1>10 DEF ListKeys, Goto, Set, TypeOK, locals
  <2> QED
    BY <1>1, <2>1, QuietStep
<1>11. ASSUME NEW w \in Workers, ListEnd(w) PROVE ReportSound' /\ CopySound'
  <2>1. /\ UNCHANGED <<report, copy, seen>>
        /\ \A v \in Workers \ {w} : UNCHANGED <<pc[v], tgt[v]>>
        /\ pc'[w] \notin {"save", "show_check"}
    BY <1>0, <1>11 DEF ListEnd, EndLoop, Goto, Set, TypeOK, locals
  <2> QED
    BY <1>1, <2>1, QuietStep
<1>12. ASSUME NEW w \in Workers, Reject(w) PROVE ReportSound' /\ CopySound'
  <2>1. /\ UNCHANGED <<report, copy, seen>>
        /\ \A v \in Workers \ {w} : UNCHANGED <<pc[v], tgt[v]>>
        /\ pc'[w] \notin {"save", "show_check"}
    BY <1>0, <1>12 DEF Reject, EndLoop, Goto, Set, TypeOK, locals
  <2> QED
    BY <1>1, <2>1, QuietStep
<1>13. ASSUME NEW w \in Workers, Admit(w) PROVE ReportSound' /\ CopySound'
  <2>1. /\ UNCHANGED <<report, copy, seen>>
        /\ \A v \in Workers \ {w} : UNCHANGED <<pc[v], tgt[v]>>
        /\ pc'[w] \notin {"save", "show_check"}
    BY <1>0, <1>13 DEF Admit, EndLoop, Goto, Set, TypeOK, locals
  <2> QED
    BY <1>1, <2>1, QuietStep
<1>14. ASSUME NEW w \in Workers, Respond(w) PROVE ReportSound' /\ CopySound'
  <2>1. /\ UNCHANGED <<report, copy, seen>>
        /\ \A v \in Workers \ {w} : UNCHANGED <<pc[v], tgt[v]>>
        /\ pc'[w] \notin {"save", "show_check"}
    BY <1>0, <1>14 DEF Respond, EndLoop, Goto, Set, TypeOK, locals
  <2> QED
    BY <1>1, <2>1, QuietStep
<1>15. ASSUME NEW w \in Workers, RespondEnd(w) PROVE ReportSound' /\ CopySound'
  <2>1. /\ UNCHANGED <<report, copy, seen>>
        /\ \A v \in Workers \ {w} : UNCHANGED <<pc[v], tgt[v]>>
        /\ pc'[w] \notin {"save", "show_check"}
    BY <1>0, <1>15 DEF RespondEnd, EndLoop, Goto, Set, TypeOK, locals
  <2> QED
    BY <1>1, <2>1, QuietStep
<1>16. ASSUME NEW w \in Workers, StopSave(w) PROVE ReportSound' /\ CopySound'
  <2>1. /\ UNCHANGED <<report, copy, seen>>
        /\ \A v \in Workers \ {w} : UNCHANGED <<pc[v], tgt[v]>>
        /\ pc'[w] \notin {"save", "show_check"}
    BY <1>0, <1>16 DEF StopSave, Goto, Set, TypeOK, locals
  <2> QED
    BY <1>1, <2>1, QuietStep
<1>17. ASSUME NEW w \in Workers, StopEnd(w) PROVE ReportSound' /\ CopySound'
  <2>1. /\ UNCHANGED <<report, copy, seen>>
        /\ \A v \in Workers \ {w} : UNCHANGED <<pc[v], tgt[v]>>
        /\ pc'[w] \notin {"save", "show_check"}
    BY <1>0, <1>17 DEF StopEnd, EndLoop, Goto, Set, TypeOK, locals
  <2> QED
    BY <1>1, <2>1, QuietStep
<1>18. ASSUME NEW w \in Workers, ShowExperiment(w) PROVE ReportSound' /\ CopySound'
  <2>1. /\ UNCHANGED <<report, copy, seen>>
        /\ \A v \in Workers \ {w} : UNCHANGED <<pc[v], tgt[v]>>
        /\ pc'[w] \notin {"save", "show_check"}
    BY <1>0, <1>18 DEF ShowExperiment, Goto, Set, TypeOK, locals
  <2> QED
    BY <1>1, <2>1, QuietStep
<1>19. ASSUME NEW w \in Workers, NEW e \in Experiments, ListGet(w, e) PROVE ReportSound' /\ CopySound'
  <2>1. /\ UNCHANGED <<report, copy, seen>>
        /\ \A v \in Workers \ {w} : UNCHANGED <<pc[v], tgt[v]>>
        /\ pc'[w] \notin {"save", "show_check"}
    BY <1>0, <1>19 DEF ListGet, Goto, Set, TypeOK, locals
  <2> QED
    BY <1>1, <2>1, QuietStep
<1>20. ASSUME NEW w \in Workers, NEW e \in Experiments, StopGet(w, e) PROVE ReportSound' /\ CopySound'
  <2>1. /\ UNCHANGED <<report, copy, seen>>
        /\ \A v \in Workers \ {w} : UNCHANGED <<pc[v], tgt[v]>>
        /\ pc'[w] \notin {"save", "show_check"}
    BY <1>0, <1>20 DEF StopGet, Goto, Set, TypeOK, locals
  <2> QED
    BY <1>1, <2>1, QuietStep
<1>21. ASSUME NEW w \in Workers, SaveReport(w) PROVE ReportSound' /\ CopySound'
  <2>1. /\ tgt[w] \in Experiments /\ copy[w] \in Reports /\ SoundFor(copy[w], tgt[w])
        /\ ret[w] \in ReturnPC
    BY <1>0, <1>21 DEF SaveReport, TargetKnown, Known, WritePC, CopySound, TypeOK
  <2>2. /\ report'[tgt[w]].counts = copy[w].counts
        /\ \A e \in Experiments \ {tgt[w]} : report'[e] = report[e]
    BY <1>0, <1>21, <2>1 DEF SaveReport, TypeOK, Reports
  <2>3. UNCHANGED <<seen, tgt, copy>> /\ pc' = [pc EXCEPT ![w] = ret[w]]
    BY <1>21 DEF SaveReport, locals, Goto
  <2>4. ReportSound'
    BY <1>0, <2>1, <2>2, <2>3 DEF ReportSound, SoundFor
  <2>5. pc'[w] \notin {"save", "show_check"} /\ \A v \in Workers \ {w} : UNCHANGED pc[v]
    BY <1>0, <2>1, <2>3 DEF ReturnPC, TypeOK
  <2> QED
    BY <1>1, <2>3, <2>4, <2>5, KeptCopies
<1>22. ASSUME NEW w \in Workers, CreateReport(w) PROVE ReportSound' /\ CopySound'
  <2>1. \A e \in Experiments : report'[e] = report[e] \/ report'[e].counts = NoReport.counts
    BY <1>0, <1>22 DEF CreateReport, TypeOK, NoReport
  <2>2. UNCHANGED <<seen, tgt, copy>> /\ pc' = [pc EXCEPT ![w] = "create_count"]
    BY <1>22 DEF CreateReport, locals, Goto
  <2>3. ReportSound'
    BY <1>0, <1>3, <2>1, <2>2 DEF ReportSound, SoundFor
  <2>4. pc'[w] \notin {"save", "show_check"} /\ \A v \in Workers \ {w} : UNCHANGED pc[v]
    BY <1>0, <2>2 DEF TypeOK
  <2> QED
    BY <1>1, <2>2, <2>3, <2>4, KeptCopies
<1>23. ASSUME NEW w \in Workers, RecordRecovered(w) PROVE ReportSound' /\ CopySound'
  <2>1. tgt[w] \in Experiments
    BY <1>0, <1>23 DEF RecordRecovered, TargetKnown, Known, WritePC
  <2>2. CASE report[tgt[w]].live
    BY <1>23, <2>1, <2>2, RecoverSound DEF RecordRecovered
  <2>3. CASE ~report[tgt[w]].live
    <3>1. /\ UNCHANGED <<report, copy, seen>>
          /\ \A v \in Workers \ {w} : UNCHANGED <<pc[v], tgt[v]>>
          /\ pc'[w] \notin {"save", "show_check"}
      BY <1>0, <1>23, <2>3 DEF RecordRecovered, Goto, TypeOK
    <3> QED
      BY <1>1, <3>1, QuietStep
  <2> QED
    BY <2>2, <2>3
<1>24. ASSUME NEW w \in Workers, ShowReport(w) PROVE ReportSound' /\ CopySound'
  <2>1. PICK e \in matched[w] : copy' = Set(copy, w, report[e]) /\ tgt' = Set(tgt, w, e)
    BY <1>24 DEF ShowReport
  <2>2. e \in Experiments
    BY <1>0, <2>1 DEF TypeOK
  <2>3. /\ copy'[w] = report[e] /\ tgt'[w] = e /\ UNCHANGED <<seen, report>>
        /\ \A v \in Workers \ {w} : UNCHANGED <<pc[v], tgt[v], copy[v]>>
    BY <1>0, <1>24, <2>1 DEF ShowReport, Goto, Set, TypeOK
  <2>4. SoundFor(copy[w], tgt[w])'
    BY <1>0, <2>2, <2>3 DEF ReportSound, SoundFor
  <2> QED
    BY <1>1, <2>3, <2>4, KeptReports, KeptCopies
<1>25. ASSUME NEW w \in Workers, ShowCheck(w) PROVE ReportSound' /\ CopySound'
  <2>1. /\ UNCHANGED <<report, seen, tgt>>
        /\ \A v \in Workers \ {w} : UNCHANGED <<pc[v], copy[v]>>
        /\ copy'[w].counts = copy[w].counts
    BY <1>0, <1>25 DEF ShowCheck, Goto, TypeOK, Reports
  <2>2. SoundFor(copy[w], tgt[w])
    BY <1>0, <1>25 DEF ShowCheck, CopySound
  <2>3. SoundFor(copy[w], tgt[w])'
    BY <2>1, <2>2 DEF SoundFor
  <2> QED
    BY <1>1, <2>1, <2>3, KeptReports, KeptCopies
<1>26. ASSUME NEW w \in Workers, NEW e \in Experiments, SweepGet(w, e) PROVE ReportSound' /\ CopySound'
  <2>1. CASE Due(w, e)
    BY <1>26, <2>1, RecoverSound DEF SweepGet
  <2>2. CASE ~Due(w, e)
    <3>1. UNCHANGED <<report, copy, seen, pc, tgt>> /\ pc[w] = "sweep"
      BY <1>26, <2>2 DEF SweepGet
    <3> QED
      BY <1>1, <3>1, QuietStep
  <2> QED
    BY <2>1, <2>2
<1>27. ASSUME NEW w \in Workers, NEW e \in Experiments, InjectDelay(w, e) PROVE ReportSound' /\ CopySound'
  <2>1. pc[w] \in PC /\ pc[w] \notin {"save", "show_check"} /\ UNCHANGED report
    BY <1>0, <1>27 DEF InjectDelay, TypeOK
  <2> QED
    BY <1>27, <2>1, ObserveSound DEF InjectDelay
<1>28. ASSUME NEW w \in Workers, NEW e \in Experiments, RecordFallback(w, e) PROVE ReportSound' /\ CopySound'
  BY <1>28, ObserveSound, Labels DEF RecordFallback
<1>29. ASSUME NEW w \in Workers, NEW e \in Experiments, RecordResponse(w, e) PROVE ReportSound' /\ CopySound'
  BY <1>29, ObserveSound, Labels DEF RecordResponse
<1>30. ASSUME NEW w \in Workers, NEW e \in Experiments, InjectRaise(w, e) PROVE ReportSound' /\ CopySound'
  <2>1. UNCHANGED report
    BY <1>30 DEF InjectRaise
  <2> QED
    BY <1>30, <2>1, ObserveSound, Labels DEF InjectRaise
<1>31. CASE UNCHANGED vars
  BY <1>0, <1>31 DEF vars, locals, ReportSound, CopySound, SoundFor
<1> QED
  BY <1>4, <1>5, <1>6, <1>7, <1>8, <1>9, <1>10, <1>11, <1>12, <1>13, <1>14, <1>15, <1>16, <1>17, <1>18, <1>19, <1>20, <1>21, <1>22, <1>23, <1>24, <1>25, <1>26, <1>27, <1>28, <1>29, <1>30, <1>31 DEF Next, Step

-----------------------------------------------------------------------------
\* The invariant the theorems rest on: documents in Redis, and the copies that
\* calls hold of them, are well formed and sound.
LEMMA InductiveInvariant == Spec => []IInv
<1>1. Init => IInv
  BY DurationAssumption, SetsAssumption DEF Init, IInv, TypeOK, NoExp, NoReport, Reports, ExpDocs,
     PC, Ops, Counters, TargetKnown, Known, WritePC, ReportSound, CopySound, SoundFor
<1>2. IInv /\ [Next]_vars => IInv'
  BY TypeStep, KnownStep, SoundStep DEF IInv
<1> QED
  BY <1>1, <1>2, PTL DEF Spec

\* The documents, the gauge and every call keep their shape, for any number of
\* calls and experiments.
THEOREM ChaosTypeOK == Spec => []TypeOK
<1>1. IInv => TypeOK
  BY DEF IInv
<1> QED
  BY <1>1, InductiveInvariant, PTL

\* No report ever claims more than was observed, or more errors than requests,
\* through any loss of updates between save_report calls.
THEOREM ChaosReportSound == Spec => []ReportSound
<1>1. IInv => ReportSound
  BY DEF IInv
<1> QED
  BY <1>1, InductiveInvariant, PTL

-----------------------------------------------------------------------------
(* GaugeAccurate speaks of quiet moments only, so it is not inductive: the  *)
(* invariant must say what the gauge is while calls are between the metrics *)
(* and the report.                                                          *)

\* A call that creates an experiment and has not counted it yet.
CreatePC == {"create_exp", "create_report", "create_count"}

\* What call w is doing to experiment e, as far as the gauge goes.
Busy(w, e) == IF tgt[w] = e /\ pc[w] \in CreatePC \union {"save", "show_check"}
                THEN pc[w] ELSE "idle"

\* Experiment e is not created yet, or its report is not written yet.
Early(e) == \/ seen[e]["created"] = 0
            \/ \E w \in Workers : Busy(w, e) \in {"create_exp", "create_report"}
\* Its report is written, and the gauge will be incremented next.
Uncounted(e) == \E w \in Workers : Busy(w, e) = "create_count"
\* What the gauge shows of e if doc is what its report is or will be.
Expected(doc, e) == (IF doc.recovered THEN 0 ELSE 1) - (IF Uncounted(e) THEN 1 ELSE 0)

\* One call creates e, after a fresh id was drawn.
OneCreator(e) ==
  \A v, w \in Workers :
    Busy(w, e) \in CreatePC => /\ seen[e]["created"] # 0
                               /\ Busy(v, e) \in CreatePC => v = w
\* Until the report is written, the gauge is untouched and nobody holds one.
EarlyClean(e) ==
  Early(e) => /\ ~report[e].live /\ gauge[e] = 0
              /\ \A w \in Workers : /\ Busy(w, e) # "save"
                                    /\ Busy(w, e) = "show_check" => ~copy[w].live
\* The only call that is about to write the report of e has already brought
\* the gauge to what it will write.
LoneSaver(e) ==
  \A w \in Workers :
    Busy(w, e) = "save" /\ (\A v \in Workers : Busy(v, e) = "save" => v = w)
      => gauge[e] = Expected(copy[w], e)
\* No call that is about to write the report has settled it in the metrics.
Settled(e) == \A w \in Workers : Busy(w, e) = "save" => copy[w].recovered = report[e].recovered
\* The gauge of e, at any moment.
GaugeFor(e) ==
  /\ OneCreator(e)
  /\ EarlyClean(e)
  /\ e \notin excused => /\ LoneSaver(e)
                         /\ report[e].live /\ Settled(e) => gauge[e] = Expected(report[e], e)
GaugeInv == \A e \in Experiments : GaugeFor(e)

\* Whether e was ever created; what a step of w leaves to the other calls.
Created(e) == seen[e]["created"]
Others(w) == \A v \in Workers \ {w} : UNCHANGED <<pc[v], tgt[v], copy[v]>>

\* A step of w does not change what the others are doing to any experiment.
LEMMA OthersBusy ==
  ASSUME NEW w \in Workers, Others(w)
  PROVE  \A v \in Workers \ {w}, e \in Experiments : Busy(v, e)' = Busy(v, e) /\ copy'[v] = copy[v]
BY DEF Others, Busy

\* A step that leaves experiment e alone.
LEMMA GaugeFrame ==
  ASSUME NEW e \in Experiments, GaugeFor(e), excused \subseteq excused',
         gauge'[e] = gauge[e], report'[e] = report[e], Created(e)' = Created(e),
         \A v \in Workers :
           /\ Busy(v, e)' = Busy(v, e) \/ (Busy(v, e) = "show_check" /\ Busy(v, e)' = "idle")
           /\ Busy(v, e)' \in {"save", "show_check"} => copy'[v] = copy[v]
  PROVE  GaugeFor(e)'
<1>1. \A v \in Workers : \A p \in CreatePC \union {"save"} : Busy(v, e)' = p <=> Busy(v, e) = p
  BY DEF CreatePC
<1>7. \A v \in Workers : Busy(v, e)' \in CreatePC <=> Busy(v, e) \in CreatePC
  BY <1>1
<1>2. Early(e)' = Early(e) /\ Uncounted(e)' = Uncounted(e)
  BY <1>1 DEF Early, Uncounted, Created, CreatePC
<1>3. OneCreator(e)'
  BY <1>7 DEF GaugeFor, OneCreator, Created
<1>4. EarlyClean(e)'
  BY <1>1, <1>2 DEF GaugeFor, EarlyClean
<1>5. ASSUME e \notin excused' PROVE LoneSaver(e)'
  <2>1. LoneSaver(e)
    BY <1>5 DEF GaugeFor
  <2>2. \A w \in Workers : Busy(w, e)' = "save" => Expected(copy[w], e)' = Expected(copy[w], e)
    BY <1>2 DEF Expected
  <2> QED
    BY <1>1, <2>1, <2>2 DEF LoneSaver
<1>6. ASSUME e \notin excused', report'[e].live, Settled(e)' PROVE gauge'[e] = Expected(report[e], e)'
  <2>1. Settled(e)
    BY <1>1, <1>6 DEF Settled
  <2>2. Expected(report[e], e)' = Expected(report[e], e)
    BY <1>2 DEF Expected
  <2> QED
    BY <1>6, <2>1, <2>2 DEF GaugeFor
<1> QED
  BY <1>3, <1>4, <1>5, <1>6 DEF GaugeFor

\* A step of call w that touches no experiment but e, and neither begins nor
\* ends a creation or a save of another one.
LEMMA GaugeElsewhere ==
  ASSUME GaugeInv, NEW w \in Workers, NEW e, Others(w), excused \subseteq excused',
         \A x \in Experiments \ {e} :
           /\ gauge'[x] = gauge[x] /\ report'[x] = report[x] /\ Created(x)' = Created(x)
           /\ Busy(w, x) \in {"idle", "show_check"} /\ Busy(w, x)' = "idle",
         e \in Experiments => GaugeFor(e)'
  PROVE  GaugeInv'
<1> SUFFICES ASSUME NEW x \in Experiments, x # e PROVE GaugeFor(x)'
  BY DEF GaugeInv
<1>1. \A v \in Workers :
        /\ Busy(v, x)' = Busy(v, x) \/ (Busy(v, x) = "show_check" /\ Busy(v, x)' = "idle")
        /\ Busy(v, x)' \in {"save", "show_check"} => copy'[v] = copy[v]
  BY OthersBusy
<1> QED
  BY <1>1, GaugeFrame DEF GaugeInv

\* A step that leaves the metrics and the reports alone, of a call that
\* neither was nor gets busy with one.
LEMMA GaugePlain ==
  ASSUME GaugeInv, NEW w \in Workers, Others(w), UNCHANGED <<gauge, report, excused>>,
         \A x \in Experiments : Created(x)' = Created(x),
         pc[w] \notin CreatePC \union {"save"},
         pc'[w] \notin CreatePC \union {"save", "show_check"}
  PROVE  GaugeInv'
<1>1. \A x \in Experiments : Busy(w, x) \in {"idle", "show_check"} /\ Busy(w, x)' = "idle"
  BY DEF Busy
<1>2. PICK e : e \notin Experiments
  BY SetsAssumption
<1> QED
  BY <1>1, <1>2, GaugeElsewhere

\* A call has read the live report e and holds a changed copy: a counter was
\* incremented, or the report was settled, in the metrics and in the copy.
LEMMA GaugeHold ==
  ASSUME GaugeInv, TypeOK, NEW w \in Workers, NEW e \in Experiments, NEW new, NEW after,
         Hold(w, e, new, after), UNCHANGED report, report[e].live,
         pc[w] \notin CreatePC \union {"save"}, excused \subseteq excused',
         \A x \in Experiments : Created(x)' = Created(x),
         \/ new.recovered = report[e].recovered /\ UNCHANGED gauge
         \/ /\ new.recovered = TRUE /\ Settle(e)
            /\ report[e].recovered => e \in excused'
  PROVE  GaugeInv'
<1>1. Others(w) /\ pc'[w] = "save" /\ tgt'[w] = e /\ copy'[w] = new
  BY DEF Hold, Goto, Set, TypeOK, Others
<1>2. /\ \A x \in Experiments : Busy(w, x) \in {"idle", "show_check"}
      /\ Busy(w, e)' = "save"
      /\ \A x \in Experiments \ {e} : Busy(w, x)' = "idle"
  BY <1>1 DEF Busy
<1>3. \A x \in Experiments \ {e} : gauge'[x] = gauge[x]
  BY DEF Settle, TypeOK
<1>4. GaugeFor(e) /\ ~Early(e)
  BY DEF GaugeInv, GaugeFor, EarlyClean
<1>5. /\ \A v \in Workers : Busy(v, e)' \in CreatePC <=> Busy(v, e) \in CreatePC
      /\ \A v \in Workers : \A p \in CreatePC : Busy(v, e)' = p <=> Busy(v, e) = p
      /\ \A v \in Workers \ {w} : Busy(v, e)' = Busy(v, e) /\ copy'[v] = copy[v]
  BY <1>1, <1>2, OthersBusy DEF CreatePC
<1>6. ~Early(e)' /\ Uncounted(e)' = Uncounted(e)
  BY <1>4, <1>5 DEF Early, Uncounted, Created, CreatePC
<1>7. OneCreator(e)'
  BY <1>4, <1>5 DEF GaugeFor, OneCreator, Created
<1>8. EarlyClean(e)'
  BY <1>6 DEF EarlyClean
<1>9. ASSUME e \notin excused', LoneSaver(e), report[e].live /\ Settled(e) => gauge[e] = Expected(report[e], e)
      PROVE  LoneSaver(e)'
  <2>1. SUFFICES ASSUME NEW v \in Workers, Busy(v, e)' = "save",
                        \A u \in Workers : Busy(u, e)' = "save" => u = v
                 PROVE  gauge'[e] = Expected(copy[v], e)'
    BY DEF LoneSaver
  <2>2. v = w
    BY <1>2, <2>1
  <2>3. Settled(e)
    BY <1>2, <1>5, <2>1, <2>2 DEF Settled
  <2>4. gauge[e] = Expected(report[e], e)
    BY <1>9, <2>3
  <2>5. CASE new.recovered = report[e].recovered /\ UNCHANGED gauge
    BY <1>1, <1>6, <2>2, <2>4, <2>5 DEF Expected
  <2>6. CASE new.recovered = TRUE /\ Settle(e) /\ ~report[e].recovered
    <3>1. gauge'[e] = gauge[e] - 1
      BY <2>6 DEF Settle, TypeOK
    <3> QED
      BY <1>1, <1>6, <2>2, <2>4, <2>6, <3>1 DEF Expected
  <2> QED
    BY <1>9, <2>5, <2>6
<1>10. ASSUME e \notin excused', report[e].live /\ Settled(e) => gauge[e] = Expected(report[e], e),
              Settled(e)'
       PROVE  gauge'[e] = Expected(report[e], e)'
  <2>1. new.recovered = report[e].recovered
    BY <1>1, <1>2, <1>10 DEF Settled
  <2>2. UNCHANGED gauge
    BY <1>10, <2>1
  <2>3. Settled(e)
    BY <1>2, <1>5, <1>10 DEF Settled
  <2> QED
    BY <1>6, <1>10, <2>2, <2>3 DEF Expected
<1>11. GaugeFor(e)'
  BY <1>4, <1>7, <1>8, <1>9, <1>10 DEF GaugeFor
<1> QED
  BY <1>1, <1>2, <1>3, <1>11, GaugeElsewhere

\* The whole document is written back: by the only call that held one, or the
\* experiment is excused.
LEMMA GaugeSave ==
  ASSUME GaugeInv, TypeOK, TargetKnown, NEW w \in Workers, SaveReport(w)
  PROVE  GaugeInv'
<1>0. PICK e \in Experiments : e = tgt[w]
  BY DEF TargetKnown, Known, WritePC, SaveReport
<1>1. /\ e = tgt[w] /\ ret[w] \in ReturnPC /\ pc[w] = "save"
      /\ UNCHANGED <<gauge, seen, tgt, copy>> /\ pc' = [pc EXCEPT ![w] = ret[w]]
  BY <1>0 DEF TargetKnown, Known, WritePC, SaveReport, locals, Goto
<1>2. Others(w) /\ Busy(w, e) = "save" /\ \A x \in Experiments : Busy(w, x)' = "idle"
  BY <1>1 DEF Others, Busy, TypeOK, ReturnPC, CreatePC
<1>3. \A x \in Experiments \ {e} : Busy(w, x) = "idle" /\ report'[x] = report[x]
  <2>1. \A x \in Experiments \ {e} : report'[x] = report[x]
    BY <1>0 DEF SaveReport, TypeOK
  <2> QED
    BY <1>0, <2>1 DEF Busy
<1>4. report'[e].recovered = copy[w].recovered /\ report'[e].live
  BY <1>1 DEF SaveReport, TypeOK, Reports
<1>5. excused \subseteq excused' /\ (e \notin excused' => \A v \in Workers : Busy(v, e) = "save" => v = w)
  BY <1>1 DEF SaveReport, Busy
<1>6. GaugeFor(e) /\ ~Early(e)
  BY <1>1, <1>2 DEF GaugeInv, GaugeFor, EarlyClean
<1>7. \A v \in Workers : /\ \A p \in CreatePC : Busy(v, e)' = p <=> Busy(v, e) = p
                         /\ Busy(v, e)' \in CreatePC <=> Busy(v, e) \in CreatePC
  BY <1>1, <1>2, OthersBusy DEF CreatePC
<1>8. ~Early(e)' /\ Uncounted(e)' = Uncounted(e)
  BY <1>1, <1>6, <1>7 DEF Early, Uncounted, CreatePC
<1>9. OneCreator(e)' /\ EarlyClean(e)'
  BY <1>1, <1>6, <1>7, <1>8 DEF GaugeFor, OneCreator, EarlyClean
<1>10. ASSUME e \notin excused'
       PROVE  LoneSaver(e)' /\ gauge'[e] = Expected(report[e], e)'
  <2>1. \A v \in Workers : Busy(v, e)' # "save"
    BY <1>1, <1>2, <1>5, <1>10, OthersBusy
  <2>2. gauge[e] = Expected(copy[w], e)
    BY <1>2, <1>5, <1>6, <1>10 DEF GaugeFor, LoneSaver
  <2> QED
    BY <1>1, <1>4, <1>8, <2>1, <2>2 DEF LoneSaver, Expected
<1>11. GaugeFor(e)'
  BY <1>9, <1>10 DEF GaugeFor
<1> QED
  BY <1>1, <1>2, <1>3, <1>5, <1>11, GaugeElsewhere DEF Created

\* The four steps of a creation: until the report is written nothing is
\* counted and nobody has read a report, and only one call creates it.
LEMMA GaugeCreate ==
  ASSUME GaugeInv, TypeOK, TargetKnown, NEW w \in Workers
  PROVE  /\ \A e \in Experiments : BeginCreate(w, e) => GaugeInv'
         /\ CreateExperiment(w) => GaugeInv'
         /\ CreateReport(w) => GaugeInv'
         /\ RecordCreated(w) => GaugeInv'
<1>1. ASSUME NEW e \in Experiments, BeginCreate(w, e) PROVE GaugeInv'
  <2>1. /\ UNCHANGED <<gauge, report, excused, copy>> /\ pc[w] = "new" /\ pc'[w] = "create_exp"
        /\ tgt'[w] = e /\ Others(w)
        /\ Created(e) = 0 /\ Created(e)' = 1 /\ \A x \in Experiments \ {e} : Created(x)' = Created(x)
    BY <1>1 DEF BeginCreate, Begin, Goto, Set, Others, TypeOK, Created
  <2>2. /\ \A x \in Experiments : Busy(w, x) = "idle"
        /\ Busy(w, e)' = "create_exp" /\ \A x \in Experiments \ {e} : Busy(w, x)' = "idle"
    BY <2>1 DEF Busy, CreatePC
  <2>3. \A v \in Workers \ {w} : Busy(v, e)' = Busy(v, e)
    BY <2>1, OthersBusy
  <2>4. GaugeFor(e) /\ Early(e)
    BY <2>1 DEF GaugeInv, Early, Created
  <2>5. /\ ~report[e].live /\ gauge[e] = 0
        /\ \A v \in Workers : /\ Busy(v, e) # "save"
                              /\ Busy(v, e) = "show_check" => ~copy[v].live
    BY <2>4 DEF GaugeFor, EarlyClean
  <2>6. \A v \in Workers : Busy(v, e) \notin CreatePC
    BY <2>1, <2>4 DEF GaugeFor, OneCreator, Created
  <2>7. OneCreator(e)'
    BY <2>1, <2>3, <2>6 DEF OneCreator, Created
  <2>8. EarlyClean(e)'
    BY <2>1, <2>2, <2>3, <2>5 DEF EarlyClean
  <2>9. LoneSaver(e)' /\ ~report'[e].live
    BY <2>1, <2>2, <2>3, <2>5 DEF LoneSaver
  <2>10. GaugeFor(e)'
    BY <2>7, <2>8, <2>9 DEF GaugeFor
  <2> QED
    BY <2>1, <2>2, <2>10, GaugeElsewhere
<1>2. ASSUME CreateExperiment(w) PROVE GaugeInv'
  <2>0. PICK x \in Experiments : x = tgt[w]
    BY <1>2 DEF CreateExperiment, TargetKnown, Known, WritePC
  <2>1. /\ UNCHANGED <<gauge, report, excused, seen, tgt, copy>>
        /\ pc[w] = "create_exp" /\ pc'[w] = "create_report" /\ Others(w) /\ x = tgt[w]
    BY <1>2, <2>0 DEF CreateExperiment, Goto, locals, Others, TypeOK, TargetKnown, Known, WritePC
  <2>2. /\ Busy(w, x) = "create_exp" /\ Busy(w, x)' = "create_report"
        /\ \A y \in Experiments \ {x} : Busy(w, y) = "idle" /\ Busy(w, y)' = "idle"
    BY <2>1 DEF Busy, CreatePC
  <2>3. \A v \in Workers \ {w} : Busy(v, x)' = Busy(v, x)
    BY <2>1, OthersBusy
  <2>4. GaugeFor(x) /\ Early(x)
    BY <2>1, <2>2 DEF GaugeInv, Early
  <2>5. /\ ~report[x].live /\ gauge[x] = 0
        /\ \A v \in Workers : /\ Busy(v, x) # "save"
                              /\ Busy(v, x) = "show_check" => ~copy[v].live
    BY <2>4 DEF GaugeFor, EarlyClean
  <2>6. \A v \in Workers : Busy(v, x)' \in CreatePC <=> Busy(v, x) \in CreatePC
    BY <2>2, <2>3 DEF CreatePC
  <2>7. OneCreator(x)'
    BY <2>1, <2>4, <2>6 DEF OneCreator, GaugeFor
  <2>8. EarlyClean(x)'
    BY <2>1, <2>2, <2>3, <2>5 DEF EarlyClean
  <2>9. LoneSaver(x)' /\ ~report'[x].live
    BY <2>1, <2>2, <2>3, <2>5 DEF LoneSaver
  <2>10. GaugeFor(x)'
    BY <2>7, <2>8, <2>9 DEF GaugeFor
  <2> QED
    BY <2>1, <2>2, <2>10, GaugeElsewhere DEF Created
<1>3. ASSUME CreateReport(w) PROVE GaugeInv'
  <2>0. PICK x \in Experiments : x = tgt[w]
    BY <1>3 DEF CreateReport, TargetKnown, Known, WritePC
  <2>1. /\ UNCHANGED <<gauge, excused, seen, tgt, copy>>
        /\ pc[w] = "create_report" /\ pc'[w] = "create_count" /\ Others(w) /\ x = tgt[w]
        /\ report'[x].live /\ ~report'[x].recovered
        /\ \A y \in Experiments \ {x} : report'[y] = report[y]
    BY <1>3, <2>0 DEF CreateReport, Goto, locals, Others, TypeOK, TargetKnown, Known, WritePC, NoReport
  <2>2. /\ Busy(w, x) = "create_report" /\ Busy(w, x)' = "create_count"
        /\ \A y \in Experiments \ {x} : Busy(w, y) = "idle" /\ Busy(w, y)' = "idle"
    BY <2>1 DEF Busy, CreatePC
  <2>3. \A v \in Workers \ {w} : Busy(v, x)' = Busy(v, x)
    BY <2>1, OthersBusy
  <2>4. GaugeFor(x) /\ Early(x)
    BY <2>1, <2>2 DEF GaugeInv, Early
  <2>5. gauge[x] = 0 /\ \A v \in Workers : Busy(v, x) # "save"
    BY <2>4 DEF GaugeFor, EarlyClean
  <2>6. \A v \in Workers : Busy(v, x)' \in CreatePC <=> Busy(v, x) \in CreatePC
    BY <2>2, <2>3 DEF CreatePC
  <2>7. OneCreator(x)'
    BY <2>1, <2>4, <2>6 DEF OneCreator, GaugeFor
  <2>8. seen'[x]["created"] # 0 /\ \A v \in Workers \ {w} : Busy(v, x)' \notin CreatePC
    BY <2>1, <2>2, <2>3, <2>4 DEF GaugeFor, OneCreator, CreatePC
  <2>9. ~Early(x)' /\ Uncounted(x)'
    BY <2>2, <2>8 DEF Early, Uncounted, CreatePC
  <2>10. LoneSaver(x)' /\ EarlyClean(x)'
    BY <2>2, <2>3, <2>5, <2>9 DEF LoneSaver, EarlyClean
  <2>11. gauge'[x] = Expected(report[x], x)'
    BY <2>1, <2>5, <2>9 DEF Expected
  <2>12. GaugeFor(x)'
    BY <2>7, <2>10, <2>11 DEF GaugeFor
  <2> QED
    BY <2>1, <2>2, <2>12, GaugeElsewhere DEF Created
<1>4. ASSUME RecordCreated(w) PROVE GaugeInv'
  <2>0. PICK x \in Experiments : x = tgt[w]
    BY <1>4 DEF RecordCreated, TargetKnown, Known, WritePC
  <2>1. /\ UNCHANGED <<report, excused, seen, tgt, copy>>
        /\ pc[w] = "create_count" /\ pc'[w] = "done" /\ Others(w) /\ x = tgt[w]
        /\ gauge'[x] = gauge[x] + 1 /\ \A y \in Experiments \ {x} : gauge'[y] = gauge[y]
        /\ gauge[x] \in Int
    BY <1>4, <2>0 DEF RecordCreated, Goto, locals, Others, TypeOK, TargetKnown, Known, WritePC
  <2>2. /\ Busy(w, x) = "create_count" /\ Busy(w, x)' = "idle"
        /\ \A y \in Experiments \ {x} : Busy(w, y) = "idle" /\ Busy(w, y)' = "idle"
    BY <2>1 DEF Busy, CreatePC
  <2>3. \A v \in Workers \ {w} : Busy(v, x)' = Busy(v, x)
    BY <2>1, OthersBusy
  <2>4. GaugeFor(x)
    BY <2>1 DEF GaugeInv
  <2>5. seen[x]["created"] # 0 /\ \A v \in Workers \ {w} : Busy(v, x) \notin CreatePC
    BY <2>2, <2>4 DEF GaugeFor, OneCreator, CreatePC
  <2>6. \A v \in Workers : Busy(v, x)' \notin CreatePC /\ (Busy(v, x)' = "save" <=> Busy(v, x) = "save")
    BY <2>2, <2>3, <2>5 DEF CreatePC
  <2>7. ~Early(x)' /\ ~Uncounted(x)' /\ Uncounted(x)
    BY <2>1, <2>2, <2>5, <2>6 DEF Early, Uncounted, CreatePC
  <2>8. OneCreator(x)' /\ EarlyClean(x)'
    BY <2>6, <2>7 DEF OneCreator, EarlyClean
  <2>9. \A d : Expected(d, x)' = Expected(d, x) + 1
    BY <2>7 DEF Expected
  <2>10. ASSUME x \notin excused' PROVE LoneSaver(x)'
    <3>1. LoneSaver(x)
      BY <2>1, <2>4, <2>10 DEF GaugeFor
    <3>2. \A v \in Workers : Expected(copy[v], x)' = Expected(copy[v], x) + 1
      BY <2>1, <2>7 DEF Expected
    <3> QED
      BY <2>1, <2>6, <3>1, <3>2 DEF LoneSaver
  <2>11. ASSUME x \notin excused', report'[x].live, Settled(x)' PROVE gauge'[x] = Expected(report[x], x)'
    <3>1. Settled(x)
      BY <2>1, <2>6, <2>11 DEF Settled
    <3>2. Expected(report[x], x)' = Expected(report[x], x) + 1
      BY <2>1, <2>7 DEF Expected
    <3> QED
      BY <2>1, <2>4, <2>11, <3>1, <3>2 DEF GaugeFor
  <2>12. GaugeFor(x)'
    BY <2>8, <2>10, <2>11 DEF GaugeFor
  <2> QED
    BY <2>1, <2>2, <2>12, GaugeElsewhere DEF Created
<1> QED
  BY <1>1, <1>2, <1>3, <1>4

\* Counting an observation leaves the gauge of every experiment right.
LEMMA GaugeObserve ==
  ASSUME GaugeInv, TypeOK, NEW w \in Workers, NEW e \in Experiments, NEW what, NEW after,
         Observe(w, e, what, after), UNCHANGED <<gauge, report, excused>>, "created" \notin what,
         pc[w] \notin CreatePC \union {"save"},
         after \notin CreatePC \union {"save", "show_check"}
  PROVE  GaugeInv'
<1>1. \A x \in Experiments : Created(x)' = Created(x)
  BY DEF Observe, Created, TypeOK
<1>2. CASE report[e].live
  <2>1. Hold(w, e, Bump(e, what), after) /\ Bump(e, what).recovered = report[e].recovered
    BY <1>2 DEF Observe, Bump, TypeOK, Reports
  <2> QED
    BY <1>1, <1>2, <2>1, GaugeHold
<1>3. CASE ~report[e].live
  <2>1. Others(w) /\ pc'[w] = after
    BY <1>3 DEF Observe, Others, Goto, TypeOK
  <2> QED
    BY <1>1, <2>1, GaugePlain
<1> QED
  BY <1>2, <1>3

\* A call that shows a report holds the document as it is, and settles that of
\* an expired experiment only in the copy, which excuses the experiment.
LEMMA GaugeShow ==
  ASSUME GaugeInv, TypeOK, TargetKnown, NEW w \in Workers
  PROVE  /\ ShowReport(w) => GaugeInv'
         /\ ShowCheck(w) => GaugeInv'
<1>1. ASSUME ShowReport(w) PROVE GaugeInv'
  <2>1. PICK e \in matched[w] : copy' = Set(copy, w, report[e]) /\ tgt' = Set(tgt, w, e)
    BY <1>1 DEF ShowReport
  <2>2. /\ e \in Experiments /\ UNCHANGED <<gauge, report, excused, seen>> /\ Others(w)
        /\ pc[w] = "show_report" /\ pc'[w] = "show_check" /\ copy'[w] = report[e] /\ tgt'[w] = e
    BY <1>1, <2>1 DEF ShowReport, Goto, Set, Others, TypeOK
  <2>3. /\ \A x \in Experiments : Busy(w, x) = "idle"
        /\ Busy(w, e)' = "show_check" /\ \A x \in Experiments \ {e} : Busy(w, x)' = "idle"
    BY <2>2 DEF Busy, CreatePC
  <2>4. GaugeFor(e) /\ \A v \in Workers \ {w} : Busy(v, e)' = Busy(v, e) /\ copy'[v] = copy[v]
    BY <2>2, OthersBusy DEF GaugeInv
  <2>5. \A v \in Workers : \A p \in CreatePC \union {"save"} : Busy(v, e)' = p <=> Busy(v, e) = p
    BY <2>2, <2>3, <2>4 DEF CreatePC
  <2>6. \A v \in Workers : Busy(v, e)' \in CreatePC <=> Busy(v, e) \in CreatePC
    BY <2>5
  <2>7. Early(e)' = Early(e) /\ Uncounted(e)' = Uncounted(e)
    BY <2>2, <2>5 DEF Early, Uncounted, CreatePC
  <2>8. OneCreator(e)'
    BY <2>2, <2>4, <2>6 DEF GaugeFor, OneCreator
  <2>9. EarlyClean(e)'
    BY <2>2, <2>3, <2>4, <2>7 DEF GaugeFor, EarlyClean
  <2>10. ASSUME e \notin excused' PROVE LoneSaver(e)'
    <3>1. LoneSaver(e)
      BY <2>2, <2>4, <2>10 DEF GaugeFor
    <3>2. \A v \in Workers : Busy(v, e)' = "save" => copy'[v] = copy[v] /\ Busy(v, e) = "save"
      BY <2>3, <2>4
    <3>3. \A v \in Workers : Busy(v, e)' = "save" => Expected(copy[v], e)' = Expected(copy[v], e)
      BY <2>7, <3>2 DEF Expected
    <3> QED
      BY <2>2, <2>5, <3>1, <3>3 DEF LoneSaver
  <2>11. ASSUME e \notin excused', report'[e].live, Settled(e)' PROVE gauge'[e] = Expected(report[e], e)'
    <3>1. Settled(e)
      BY <2>2, <2>3, <2>4, <2>11 DEF Settled
    <3> QED
      BY <2>2, <2>4, <2>7, <2>11, <3>1 DEF GaugeFor, Expected
  <2>12. GaugeFor(e)'
    BY <2>8, <2>9, <2>10, <2>11 DEF GaugeFor
  <2> QED
    BY <2>2, <2>3, <2>12, GaugeElsewhere DEF Created
<1>2. ASSUME ShowCheck(w) PROVE GaugeInv'
  <2>0. PICK e \in Experiments : e = tgt[w]
    BY <1>2 DEF ShowCheck, TargetKnown, Known, WritePC
  <2>1. /\ UNCHANGED <<gauge, report, seen, tgt>> /\ Others(w) /\ pc[w] = "show_check"
    BY <1>2 DEF ShowCheck, Goto, Others, TypeOK
  <2>2. /\ Busy(w, e) = "show_check"
        /\ \A x \in Experiments \ {e} : Busy(w, x) = "idle" /\ Busy(w, x)' = "idle"
    BY <2>0, <2>1 DEF Busy, CreatePC
  <2>3. GaugeFor(e) /\ \A v \in Workers \ {w} : Busy(v, e)' = Busy(v, e) /\ copy'[v] = copy[v]
    BY <2>1, OthersBusy DEF GaugeInv
  <2>4. CASE pc'[w] = "done" /\ UNCHANGED <<copy, excused>>
    <3>1. Busy(w, e)' = "idle"
      BY <2>4 DEF Busy, CreatePC
    <3>2. GaugeFor(e)'
      BY <2>1, <2>2, <2>3, <2>4, <3>1, GaugeFrame DEF Created
    <3> QED
      BY <2>1, <2>2, <2>4, <3>2, GaugeElsewhere DEF Created
  <2>5. CASE pc'[w] = "save" /\ copy[w].live /\ excused' = excused \union {e}
    <3>1. Busy(w, e)' = "save"
      BY <2>0, <2>1, <2>5 DEF Busy, CreatePC
    <3>2. ~Early(e)
      BY <2>2, <2>3, <2>5 DEF GaugeFor, EarlyClean
    <3>3. \A v \in Workers : /\ \A p \in CreatePC : Busy(v, e)' = p <=> Busy(v, e) = p
                             /\ Busy(v, e)' \in CreatePC <=> Busy(v, e) \in CreatePC
      BY <2>2, <2>3, <3>1 DEF CreatePC
    <3>4. ~Early(e)' /\ OneCreator(e)'
      BY <2>1, <2>3, <3>2, <3>3 DEF Early, OneCreator, GaugeFor, CreatePC
    <3>5. GaugeFor(e)'
      BY <2>5, <3>4 DEF GaugeFor, EarlyClean
    <3> QED
      BY <2>1, <2>2, <2>5, <3>5, GaugeElsewhere DEF Created
  <2> QED
    BY <1>2, <2>0, <2>1, <2>4, <2>5 DEF ShowCheck, Goto, TypeOK
<1> QED
  BY <1>1, <1>2

\* A second passes: a report that expires is counted no more.
LEMMA GaugeTick == ASSUME GaugeInv, Tick PROVE GaugeInv'
<1>1. /\ UNCHANGED <<gauge, excused, seen, pc, tgt, copy>>
      /\ \A e \in Experiments : report'[e] = report[e] \/ ~report'[e].live
  BY DEF Tick, locals, NoReport
<1>2. SUFFICES ASSUME NEW e \in Experiments PROVE GaugeFor(e)'
  BY DEF GaugeInv
<1>3. \A v \in Workers : Busy(v, e)' = Busy(v, e)
  BY <1>1 DEF Busy
<1>4. GaugeFor(e) /\ Early(e)' = Early(e) /\ Uncounted(e)' = Uncounted(e)
  BY <1>1, <1>3 DEF GaugeInv, Early, Uncounted
<1>5. OneCreator(e)' /\ EarlyClean(e)'
  BY <1>1, <1>3, <1>4 DEF GaugeFor, OneCreator, EarlyClean
<1>6. ASSUME e \notin excused' PROVE LoneSaver(e)'
  <2>1. \A v \in Workers : Expected(copy[v], e)' = Expected(copy[v], e)
    BY <1>1, <1>4 DEF Expected
  <2> QED
    BY <1>1, <1>3, <1>4, <1>6, <2>1 DEF GaugeFor, LoneSaver
<1>7. ASSUME e \notin excused', report'[e].live, Settled(e)' PROVE gauge'[e] = Expected(report[e], e)'
  <2>1. report'[e] = report[e]
    BY <1>1, <1>7
  <2>2. Settled(e) /\ Expected(report[e], e)' = Expected(report[e], e)
    BY <1>1, <1>3, <1>4, <1>7, <2>1 DEF Settled, Expected
  <2> QED
    BY <1>1, <1>4, <1>7, <2>1, <2>2 DEF GaugeFor
<1> QED
  BY <1>5, <1>6, <1>7 DEF GaugeFor

\* A step of call w that neither is about a report nor changes the gauge.
PlainStep(w) ==
  /\ Others(w) /\ UNCHANGED <<gauge, report, excused>>
  /\ \A x \in Experiments : Created(x)' = Created(x)
  /\ pc[w] \notin CreatePC \union {"save"}
  /\ pc'[w] \notin CreatePC \union {"save", "show_check"}

\* Calls arrive, look at experiments, match and respond in plain steps.
LEMMA PlainSteps ==
  ASSUME TypeOK, NEW w \in Workers,
         \/ SweepKeys(w) \/ SweepEnd(w) \/ ListKeys(w) \/ ListEnd(w) \/ Reject(w) \/ Admit(w)
         \/ Respond(w) \/ RespondEnd(w) \/ StopSave(w) \/ StopEnd(w) \/ ShowExperiment(w)
         \/ \E e \in Experiments : ListGet(w, e) \/ StopGet(w, e)
  PROVE  PlainStep(w)
<1>1. CASE SweepKeys(w)
  BY <1>1 DEF SweepKeys, Goto, Set, TypeOK, locals, PlainStep, Others, Created, CreatePC
<1>2. CASE SweepEnd(w)
  BY <1>2 DEF SweepEnd, EndLoop, Goto, Set, TypeOK, locals, PlainStep, Others, Created, CreatePC
<1>3. CASE ListKeys(w)
  BY <1>3 DEF ListKeys, Goto, Set, TypeOK, locals, PlainStep, Others, Created, CreatePC
<1>4. CASE ListEnd(w)
  BY <1>4 DEF ListEnd, EndLoop, Goto, Set, TypeOK, locals, PlainStep, Others, Created, CreatePC
<1>5. CASE Reject(w)
  BY <1>5 DEF Reject, EndLoop, Goto, Set, TypeOK, locals, PlainStep, Others, Created, CreatePC
<1>6. CASE Admit(w)
  BY <1>6 DEF Admit, EndLoop, Goto, Set, TypeOK, locals, PlainStep, Others, Created, CreatePC
<1>7. CASE Respond(w)
  BY <1>7 DEF Respond, EndLoop, Goto, Set, TypeOK, locals, PlainStep, Others, Created, CreatePC
<1>8. CASE RespondEnd(w)
  BY <1>8 DEF RespondEnd, EndLoop, Goto, Set, TypeOK, locals, PlainStep, Others, Created, CreatePC
<1>9. CASE StopSave(w)
  BY <1>9 DEF StopSave, Goto, Set, TypeOK, locals, PlainStep, Others, Created, CreatePC
<1>10. CASE StopEnd(w)
  BY <1>10 DEF StopEnd, EndLoop, Goto, Set, TypeOK, locals, PlainStep, Others, Created, CreatePC
<1>11. CASE ShowExperiment(w)
  BY <1>11 DEF ShowExperiment, Goto, Set, TypeOK, locals, PlainStep, Others, Created, CreatePC
<1>12. ASSUME NEW e \in Experiments, ListGet(w, e) PROVE PlainStep(w)
  BY <1>12 DEF ListGet, Goto, Set, TypeOK, locals, PlainStep, Others, Created, CreatePC
<1>13. ASSUME NEW e \in Experiments, StopGet(w, e) PROVE PlainStep(w)
  BY <1>13 DEF StopGet, Goto, Set, TypeOK, locals, PlainStep, Others, Created, CreatePC
<1> QED
  BY <1>1, <1>2, <1>3, <1>4, <1>5, <1>6, <1>7, <1>8, <1>9, <1>10, <1>11, <1>12, <1>13

\* Every step keeps the gauge right.
LEMMA GaugeStep == GaugeInv /\ TypeOK /\ TargetKnown /\ [Next]_vars => GaugeInv'
<1> SUFFICES ASSUME GaugeInv, TypeOK, TargetKnown, [Next]_vars PROVE GaugeInv'
  OBVIOUS
<1>1. ASSUME NEW w \in Workers, PlainStep(w) PROVE GaugeInv'
  BY <1>1, GaugePlain DEF PlainStep
<1>2. ASSUME NEW w \in Workers, Arrive(w) PROVE GaugeInv'
  <2>1. CASE \E e \in Experiments : BeginCreate(w, e)
    BY <2>1, GaugeCreate
  <2>2. CASE ~\E e \in Experiments : BeginCreate(w, e)
    <3>1. PlainStep(w)
      BY <1>2, <2>2 DEF Arrive, BeginStopAll, BeginSweep, BeginStop, Begin, Goto, Set, TypeOK,
         PlainStep, Others, Created, CreatePC
    <3> QED
      BY <1>1, <3>1
  <2> QED
    BY <2>1, <2>2
<1>3. ASSUME NEW w \in Workers, NEW e \in Experiments, SweepGet(w, e) PROVE GaugeInv'
  <2>1. CASE Due(w, e)
    <3>1. /\ Hold(w, e, Recovered(e), "sweep") /\ Settle(e) /\ UNCHANGED <<report, excused, seen>>
          /\ pc[w] \notin CreatePC \union {"save"} /\ report[e].live /\ ~report[e].recovered
      BY <1>3, <2>1 DEF SweepGet, Due, CreatePC
    <3>2. Recovered(e).recovered = TRUE
      BY DEF Recovered, TypeOK, Reports
    <3> QED
      BY <3>1, <3>2, GaugeHold DEF Created
  <2>2. CASE ~Due(w, e)
    <3>1. PlainStep(w)
      BY <1>3, <2>2 DEF SweepGet, PlainStep, Others, Created, CreatePC
    <3> QED
      BY <1>1, <3>1
  <2> QED
    BY <2>1, <2>2
<1>4. ASSUME NEW w \in Workers, RecordRecovered(w) PROVE GaugeInv'
  <2>0. PICK e \in Experiments : e = tgt[w]
    BY <1>4 DEF RecordRecovered, TargetKnown, Known, WritePC
  <2>1. CASE report[e].live
    <3>1. /\ Hold(w, e, Recovered(e), "stop") /\ Settle(e) /\ UNCHANGED <<report, seen>>
          /\ pc[w] \notin CreatePC \union {"save"} /\ excused \subseteq excused'
          /\ report[e].recovered => e \in excused'
      BY <1>4, <2>0, <2>1 DEF RecordRecovered, CreatePC
    <3>2. Recovered(e).recovered = TRUE
      BY DEF Recovered, TypeOK, Reports
    <3> QED
      BY <2>1, <3>1, <3>2, GaugeHold DEF Created
  <2>2. CASE ~report[e].live
    <3>1. PlainStep(w)
      BY <1>4, <2>0, <2>2 DEF RecordRecovered, Goto, TypeOK, PlainStep, Others, Created, CreatePC
    <3> QED
      BY <1>1, <3>1
  <2> QED
    BY <2>1, <2>2
<1>5. ASSUME NEW w \in Workers, NEW e \in Experiments, InjectDelay(w, e) PROVE GaugeInv'
  <2>1. /\ Observe(w, e, {"injected"}, pc[w])
        /\ UNCHANGED <<gauge, report, excused>> /\ pc[w] \notin CreatePC \union {"save"}
        /\ pc[w] \notin CreatePC \union {"save", "show_check"}
    BY <1>5 DEF InjectDelay, CreatePC
  <2> QED
    BY <2>1, GaugeObserve
<1>6. ASSUME NEW w \in Workers, NEW e \in Experiments, InjectRaise(w, e) PROVE GaugeInv'
  <2>1. /\ Observe(w, e, {"injected"}, "raised")
        /\ UNCHANGED <<gauge, report, excused>> /\ pc[w] \notin CreatePC \union {"save"}
        /\ "raised" \notin CreatePC \union {"save", "show_check"}
    BY <1>6 DEF InjectRaise, CreatePC
  <2> QED
    BY <2>1, GaugeObserve
<1>7. ASSUME NEW w \in Workers, NEW e \in Experiments, RecordFallback(w, e) PROVE GaugeInv'
  <2>1. /\ Observe(w, e, {"fallbacks"}, "fallback")
        /\ UNCHANGED <<gauge, report, excused>> /\ pc[w] \notin CreatePC \union {"save"}
        /\ "fallback" \notin CreatePC \union {"save", "show_check"}
    BY <1>7 DEF RecordFallback, CreatePC
  <2> QED
    BY <2>1, GaugeObserve
<1>8. ASSUME NEW w \in Workers, NEW e \in Experiments, RecordResponse(w, e) PROVE GaugeInv'
  <2>1. /\ Observe(w, e, IF failed[w] THEN {"requests", "errors"} ELSE {"requests"}, "respond")
        /\ UNCHANGED <<gauge, report, excused>> /\ pc[w] \notin CreatePC \union {"save"}
        /\ "respond" \notin CreatePC \union {"save", "show_check"}
    BY <1>8 DEF RecordResponse, CreatePC
  <2> QED
    BY <2>1, GaugeObserve
<1>9. CASE UNCHANGED vars
  BY <1>9, GaugeFrame DEF vars, locals, GaugeInv, Busy, Created
<1>10. ASSUME NEW w \in Workers, Step(w) PROVE GaugeInv'
  BY <1>1, <1>3, <1>4, <1>5, <1>6, <1>7, <1>8, <1>10, PlainSteps, GaugeCreate, GaugeSave, GaugeShow DEF Step
<1> QED
  BY <1>2, <1>9, <1>10, GaugeTick DEF Next

\* What had ended when a call began has still ended, and a request is under
\* none of it.
OffInv ==
  \A w \in Workers :
    /\ \A e \in ended[w] : Ended(e)
    /\ op[w] = "request" => matched[w] \intersect ended[w] = {}

\* An experiment that has ended does not start again: only its one creation
\* writes "running".
LEMMA EndedForGood ==
  ASSUME TypeOK, TargetKnown, [Next]_vars, NEW e \in Experiments, Ended(e)
  PROVE  Ended(e)'
<1>1. ASSUME exp'[e].status = "running" => exp[e].status = "running",
             Created(e)' = Created(e),
             \A v \in Workers : tgt'[v] = e /\ pc'[v] = "create_exp"
                                  => tgt[v] = e /\ pc[v] = "create_exp"
      PROVE  Ended(e)'
  BY <1>1 DEF Ended, Running, Created
<1>2. CASE Tick
  BY <1>1, <1>2 DEF Tick, locals, NoExp, Created
<1>3. ASSUME NEW w \in Workers, Arrive(w) PROVE Ended(e)'
  <2>1. CASE \E x \in Experiments : BeginCreate(w, x)
    <3>1. PICK x \in Experiments : BeginCreate(w, x)
      BY <2>1
    <3>2. x # e
      BY <3>1 DEF BeginCreate, Ended, TypeOK
    <3> QED
      BY <1>1, <3>1, <3>2 DEF BeginCreate, Begin, Goto, Set, TypeOK, Created
  <2>2. CASE ~\E x \in Experiments : BeginCreate(w, x)
    BY <1>1, <1>3, <2>2 DEF Arrive, BeginStopAll, BeginSweep, BeginStop, Begin, Goto, Set, TypeOK, Created
  <2> QED
    BY <2>1, <2>2
<1>4. ASSUME NEW w \in Workers, CreateExperiment(w) PROVE Ended(e)'
  <2>1. tgt[w] # e
    BY <1>4 DEF CreateExperiment, Ended
  <2> QED
    BY <1>1, <1>4, <2>1 DEF CreateExperiment, Goto, locals, TypeOK, Created
<1>5. ASSUME NEW w \in Workers, StopSave(w) PROVE Ended(e)'
  <2>1. exp'[e].status = "running" => exp[e].status = "running"
    BY <1>5 DEF StopSave, TypeOK
  <2> QED
    BY <1>1, <1>5, <2>1 DEF StopSave, Goto, locals, TypeOK, Created
<1>6. ASSUME NEW w \in Workers, PlainStep(w), UNCHANGED exp, pc'[w] # "create_exp" PROVE Ended(e)'
  BY <1>1, <1>6 DEF PlainStep, Others, Created
<1>7. ASSUME NEW w \in Workers, SaveReport(w) PROVE Ended(e)'
  <2>1. ret[w] # "create_exp"
    BY <1>7 DEF SaveReport, TargetKnown, Known, ReturnPC
  <2> QED
    BY <1>1, <1>7, <2>1 DEF SaveReport, Goto, locals, TypeOK, Created
<1>8. ASSUME NEW w \in Workers, CreateReport(w) PROVE Ended(e)'
  BY <1>1, <1>8 DEF CreateReport, Goto, locals, TypeOK, Created
<1>9. ASSUME NEW w \in Workers, RecordCreated(w) PROVE Ended(e)'
  BY <1>1, <1>9 DEF RecordCreated, Goto, locals, TypeOK, Created
<1>10. ASSUME NEW w \in Workers, RecordRecovered(w) PROVE Ended(e)'
  <2>1. UNCHANGED <<exp, seen>> /\ pc'[w] # "create_exp" /\ \A v \in Workers \ {w} : UNCHANGED <<pc[v], tgt[v]>>
    BY <1>10 DEF RecordRecovered, Settle, Hold, Goto, Set, TypeOK
  <2> QED
    BY <1>1, <1>10, <2>1 DEF Created
<1>11. ASSUME NEW w \in Workers, ShowCheck(w) PROVE Ended(e)'
  <2>1. UNCHANGED <<exp, seen>> /\ pc'[w] # "create_exp" /\ \A v \in Workers \ {w} : UNCHANGED <<pc[v], tgt[v]>>
    BY <1>11 DEF ShowCheck, Goto, Set, TypeOK
  <2> QED
    BY <1>1, <1>11, <2>1 DEF Created
<1>12. ASSUME NEW w \in Workers, ShowReport(w) PROVE Ended(e)'
  <2>1. UNCHANGED <<exp, seen>> /\ pc'[w] # "create_exp" /\ \A v \in Workers \ {w} : UNCHANGED <<pc[v], tgt[v]>>
    BY <1>12 DEF ShowReport, Goto, Set, TypeOK
  <2> QED
    BY <1>1, <1>12, <2>1 DEF Created
<1>13. ASSUME NEW w \in Workers, NEW x \in Experiments, SweepGet(w, x) PROVE Ended(e)'
  <2>1. UNCHANGED <<exp, seen>> /\ pc'[w] # "create_exp" /\ \A v \in Workers \ {w} : UNCHANGED <<pc[v], tgt[v]>>
    BY <1>13 DEF SweepGet, Hold, Goto, Set, TypeOK
  <2> QED
    BY <1>1, <2>1 DEF Created
<1>14. ASSUME NEW w \in Workers, NEW x \in Experiments, InjectDelay(w, x) PROVE Ended(e)'
  <2>1. /\ UNCHANGED exp /\ pc'[w] # "create_exp" /\ \A v \in Workers \ {w} : UNCHANGED <<pc[v], tgt[v]>>
    BY <1>14 DEF InjectDelay, Observe, Hold, Goto, Set, TypeOK
  <2>2. Created(e)' = Created(e)
    BY <1>14 DEF InjectDelay, Observe, Created, TypeOK
  <2> QED
    BY <1>1, <2>1, <2>2
<1>15. ASSUME NEW w \in Workers, NEW x \in Experiments, InjectRaise(w, x) PROVE Ended(e)'
  <2>1. /\ UNCHANGED exp /\ pc'[w] # "create_exp" /\ \A v \in Workers \ {w} : UNCHANGED <<pc[v], tgt[v]>>
    BY <1>15 DEF InjectRaise, Observe, Hold, Goto, Set, TypeOK
  <2>2. Created(e)' = Created(e)
    BY <1>15 DEF InjectRaise, Observe, Created, TypeOK
  <2> QED
    BY <1>1, <2>1, <2>2
<1>16. ASSUME NEW w \in Workers, NEW x \in Experiments, RecordFallback(w, x) PROVE Ended(e)'
  <2>1. /\ UNCHANGED exp /\ pc'[w] # "create_exp" /\ \A v \in Workers \ {w} : UNCHANGED <<pc[v], tgt[v]>>
    BY <1>16 DEF RecordFallback, Observe, Hold, Goto, Set, TypeOK
  <2>2. Created(e)' = Created(e)
    BY <1>16 DEF RecordFallback, Observe, Created, TypeOK
  <2> QED
    BY <1>1, <2>1, <2>2
<1>17. ASSUME NEW w \in Workers, NEW x \in Experiments, RecordResponse(w, x) PROVE Ended(e)'
  <2>1. /\ UNCHANGED exp /\ pc'[w] # "create_exp" /\ \A v \in Workers \ {w} : UNCHANGED <<pc[v], tgt[v]>>
    BY <1>17 DEF RecordResponse, Observe, Hold, Goto, Set, TypeOK
  <2>2. Created(e)' = Created(e)
    BY <1>17 DEF RecordResponse, Observe, Created, TypeOK
  <2> QED
    BY <1>1, <2>1, <2>2
<1>18. CASE UNCHANGED vars
  BY <1>1, <1>18 DEF vars, locals, Created
<1>19. ASSUME NEW w \in Workers, Step(w) PROVE Ended(e)'
  <2>1. CASE PlainStep(w) /\ UNCHANGED exp
    <3>1. pc'[w] # "create_exp"
      BY <2>1 DEF PlainStep, CreatePC
    <3> QED
      BY <1>6, <2>1, <3>1
  <2>2. ASSUME \/ SweepKeys(w) \/ SweepEnd(w) \/ ListKeys(w) \/ ListEnd(w) \/ Reject(w) \/ Admit(w)
               \/ Respond(w) \/ RespondEnd(w) \/ StopEnd(w) \/ ShowExperiment(w)
               \/ \E x \in Experiments : ListGet(w, x) \/ StopGet(w, x)
        PROVE  Ended(e)'
    <3>1. UNCHANGED exp
      BY <2>2 DEF SweepKeys, SweepEnd, ListKeys, ListEnd, Reject, Admit, Respond, RespondEnd, StopEnd,
         ShowExperiment, ListGet, StopGet, EndLoop
    <3> QED
      BY <2>1, <2>2, <3>1, PlainSteps
  <2> QED
    BY <1>4, <1>5, <1>7, <1>8, <1>9, <1>10, <1>11, <1>12, <1>13, <1>14, <1>15, <1>16, <1>17, <1>19, <2>2 DEF Step
<1> QED
  BY <1>2, <1>3, <1>18, <1>19 DEF Next

\* A call puts itself under no ended experiment: it starts with none, and the
\* list gives it only running ones.
LEMMA OffStep ==
  OffInv /\ TypeOK /\ TargetKnown /\ [Next]_vars => OffInv'
<1> SUFFICES ASSUME OffInv, TypeOK, TargetKnown, [Next]_vars PROVE OffInv'
  OBVIOUS
<1>1. \A w \in Workers : \A e \in ended[w] : Ended(e)'
  BY EndedForGood DEF OffInv, TypeOK
<1>2. CASE UNCHANGED <<op, matched, ended>>
  BY <1>1, <1>2 DEF OffInv
<1>3. ASSUME NEW w \in Workers, Arrive(w) PROVE OffInv'
  <2>1. PICK o, m, l : Begin(w, o, m, l) /\ (o = "request" => m = {})
    <3>1. ASSUME NEW e \in Experiments, BeginCreate(w, e) \/ BeginStop(w, e) \/ BeginSweep(w, "show", {e})
          PROVE  \/ Begin(w, "create", {e}, "create_exp") \/ Begin(w, "stop", {e}, "stop")
                 \/ Begin(w, "show", {e}, "sweep_keys")
      BY <3>1 DEF BeginCreate, BeginStop, BeginSweep
    <3>2. \/ Begin(w, "stop_all", {}, "list_keys") \/ Begin(w, "request", {}, "sweep_keys")
          \/ Begin(w, "list", {}, "sweep_keys")
          \/ \E e \in Experiments :
               \/ Begin(w, "create", {e}, "create_exp") \/ Begin(w, "stop", {e}, "stop")
               \/ Begin(w, "show", {e}, "sweep_keys")
      BY <1>3, <3>1 DEF Arrive, BeginStopAll, BeginSweep
    <3>3. "stop" # "request" /\ "create" # "request" /\ "show" # "request"
      OBVIOUS
    <3> QED
      BY <3>2, <3>3, Zenon
  <2>2. /\ op'[w] = o /\ matched'[w] = m /\ ended'[w] = {e \in Experiments : Ended(e)}
        /\ \A v \in Workers \ {w} : UNCHANGED <<op[v], matched[v], ended[v]>>
    BY <2>1 DEF Begin, Set, TypeOK
  <2>3. \A e \in ended'[w] : Ended(e)'
    BY <2>2, EndedForGood
  <2> QED
    BY <1>1, <2>1, <2>2, <2>3 DEF OffInv
<1>4. ASSUME NEW w \in Workers, NEW e \in Experiments, ListGet(w, e) PROVE OffInv'
  <2>1. CASE UNCHANGED matched
    BY <1>2, <1>4, <2>1 DEF ListGet
  <2>2. CASE Active(e) /\ matched' = Set(matched, w, matched[w] \union {e})
    <3>1. e \notin ended[w]
      BY <2>2 DEF OffInv, Active, Ended, Running
    <3>2. /\ UNCHANGED <<op, ended>> /\ matched'[w] = matched[w] \union {e}
          /\ \A v \in Workers \ {w} : UNCHANGED matched[v]
      BY <1>4, <2>2 DEF ListGet, Set, TypeOK
    <3> QED
      BY <1>1, <3>1, <3>2 DEF OffInv
  <2> QED
    BY <1>4, <2>1, <2>2 DEF ListGet
<1>5. ASSUME NEW w \in Workers, Step(w) PROVE UNCHANGED <<op, ended>>
  BY <1>5 DEF Step, SaveReport, CreateExperiment, CreateReport, RecordCreated, SweepKeys, SweepEnd,
     ListKeys, ListEnd, Reject, Admit, Respond, RespondEnd, StopSave, RecordRecovered, StopEnd,
     ShowExperiment, ShowReport, ShowCheck, SweepGet, ListGet, InjectDelay, InjectRaise,
     RecordFallback, RecordResponse, StopGet, EndLoop, locals
<1>6. ASSUME NEW w \in Workers, Step(w), ~\E e \in Experiments : ListGet(w, e)
      PROVE  UNCHANGED matched
  BY <1>6 DEF Step, SaveReport, CreateExperiment, CreateReport, RecordCreated, SweepKeys, SweepEnd,
     ListKeys, ListEnd, Reject, Admit, Respond, RespondEnd, StopSave, RecordRecovered, StopEnd,
     ShowExperiment, ShowReport, ShowCheck, SweepGet, InjectDelay, InjectRaise,
     RecordFallback, RecordResponse, StopGet, EndLoop, locals
<1>7. CASE Tick \/ UNCHANGED vars
  BY <1>2, <1>7 DEF Tick, vars, locals
<1> QED
  BY <1>2, <1>3, <1>4, <1>5, <1>6, <1>7 DEF Next

\* At first nothing was created, and nobody is at work.
LEMMA GaugeStart == Init => GaugeInv /\ OffInv
<1> SUFFICES ASSUME Init PROVE GaugeInv /\ OffInv
  OBVIOUS
<1>1. /\ \A e \in Experiments : seen[e]["created"] = 0 /\ gauge[e] = 0 /\ report[e] = NoReport
      /\ \A w \in Workers : pc[w] = "new" /\ ended[w] = {}
  BY DEF Init, Counters
<1>2. \A w \in Workers, e \in Experiments : Busy(w, e) = "idle"
  BY <1>1 DEF Busy, CreatePC
<1>3. \A e \in Experiments : GaugeFor(e)
  BY <1>1, <1>2 DEF GaugeFor, OneCreator, EarlyClean, LoneSaver, NoReport, CreatePC
<1> QED
  BY <1>1, <1>3 DEF GaugeInv, OffInv

\* The two invariants hold of every behaviour.
LEMMA GaugeAndOff == Spec => [](GaugeInv /\ OffInv)
<1>1. IInv => TypeOK /\ TargetKnown
  BY DEF IInv
<1>2. (GaugeInv /\ OffInv) /\ IInv /\ [Next]_vars => (GaugeInv /\ OffInv)'
  BY <1>1, GaugeStep, OffStep
<1> QED
  BY <1>2, GaugeStart, InductiveInvariant, PTL DEF Spec

\* The gauge counts a created experiment exactly once until a stop or a sweep
\* settles it, as long as the writers of its report do not overlap.
THEOREM ChaosGaugeAccurate == Spec => []GaugeAccurate
<1>1. GaugeInv => GaugeAccurate
  <2> SUFFICES ASSUME GaugeInv, NEW e \in Experiments \ excused, report[e].live, Quiet(e)
               PROVE  gauge[e] = IF report[e].recovered THEN 0 ELSE 1
    BY DEF GaugeAccurate
  <2>1. Settled(e) /\ ~Uncounted(e)
    BY DEF Quiet, Settled, Uncounted, Busy, CreatePC
  <2>2. gauge[e] = Expected(report[e], e)
    BY <2>1 DEF GaugeInv, GaugeFor
  <2> QED
    BY <2>1, <2>2 DEF Expected
<1> QED
  BY <1>1, GaugeAndOff, PTL

\* No request that arrives after an experiment has been stopped or has expired
\* is put under it.
THEOREM ChaosEndedStaysOff == Spec => []EndedStaysOff
<1>1. OffInv => EndedStaysOff
  BY DEF OffInv, EndedStaysOff
<1> QED
  BY <1>1, GaugeAndOff, PTL
=============================================================================
