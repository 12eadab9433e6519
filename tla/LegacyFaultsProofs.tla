-------------------------- MODULE LegacyFaultsProofs --------------------------
(***************************************************************************)
(* Proofs about LegacyFaults for any number of workers, experiments and    *)
(* fault types and any durations.                                          *)
(***************************************************************************)
EXTENDS LegacyFaults, TLAPS

Docs == [state : {"absent", "running", "stopped"}, type : FaultTypes,
         legacy : BOOLEAN, ends : Nat, span : Nat]

\* The document c is that of the same experiment as d.
SameDoc(c, d) == c.type = d.type /\ c.legacy = d.legacy /\ c.span = d.span

\* An id that was given to an experiment keeps its duration for good.
Used(e) == experiment[e].span > 0

Points == {"idle", "inj_experiment", "inj_record", "clear_delete", "list", "stop", "get_fault"}

LocalsOK ==
  /\ clock \in 0 .. FaultClockEnd /\ record \in [FaultTypes -> Nat]
  /\ at \in [FaultWorkers -> Points]
  /\ about \in [FaultWorkers -> SUBSET FaultTypes] /\ span \in [FaultWorkers -> Nat]
  /\ pending \in [FaultWorkers -> SUBSET FaultIds] /\ reach \in [FaultWorkers -> SUBSET FaultIds]
  /\ gone \subseteq FaultIds /\ cut \subseteq FaultTypes
DocsOK == experiment \in [FaultIds -> Docs]

\* An injection is about one type and has a positive duration.
InjectInv ==
  \A w \in FaultWorkers : at[w] \in {"inj_experiment", "inj_record"} =>
    span[w] > 0 /\ \E t \in FaultTypes : about[w] = {t}

UsedInv == \A e \in FaultIds : IsRunning(e) \/ experiment[e].legacy => Used(e)

\* No running experiment outlives its duration.
EndsInv == \A e \in FaultIds : IsRunning(e) => experiment[e].ends <= clock + experiment[e].span

\* What a clear has to end was running when it began, is of its types, and is
\* on its list once the list is made unless it has ended.
ReachOK(w, e) ==
  /\ Used(e) /\ experiment[e].type \in about[w]
  /\ at[w] \in {"clear_delete", "list", "stop"}
  /\ at[w] = "stop" /\ IsRunning(e) => e \in pending[w]
ReachInv == \A w \in FaultWorkers : \A e \in reach[w] : ReachOK(w, e)

\* An injection that has yet to write its record has created its experiment.
InjectedInv ==
  \A w \in FaultWorkers : at[w] = "inj_record" =>
    \E f \in FaultIds : /\ experiment[f].legacy /\ experiment[f].type \in about[w]
                        /\ experiment[f].span = span[w]

\* The worker w is about to write the record of e, or to stop e.
Mends(w, e) ==
  /\ experiment[e].type \in about[w]
  /\ at[w] \in {"inj_record", "list"} \/ (at[w] = "stop" /\ e \in pending[w])

\* A legacy fault that must have its record.
Exposed(e) == /\ IsRunning(e) /\ experiment[e].legacy
              /\ experiment[e].type \notin cut /\ ~Uneven(experiment[e].type)

Covered(e) == record[experiment[e].type] >= experiment[e].ends
CoverInv == \A e \in FaultIds :
              Exposed(e) => Covered(e) \/ \E w \in FaultWorkers : Mends(w, e)

\* What a finished clear had to end has ended.
GoneInv == \A e \in gone : Used(e) /\ ~IsRunning(e)

\* No step gives an id away twice or starts an experiment again.
DocsGrow ==
  \A e \in FaultIds : Used(e) =>
    SameDoc(experiment'[e], experiment[e]) /\ (IsRunning(e)' => experiment'[e] = experiment[e])

-----------------------------------------------------------------------------
(* What the commands do to the documents *)

\* A document is created under a fresh id.
LEMMA NewFacts ==
  ASSUME experiment \in [FaultIds -> Docs], clock \in Nat,
         NEW e \in FaultIds, NEW t \in FaultTypes, NEW legacy \in BOOLEAN, NEW d \in Nat,
         experiment' = [experiment EXCEPT ![e] =
           [state |-> "running", type |-> t, legacy |-> legacy, ends |-> clock + d, span |-> d]]
  PROVE  /\ experiment' \in [FaultIds -> Docs]
         /\ experiment'[e] = [state |-> "running", type |-> t, legacy |-> legacy,
                              ends |-> clock + d, span |-> d]
         /\ \A f \in FaultIds : f # e => experiment'[f] = experiment[f]
<1> DEFINE doc == [state |-> "running", type |-> t, legacy |-> legacy, ends |-> clock + d, span |-> d]
<1>1. doc \in Docs
  BY DEF Docs
<1> HIDE DEF doc
<1>2. experiment' = [experiment EXCEPT ![e] = doc]
  BY DEF doc
<1>3. /\ experiment' \in [FaultIds -> Docs] /\ experiment'[e] = doc
      /\ \A f \in FaultIds : f # e => experiment'[f] = experiment[f]
  BY <1>1, <1>2
<1> QED
  BY <1>3 DEF doc

\* A document is stopped.
LEMMA StopFacts ==
  ASSUME experiment \in [FaultIds -> Docs], NEW e \in FaultIds,
         experiment' = [experiment EXCEPT ![e].state = "stopped", ![e].ends = 0]
  PROVE  /\ experiment' \in [FaultIds -> Docs]
         /\ experiment'[e].state = "stopped" /\ SameDoc(experiment'[e], experiment[e])
         /\ \A f \in FaultIds : f # e => experiment'[f] = experiment[f]
<1> DEFINE a == [experiment[e] EXCEPT !.state = "stopped"]
           b == [a EXCEPT !.ends = 0]
<1>0. experiment[e] \in Docs
  OBVIOUS
<1>1. a \in Docs /\ a.state = "stopped" /\ SameDoc(a, experiment[e])
  BY <1>0 DEF Docs, SameDoc
<1>2. b \in Docs /\ b.state = "stopped" /\ SameDoc(b, experiment[e])
  <2> HIDE DEF a
  <2> QED
    BY <1>1 DEF Docs, SameDoc
<1>3. experiment' = [experiment EXCEPT ![e] = b]
  OBVIOUS
<1> HIDE DEF b
<1> QED
  BY <1>2, <1>3

\* A running document whose TTL has ended is dropped.
LEMMA TickFacts ==
  ASSUME experiment \in [FaultIds -> Docs], clock \in Nat, FaultTick
  PROVE  /\ experiment' \in [FaultIds -> Docs]
         /\ \A e \in FaultIds :
              /\ SameDoc(experiment'[e], experiment[e])
              /\ IsRunning(e)' => IsRunning(e) /\ experiment'[e] = experiment[e]
                                  /\ experiment[e].ends > clock'
<1>0. clock' = clock + 1
  BY Zenon DEF FaultTick
<1>1. clock' \in Nat
  BY <1>0
<1>2. experiment' = [e \in FaultIds |-> experiment'[e]]
  BY DEF FaultTick
<1>3. ASSUME NEW e \in FaultIds
      PROVE  /\ experiment'[e] \in Docs /\ SameDoc(experiment'[e], experiment[e])
             /\ IsRunning(e)' => IsRunning(e) /\ experiment'[e] = experiment[e]
                                 /\ experiment[e].ends > clock'
  <2>0. experiment[e] \in Docs /\ experiment[e].ends \in Nat
    BY DEF Docs
  <2>1. CASE IsRunning(e) /\ experiment[e].ends <= clock'
    <3> DEFINE a == [experiment[e] EXCEPT !.state = "absent"]
               b == [a EXCEPT !.ends = 0]
    <3>1. a \in Docs /\ a.state = "absent" /\ SameDoc(a, experiment[e])
      BY <2>0 DEF Docs, SameDoc
    <3>2. b \in Docs /\ b.state = "absent" /\ SameDoc(b, experiment[e])
      <4> HIDE DEF a
      <4> QED
        BY <3>1 DEF Docs, SameDoc
    <3>3. experiment'[e] = b
      BY <2>1 DEF FaultTick
    <3> HIDE DEF b
    <3> QED
      BY <3>2, <3>3 DEF IsRunning
  <2>2. CASE ~(IsRunning(e) /\ experiment[e].ends <= clock')
    <3>1. experiment'[e] = experiment[e]
      BY <2>2 DEF FaultTick
    <3>2. IsRunning(e) => experiment[e].ends > clock'
      BY <1>1, <2>0, <2>2
    <3> QED
      BY <2>0, <3>1, <3>2 DEF IsRunning, SameDoc
  <2> QED
    BY <2>1, <2>2
<1> QED
  BY <1>2, <1>3

-----------------------------------------------------------------------------
(* Types *)

\* The placeholder of an unused id has the shape of a document.
LEMMA AbsentIsDoc == Absent \in Docs /\ Absent.span = 0 /\ Absent.state = "absent"
  BY FaultAssumption DEF Absent, Docs

\* Every step keeps the types of clock, records and locals, and what is known
\* of an injection under way.
LEMMA LocalsStep ==
  ASSUME LocalsOK, InjectInv, [FaultNext]_faultVars
  PROVE  LocalsOK' /\ InjectInv'
<1> USE FaultAssumption DEF Points
<1>1. ASSUME NEW w \in FaultWorkers, BeginInject(w) PROVE LocalsOK' /\ InjectInv'
  BY <1>1 DEF BeginInject, Enter, LocalsOK, InjectInv
<1>2. ASSUME NEW w \in FaultWorkers, InjectExperiment(w) PROVE LocalsOK' /\ InjectInv'
  BY <1>2 DEF InjectExperiment, Advance, LocalsOK, InjectInv
<1>3. ASSUME NEW w \in FaultWorkers, InjectRecord(w) PROVE LocalsOK' /\ InjectInv'
  <2>1. PICK t \in FaultTypes : about[w] = {t}
    BY <1>3 DEF InjectRecord, InjectInv
  <2>2. record' = [record EXCEPT ![t] = clock + span[w]]
    BY <1>3, <2>1 DEF InjectRecord
  <2>3. record' \in [FaultTypes -> Nat]
    BY <2>2 DEF LocalsOK
  <2> QED
    BY <1>3, <2>3 DEF InjectRecord, Leave, LocalsOK, InjectInv
<1>4. ASSUME NEW w \in FaultWorkers, NewExperiment(w) \/ StopById(w) PROVE LocalsOK' /\ InjectInv'
  BY <1>4 DEF NewExperiment, StopById, faultLocals, LocalsOK, InjectInv
<1>5. ASSUME NEW w \in FaultWorkers, BeginClear(w) PROVE LocalsOK' /\ InjectInv'
  <2>1. PICK types \in SUBSET FaultTypes : Enter(w, "clear_delete", types, 0, OfTypes(types))
    BY <1>5 DEF BeginClear
  <2>2. OfTypes(types) \subseteq FaultIds
    BY DEF OfTypes
  <2> QED
    BY <1>5, <2>1, <2>2 DEF BeginClear, Enter, LocalsOK, InjectInv
<1>6. ASSUME NEW w \in FaultWorkers, ClearDelete(w) PROVE LocalsOK' /\ InjectInv'
  BY <1>6 DEF ClearDelete, Advance, LocalsOK, InjectInv
<1>7. ASSUME NEW w \in FaultWorkers, ListToStop(w) PROVE LocalsOK' /\ InjectInv'
  <2>1. OfTypes(about[w]) \subseteq FaultIds
    BY DEF OfTypes
  <2> QED
    BY <1>7, <2>1 DEF ListToStop, Advance, LocalsOK, InjectInv
<1>8. ASSUME NEW w \in FaultWorkers, StopOne(w) PROVE LocalsOK' /\ InjectInv'
  BY <1>8 DEF StopOne, LocalsOK, InjectInv
<1>9. ASSUME NEW w \in FaultWorkers, StopsDone(w) PROVE LocalsOK' /\ InjectInv'
  BY <1>9 DEF StopsDone, Leave, LocalsOK, InjectInv
<1>10. ASSUME NEW w \in FaultWorkers, RequestHitsFault(w) PROVE LocalsOK' /\ InjectInv'
  BY <1>10 DEF RequestHitsFault, Enter, LocalsOK, InjectInv
<1>11. ASSUME NEW w \in FaultWorkers, GetFault(w) PROVE LocalsOK' /\ InjectInv'
  <2>1. CASE Leave(w)
    BY <1>11, <2>1 DEF GetFault, Leave, LocalsOK, InjectInv
  <2>2. CASE Advance(w, "list") /\ UNCHANGED pending
    BY <1>11, <2>2 DEF GetFault, Advance, LocalsOK, InjectInv
  <2> QED
    BY <1>11, <2>1, <2>2 DEF GetFault
<1>12. ASSUME NEW w \in FaultWorkers, FaultCrash(w) PROVE LocalsOK' /\ InjectInv'
  BY <1>12 DEF FaultCrash, LocalsOK, InjectInv
<1>13. CASE FaultTick
  <2>1. /\ clock < FaultClockEnd /\ clock' = clock + 1
        /\ record' = [t \in FaultTypes |-> IF record[t] <= clock' THEN 0 ELSE record[t]]
        /\ UNCHANGED <<at, about, span, pending, reach, gone, cut>>
    BY <1>13, Zenon DEF FaultTick, faultLocals
  <2> QED
    BY <2>1 DEF LocalsOK, InjectInv
<1>14. CASE UNCHANGED faultVars
  BY <1>14 DEF faultVars, faultLocals, LocalsOK, InjectInv
<1> QED
  BY <1>1, <1>2, <1>3, <1>4, <1>5, <1>6, <1>7, <1>8, <1>9, <1>10, <1>11, <1>12, <1>13, <1>14
     DEF FaultNext, FaultStep

-----------------------------------------------------------------------------
(* The documents *)

\* A command that creates a document.
LEMMA NewStep ==
  ASSUME DocsOK, UsedInv, EndsInv, clock \in Nat, clock' = clock,
         NEW t \in FaultTypes, NEW legacy \in BOOLEAN, NEW d \in Nat \ {0},
         PutExperiment(t, legacy, d)
  PROVE  DocsOK' /\ UsedInv' /\ EndsInv' /\ DocsGrow
<1>1. PICK e \in FaultIds : /\ Fresh(e)
                            /\ experiment' = [experiment EXCEPT ![e] =
                                 [state |-> "running", type |-> t, legacy |-> legacy,
                                  ends |-> clock + d, span |-> d]]
  BY Zenon DEF PutExperiment
<1>2. /\ experiment' \in [FaultIds -> Docs]
      /\ experiment'[e] = [state |-> "running", type |-> t, legacy |-> legacy,
                           ends |-> clock + d, span |-> d]
      /\ \A f \in FaultIds : f # e => experiment'[f] = experiment[f]
  BY <1>1, NewFacts DEF DocsOK
<1>3. ~Used(e)
  BY <1>1, AbsentIsDoc DEF Fresh, Used
<1>4. Used(e)' /\ experiment'[e].ends <= clock' + experiment'[e].span
  BY <1>2 DEF Used
<1> QED
  BY <1>2, <1>3, <1>4 DEF DocsOK, UsedInv, EndsInv, DocsGrow, SameDoc, Used, IsRunning

\* A command that stops a document.
LEMMA StopStep ==
  ASSUME DocsOK, UsedInv, EndsInv, clock' = clock, NEW e \in FaultIds,
         experiment' = [experiment EXCEPT ![e].state = "stopped", ![e].ends = 0]
  PROVE  DocsOK' /\ UsedInv' /\ EndsInv' /\ DocsGrow /\ ~IsRunning(e)'
<1>1. /\ experiment' \in [FaultIds -> Docs]
      /\ experiment'[e].state = "stopped" /\ SameDoc(experiment'[e], experiment[e])
      /\ \A f \in FaultIds : f # e => experiment'[f] = experiment[f]
  BY StopFacts DEF DocsOK
<1> QED
  BY <1>1 DEF DocsOK, UsedInv, EndsInv, DocsGrow, SameDoc, Used, IsRunning

\* A command that writes no document.
LEMMA SameStep ==
  ASSUME DocsOK, UsedInv, EndsInv, experiment' = experiment, clock' = clock
  PROVE  DocsOK' /\ UsedInv' /\ EndsInv' /\ DocsGrow
  BY DEF DocsOK, UsedInv, EndsInv, DocsGrow, SameDoc, Used, IsRunning

\* Every step keeps the documents' types, gives no id twice and starts no
\* experiment again.
LEMMA DocStep ==
  ASSUME LocalsOK, InjectInv, DocsOK, UsedInv, EndsInv, [FaultNext]_faultVars
  PROVE  DocsOK' /\ UsedInv' /\ EndsInv' /\ DocsGrow
<1> DEFINE Goal == DocsOK' /\ UsedInv' /\ EndsInv' /\ DocsGrow
<1>0. clock \in Nat
  BY FaultAssumption DEF LocalsOK
<1>1. ASSUME NEW w \in FaultWorkers, InjectExperiment(w) PROVE Goal
  <2>1. PICK t \in FaultTypes : about[w] = {t}
    BY <1>1 DEF InjectExperiment, InjectInv
  <2>2. span[w] \in Nat \ {0}
    BY <1>1 DEF InjectExperiment, InjectInv, LocalsOK
  <2>3. PutExperiment(t, TRUE, span[w]) /\ clock' = clock
    BY <1>1, <2>1, Zenon DEF InjectExperiment
  <2> QED
    BY <1>0, <2>2, <2>3, NewStep
<1>2. ASSUME NEW w \in FaultWorkers, NewExperiment(w) PROVE Goal
  <2>1. PICK t \in FaultTypes, d \in Durations : PutExperiment(t, FALSE, d)
    BY <1>2, Zenon DEF NewExperiment
  <2>2. d \in Nat \ {0} /\ clock' = clock
    BY <1>2, FaultAssumption DEF NewExperiment
  <2> QED
    BY <1>0, <2>1, <2>2, NewStep
<1>3. ASSUME NEW w \in FaultWorkers, StopById(w) PROVE Goal
  <2>1. PICK e \in FaultIds :
          experiment' = [experiment EXCEPT ![e].state = "stopped", ![e].ends = 0]
    BY <1>3, Zenon DEF StopById
  <2>2. clock' = clock
    BY <1>3, Zenon DEF StopById
  <2> QED
    BY <2>1, <2>2, StopStep
<1>4. ASSUME NEW w \in FaultWorkers, StopOne(w) PROVE Goal
  <2>1. PICK e \in pending[w] :
          experiment' = IF experiment[e].state = "absent" THEN experiment
                        ELSE [experiment EXCEPT ![e].state = "stopped", ![e].ends = 0]
    BY <1>4, Zenon DEF StopOne
  <2>2. e \in FaultIds
    BY DEF LocalsOK
  <2>3. clock' = clock
    BY <1>4, Zenon DEF StopOne
  <2>4. CASE experiment[e].state = "absent"
    BY <2>1, <2>3, <2>4, SameStep
  <2>5. CASE experiment[e].state # "absent"
    BY <2>1, <2>2, <2>3, <2>5, StopStep
  <2> QED
    BY <2>4, <2>5
<1>5. CASE FaultTick
  <2>1. clock' = clock + 1
    BY <1>5, Zenon DEF FaultTick
  <2>2. /\ experiment' \in [FaultIds -> Docs]
        /\ \A e \in FaultIds :
             /\ SameDoc(experiment'[e], experiment[e])
             /\ IsRunning(e)' => IsRunning(e) /\ experiment'[e] = experiment[e]
    BY <1>0, <1>5, TickFacts DEF DocsOK
  <2>3. DocsOK' /\ UsedInv' /\ DocsGrow
    BY <2>2 DEF DocsOK, UsedInv, DocsGrow, SameDoc, Used, IsRunning
  <2>4. ASSUME NEW e \in FaultIds, IsRunning(e)'
        PROVE  experiment'[e].ends <= clock' + experiment'[e].span
    <3>1. experiment[e].ends \in Nat /\ experiment[e].span \in Nat
      BY DEF DocsOK, Docs
    <3>2. experiment[e].ends <= clock + experiment[e].span
      BY <2>2, <2>4 DEF EndsInv
    <3>3. experiment'[e] = experiment[e]
      BY <2>2, <2>4
    <3> QED
      BY <1>0, <2>1, <3>1, <3>2, <3>3
  <2> QED
    BY <2>3, <2>4 DEF EndsInv
<1>6. ASSUME NEW w \in FaultWorkers,
             \/ BeginInject(w) \/ BeginClear(w) \/ RequestHitsFault(w) \/ InjectRecord(w)
             \/ ClearDelete(w) \/ ListToStop(w) \/ StopsDone(w) \/ GetFault(w) \/ FaultCrash(w)
      PROVE  Goal
  <2>1. experiment' = experiment /\ clock' = clock
    BY <1>6, Zenon DEF BeginInject, BeginClear, RequestHitsFault, InjectRecord, ClearDelete,
                       ListToStop, StopsDone, GetFault, FaultCrash
  <2> QED
    BY <2>1, SameStep
<1>7. CASE UNCHANGED faultVars
  BY <1>7, SameStep DEF faultVars
<1> QED
  BY <1>1, <1>2, <1>3, <1>4, <1>5, <1>6, <1>7 DEF FaultNext, FaultStep

-----------------------------------------------------------------------------
(* Clears *)

\* Every step keeps what is known of a clear under way and of those finished.
LEMMA ReachStep ==
  ASSUME LocalsOK, DocsOK, UsedInv, DocsGrow, ReachInv, GoneInv, [FaultNext]_faultVars
  PROVE  ReachInv' /\ GoneInv'
<1> DEFINE Kept(e) == Used(e)' /\ experiment'[e].type = experiment[e].type
                      /\ (IsRunning(e)' => IsRunning(e))
<1>1. \A e \in FaultIds : Used(e) => Kept(e)
  BY DEF DocsGrow, SameDoc, Used, IsRunning
<1>2. ASSUME NEW w \in FaultWorkers, NEW e \in reach[w] PROVE e \in FaultIds
  BY DEF LocalsOK
<1>3. ASSUME NEW e \in gone PROVE e \in FaultIds
  BY DEF LocalsOK
<1> HIDE DEF Kept
<1>4. ASSUME UNCHANGED gone PROVE GoneInv'
  BY <1>1, <1>3, <1>4 DEF GoneInv, Kept
<1>5. ASSUME NEW v \in FaultWorkers, reach'[v] = reach[v], at'[v] = at[v], about'[v] = about[v],
             pending'[v] = pending[v], NEW e \in reach'[v]
      PROVE  ReachOK(v, e)'
  BY <1>1, <1>2, <1>5 DEF ReachInv, ReachOK, Kept
<1>6. ASSUME NEW w \in FaultWorkers,
             \/ BeginInject(w) \/ RequestHitsFault(w) \/ FaultCrash(w)
      PROVE  ReachInv' /\ GoneInv'
  <2>1. UNCHANGED gone /\ reach' = [reach EXCEPT ![w] = {}]
    BY <1>6 DEF BeginInject, RequestHitsFault, FaultCrash, Enter
  <2>2. ASSUME NEW v \in FaultWorkers, v # w
        PROVE  reach'[v] = reach[v] /\ at'[v] = at[v] /\ about'[v] = about[v] /\ pending'[v] = pending[v]
    BY <1>6, <2>2 DEF BeginInject, RequestHitsFault, FaultCrash, Enter, LocalsOK
  <2>3. reach'[w] = {}
    BY <2>1 DEF LocalsOK
  <2> QED
    BY <1>4, <1>5, <2>1, <2>2, <2>3 DEF ReachInv
<1>7. ASSUME NEW w \in FaultWorkers, NewExperiment(w) \/ StopById(w) PROVE ReachInv' /\ GoneInv'
  <2>1. UNCHANGED <<gone, at, about, reach, pending>>
    BY <1>7, Zenon DEF NewExperiment, StopById, faultLocals
  <2> QED
    BY <1>4, <1>5, <2>1 DEF ReachInv
<1>8. CASE FaultTick
  <2>1. UNCHANGED <<gone, at, about, reach, pending>>
    BY <1>8, Zenon DEF FaultTick, faultLocals
  <2> QED
    BY <1>4, <1>5, <2>1 DEF ReachInv
<1>9. CASE UNCHANGED faultVars
  <2>1. UNCHANGED <<gone, at, about, reach, pending>>
    BY <1>9, Zenon DEF faultVars, faultLocals
  <2> QED
    BY <1>4, <1>5, <2>1 DEF ReachInv
<1>10. ASSUME NEW w \in FaultWorkers, BeginClear(w) PROVE ReachInv' /\ GoneInv'
  <2>1. PICK types \in SUBSET FaultTypes : Enter(w, "clear_delete", types, 0, OfTypes(types))
    BY <1>10 DEF BeginClear
  <2>2. UNCHANGED <<gone, experiment>>
    BY <1>10 DEF BeginClear
  <2>3. /\ reach'[w] = OfTypes(types) /\ about'[w] = types /\ at'[w] = "clear_delete"
        /\ \A v \in FaultWorkers : v # w =>
              reach'[v] = reach[v] /\ at'[v] = at[v] /\ about'[v] = about[v] /\ pending'[v] = pending[v]
    BY <2>1 DEF Enter, LocalsOK
  <2>4. \A e \in reach'[w] : ReachOK(w, e)'
    BY <2>2, <2>3 DEF OfTypes, UsedInv, Used, ReachOK
  <2> QED
    BY <1>4, <1>5, <2>2, <2>3, <2>4 DEF ReachInv
<1>11. ASSUME NEW w \in FaultWorkers, InjectRecord(w) \/ (GetFault(w) /\ Leave(w)) \/ StopsDone(w)
       PROVE  ReachInv' /\ GoneInv'
  <2>1. Leave(w)
    BY <1>11 DEF InjectRecord, StopsDone
  <2>2. /\ reach'[w] = {}
        /\ \A v \in FaultWorkers : v # w =>
              reach'[v] = reach[v] /\ at'[v] = at[v] /\ about'[v] = about[v] /\ pending'[v] = pending[v]
    BY <2>1 DEF Leave, LocalsOK
  <2>3. ReachInv'
    BY <1>5, <2>2 DEF ReachInv
  <2>4. \A e \in reach[w] : Used(e) /\ ~IsRunning(e)
    BY <1>11 DEF ReachInv, ReachOK, InjectRecord, GetFault, StopsDone
  <2>5. gone' = gone \union reach[w]
    BY <2>1 DEF Leave
  <2> QED
    BY <1>1, <1>2, <1>3, <2>3, <2>4, <2>5 DEF GoneInv, Kept
<1>12. ASSUME NEW w \in FaultWorkers, InjectExperiment(w) \/ (GetFault(w) /\ Advance(w, "list"))
       PROVE  ReachInv' /\ GoneInv'
  <2>1. UNCHANGED <<gone, about, reach>>
    BY <1>12, Zenon DEF InjectExperiment, Advance
  <2>2. reach[w] = {}
    BY <1>12 DEF InjectExperiment, GetFault, ReachInv, ReachOK
  <2>3. \E label : at' = [at EXCEPT ![w] = label]
    BY <1>12, Zenon DEF InjectExperiment, Advance
  <2>4. UNCHANGED pending
    BY <1>12 DEF InjectExperiment, GetFault, Leave, Advance, LocalsOK
  <2> QED
    BY <1>4, <1>5, <2>1, <2>2, <2>3, <2>4 DEF ReachInv, LocalsOK
<1>13. ASSUME NEW w \in FaultWorkers, ClearDelete(w) PROVE ReachInv' /\ GoneInv'
  <2>1. UNCHANGED <<gone, about, reach, pending>> /\ at' = [at EXCEPT ![w] = "list"]
    BY <1>13, Zenon DEF ClearDelete, Advance
  <2>2. at'[w] = "list" /\ \A v \in FaultWorkers : v # w => at'[v] = at[v]
    BY <2>1 DEF LocalsOK
  <2>3. \A e \in reach'[w] : ReachOK(w, e)'
    BY <1>1, <1>2, <2>1, <2>2 DEF ReachInv, ReachOK, Kept
  <2> QED
    BY <1>4, <1>5, <2>1, <2>2, <2>3 DEF ReachInv
<1>14. ASSUME NEW w \in FaultWorkers, ListToStop(w) PROVE ReachInv' /\ GoneInv'
  <2>1. /\ UNCHANGED <<gone, about, reach>> /\ at' = [at EXCEPT ![w] = "stop"]
        /\ pending' = [pending EXCEPT ![w] = OfTypes(about[w])]
    BY <1>14, Zenon DEF ListToStop, Advance
  <2>2. /\ at'[w] = "stop" /\ pending'[w] = OfTypes(about[w])
        /\ \A v \in FaultWorkers : v # w => at'[v] = at[v] /\ pending'[v] = pending[v]
    BY <2>1 DEF LocalsOK
  <2>3. \A e \in reach'[w] : ReachOK(w, e)'
    BY <1>1, <1>2, <2>1, <2>2 DEF ReachInv, ReachOK, Kept, OfTypes
  <2>4. ASSUME NEW v \in FaultWorkers, v # w, NEW f \in reach'[v]
        PROVE  ReachOK(v, f)'
    BY <1>5, <2>1, <2>2, <2>4
  <2>5. ReachInv'
    BY <2>1, <2>2, <2>3, <2>4 DEF ReachInv
  <2> QED
    BY <1>4, <2>1, <2>2, <2>5
<1>15. ASSUME NEW w \in FaultWorkers, StopOne(w) PROVE ReachInv' /\ GoneInv'
  <2>1. PICK e \in pending[w] :
          /\ pending' = [pending EXCEPT ![w] = @ \ {e}]
          /\ experiment' = IF experiment[e].state = "absent" THEN experiment
                           ELSE [experiment EXCEPT ![e].state = "stopped", ![e].ends = 0]
    BY <1>15, Zenon DEF StopOne
  <2>2. UNCHANGED <<at, about, reach, gone>> /\ at[w] = "stop"
    BY <1>15, Zenon DEF StopOne
  <2>3. e \in FaultIds
    BY DEF LocalsOK
  <2>4. ~IsRunning(e)'
    BY <2>1, <2>3, StopFacts DEF DocsOK, IsRunning
  <2>5. /\ pending'[w] = pending[w] \ {e}
        /\ \A v \in FaultWorkers : v # w => pending'[v] = pending[v]
    BY <2>1 DEF LocalsOK
  <2>6. \A f \in reach'[w] : ReachOK(w, f)'
    BY <1>1, <1>2, <2>2, <2>4, <2>5 DEF ReachInv, ReachOK, Kept
  <2>7. ASSUME NEW v \in FaultWorkers, v # w, NEW f \in reach'[v]
        PROVE  ReachOK(v, f)'
    BY <1>5, <2>2, <2>5, <2>7
  <2>8. ReachInv'
    BY <2>2, <2>5, <2>6, <2>7 DEF ReachInv
  <2> QED
    BY <1>4, <2>2, <2>5, <2>8
<1>16. ASSUME NEW w \in FaultWorkers, GetFault(w) PROVE Leave(w) \/ Advance(w, "list")
  BY <1>16 DEF GetFault
<1> QED
  BY <1>6, <1>7, <1>8, <1>9, <1>10, <1>11, <1>12, <1>13, <1>14, <1>15, <1>16
     DEF FaultNext, FaultStep

-----------------------------------------------------------------------------
(* Records *)

\* Every step keeps the experiment that an injection under way has created.
LEMMA InjectedStep ==
  ASSUME LocalsOK, InjectInv, DocsOK, UsedInv, DocsGrow, InjectedInv, [FaultNext]_faultVars
  PROVE  InjectedInv'
<1> DEFINE Wrote(v) == \E f \in FaultIds : /\ experiment[f].legacy
                                           /\ experiment[f].type \in about[v]
                                           /\ experiment[f].span = span[v]
<1>1. ASSUME NEW v \in FaultWorkers, at[v] = "inj_record", about'[v] = about[v], span'[v] = span[v]
      PROVE  Wrote(v)'
  <2>1. PICK f \in FaultIds : /\ experiment[f].legacy /\ experiment[f].type \in about[v]
                              /\ experiment[f].span = span[v]
    BY <1>1 DEF InjectedInv
  <2>2. SameDoc(experiment'[f], experiment[f])
    BY <2>1 DEF UsedInv, DocsGrow
  <2> QED
    BY <1>1, <2>1, <2>2 DEF SameDoc
<1>2. ASSUME NEW v \in FaultWorkers, at'[v] = "inj_record" PROVE Wrote(v)'
  <2>1. CASE at[v] = "inj_record" /\ about'[v] = about[v] /\ span'[v] = span[v]
    BY <1>1, <2>1
  <2>2. CASE InjectExperiment(v)
    <3>1. PICK t \in FaultTypes : about[v] = {t}
      BY <2>2 DEF InjectExperiment, InjectInv
    <3>2. PutExperiment(t, TRUE, span[v]) /\ about' = about /\ span' = span
      BY <2>2, <3>1, Zenon DEF InjectExperiment, Advance
    <3>3. PICK e \in FaultIds :
            experiment' = [experiment EXCEPT ![e] =
              [state |-> "running", type |-> t, legacy |-> TRUE, ends |-> clock + span[v],
               span |-> span[v]]]
      BY <3>2, Zenon DEF PutExperiment
    <3>4. clock \in Nat /\ span[v] \in Nat
      BY FaultAssumption DEF LocalsOK
    <3>5. experiment'[e] = [state |-> "running", type |-> t, legacy |-> TRUE,
                            ends |-> clock + span[v], span |-> span[v]]
      BY <3>3, <3>4, NewFacts DEF DocsOK
    <3>6. experiment'[e].legacy /\ experiment'[e].type \in about'[v] /\ experiment'[e].span = span'[v]
      BY <3>1, <3>2, <3>5
    <3> QED
      BY <3>6
  <2> HIDE DEF Wrote
  <2>3. ASSUME NEW w \in FaultWorkers,
               \/ BeginInject(w) \/ BeginClear(w) \/ RequestHitsFault(w) \/ InjectRecord(w)
               \/ ClearDelete(w) \/ ListToStop(w) \/ StopsDone(w) \/ FaultCrash(w)
               \/ (GetFault(w) /\ (Leave(w) \/ Advance(w, "list")))
        PROVE  at[v] = "inj_record" /\ about'[v] = about[v] /\ span'[v] = span[v]
    BY <1>2, <2>3 DEF BeginInject, BeginClear, RequestHitsFault, InjectRecord, ClearDelete,
         ListToStop, StopsDone, FaultCrash, Enter, Leave, Advance, LocalsOK
  <2>4. ASSUME NEW w \in FaultWorkers, InjectExperiment(w), w # v
        PROVE  at[v] = "inj_record" /\ about'[v] = about[v] /\ span'[v] = span[v]
    <3>1. at' = [at EXCEPT ![w] = "inj_record"] /\ about' = about /\ span' = span
      BY <2>4, Zenon DEF InjectExperiment, Advance
    <3> QED
      BY <1>2, <2>4, <3>1 DEF LocalsOK
  <2>5. ASSUME \/ \E w \in FaultWorkers : NewExperiment(w) \/ StopById(w) \/ StopOne(w)
               \/ FaultTick \/ UNCHANGED faultVars
        PROVE  at[v] = "inj_record" /\ about'[v] = about[v] /\ span'[v] = span[v]
    <3>1. UNCHANGED <<at, about, span>>
      BY <2>5, Zenon DEF NewExperiment, StopById, StopOne, FaultTick, faultVars, faultLocals
    <3> QED
      BY <1>2, <3>1
  <2>6. ASSUME NEW w \in FaultWorkers, GetFault(w) PROVE Leave(w) \/ Advance(w, "list")
    BY <2>6 DEF GetFault
  <2> QED
    BY <2>1, <2>2, <2>3, <2>4, <2>5, <2>6 DEF FaultNext, FaultStep
<1> QED
  BY <1>2 DEF InjectedInv

\* A fault that must have its record after a step and existed before had to
\* have it before.
LEMMA ExposedBefore ==
  ASSUME DocsOK, UsedInv, DocsGrow, cut \subseteq cut',
         NEW e \in FaultIds, Used(e), Exposed(e)'
  PROVE  Exposed(e) /\ experiment'[e] = experiment[e]
<1>1. experiment'[e] = experiment[e]
  BY DEF DocsGrow, Exposed
<1>2. \A f \in FaultIds : experiment[f].legacy => SameDoc(experiment'[f], experiment[f])
  BY DEF UsedInv, DocsGrow
<1>3. \A t : Uneven(t) => Uneven(t)'
  BY <1>2 DEF Uneven, SameDoc
<1>4. ~Uneven(experiment[e].type)' 
  BY <1>1 DEF Exposed
<1> QED
  BY <1>1, <1>3, <1>4 DEF Exposed, IsRunning

\* Only an injection starts a legacy experiment.
LEMMA Born ==
  ASSUME LocalsOK, InjectInv, DocsOK, [FaultNext]_faultVars, NEW e \in FaultIds,
         IsRunning(e)', experiment'[e].legacy, ~IsRunning(e)
  PROVE  \E w \in FaultWorkers : InjectExperiment(w) /\ experiment'[e].type \in about[w]
<1>0. clock \in Nat
  BY FaultAssumption DEF LocalsOK
<1>1. ASSUME NEW w \in FaultWorkers, InjectExperiment(w) PROVE experiment'[e].type \in about[w]
  <2>1. PICK t \in FaultTypes : about[w] = {t}
    BY <1>1 DEF InjectExperiment, InjectInv
  <2>2. PutExperiment(t, TRUE, span[w])
    BY <1>1, <2>1, Zenon DEF InjectExperiment
  <2>3. PICK f \in FaultIds :
          experiment' = [experiment EXCEPT ![f] =
            [state |-> "running", type |-> t, legacy |-> TRUE, ends |-> clock + span[w],
             span |-> span[w]]]
    BY <2>2, Zenon DEF PutExperiment
  <2>4. span[w] \in Nat
    BY DEF LocalsOK
  <2>5. /\ experiment'[f] = [state |-> "running", type |-> t, legacy |-> TRUE,
                             ends |-> clock + span[w], span |-> span[w]]
        /\ \A g \in FaultIds : g # f => experiment'[g] = experiment[g]
    BY <1>0, <2>3, <2>4, NewFacts DEF DocsOK
  <2>6. e = f
    BY <2>5 DEF IsRunning
  <2> QED
    BY <2>1, <2>5, <2>6
<1>2. ASSUME NEW w \in FaultWorkers, NewExperiment(w) PROVE FALSE
  <2>1. PICK t \in FaultTypes, d \in Durations : PutExperiment(t, FALSE, d)
    BY <1>2, Zenon DEF NewExperiment
  <2>2. PICK f \in FaultIds :
          experiment' = [experiment EXCEPT ![f] =
            [state |-> "running", type |-> t, legacy |-> FALSE, ends |-> clock + d, span |-> d]]
    BY <2>1, Zenon DEF PutExperiment
  <2>3. d \in Nat
    BY FaultAssumption
  <2>4. /\ experiment'[f] = [state |-> "running", type |-> t, legacy |-> FALSE,
                             ends |-> clock + d, span |-> d]
        /\ \A g \in FaultIds : g # f => experiment'[g] = experiment[g]
    BY <1>0, <2>2, <2>3, NewFacts DEF DocsOK
  <2> QED
    BY <2>4 DEF IsRunning
<1>3. ASSUME NEW f \in FaultIds,
             experiment' = [experiment EXCEPT ![f].state = "stopped", ![f].ends = 0]
      PROVE  FALSE
  BY <1>3, StopFacts DEF DocsOK, IsRunning
<1>4. ASSUME NEW w \in FaultWorkers, StopById(w) PROVE FALSE
  BY <1>3, <1>4, Zenon DEF StopById
<1>5. experiment' # experiment
  BY DEF IsRunning
<1>6. ASSUME NEW w \in FaultWorkers, StopOne(w) PROVE FALSE
  <2>1. PICK f \in pending[w] :
          experiment' = IF experiment[f].state = "absent" THEN experiment
                        ELSE [experiment EXCEPT ![f].state = "stopped", ![f].ends = 0]
    BY <1>6, Zenon DEF StopOne
  <2>2. f \in FaultIds
    BY DEF LocalsOK
  <2> QED
    BY <1>3, <1>5, <2>1, <2>2, Zenon
<1>7. ~FaultTick
  BY <1>0, TickFacts DEF DocsOK
<1>8. ASSUME NEW w \in FaultWorkers,
             \/ BeginInject(w) \/ BeginClear(w) \/ RequestHitsFault(w) \/ InjectRecord(w)
             \/ ClearDelete(w) \/ ListToStop(w) \/ StopsDone(w) \/ GetFault(w) \/ FaultCrash(w)
      PROVE  FALSE
  BY <1>5, <1>8, Zenon DEF BeginInject, BeginClear, RequestHitsFault, InjectRecord, ClearDelete,
                           ListToStop, StopsDone, GetFault, FaultCrash
<1>9. ~UNCHANGED faultVars
  BY <1>5 DEF faultVars
<1> QED
  BY <1>1, <1>2, <1>4, <1>6, <1>7, <1>8, <1>9 DEF FaultNext, FaultStep

\* A step of w that leaves the record and the other workers alone.
LEMMA CoverKept ==
  ASSUME NEW e \in FaultIds, NEW w \in FaultWorkers, ~Mends(w, e),
         experiment'[e] = experiment[e],
         record'[experiment[e].type] = record[experiment[e].type],
         \A v \in FaultWorkers : v # w => /\ at'[v] = at[v] /\ about'[v] = about[v]
                                          /\ pending'[v] = pending[v],
         Covered(e) \/ \E u \in FaultWorkers : Mends(u, e)
  PROVE  Covered(e)' \/ \E u \in FaultWorkers : Mends(u, e)'
<1>1. CASE Covered(e)
  BY <1>1 DEF Covered
<1>2. ASSUME NEW u \in FaultWorkers, Mends(u, e) PROVE Mends(u, e)'
  BY <1>2 DEF Mends
<1> QED
  BY <1>1, <1>2

\* Every step keeps the record of a fault that must have it, or leaves a
\* worker that will write the record or stop the fault.
LEMMA CoverStep ==
  ASSUME LocalsOK, InjectInv, DocsOK, UsedInv, EndsInv, DocsGrow, InjectedInv, CoverInv,
         [FaultNext]_faultVars
  PROVE  CoverInv'
<1> SUFFICES ASSUME NEW e \in FaultIds, Exposed(e)'
             PROVE  Covered(e)' \/ \E w \in FaultWorkers : Mends(w, e)'
  BY DEF CoverInv
<1> DEFINE t == experiment[e].type
           Good == Covered(e)' \/ \E w \in FaultWorkers : Mends(w, e)'
<1>1. CASE ~IsRunning(e)
  <2>1. PICK w \in FaultWorkers : InjectExperiment(w) /\ experiment'[e].type \in about[w]
    BY <1>1, Born DEF Exposed
  <2>2. at' = [at EXCEPT ![w] = "inj_record"] /\ about' = about
    BY <2>1, Zenon DEF InjectExperiment, Advance
  <2>3. Mends(w, e)'
    BY <2>1, <2>2 DEF Mends, LocalsOK
  <2> QED
    BY <2>3
<1>2. CASE IsRunning(e)
  <2>0. clock \in Nat /\ experiment[e].ends \in Nat /\ experiment[e].span \in Nat /\ t \in FaultTypes
    BY FaultAssumption DEF LocalsOK, DocsOK, Docs
  <2>1. cut \subseteq cut'
    BY DEF FaultNext, FaultStep, BeginInject, NewExperiment, BeginClear, StopById, RequestHitsFault,
           InjectExperiment, InjectRecord, ClearDelete, ListToStop, StopOne, StopsDone, GetFault,
           FaultCrash, FaultTick, faultVars
  <2>2. Exposed(e) /\ experiment'[e] = experiment[e] /\ t \notin cut'
    BY <1>2, <2>1, ExposedBefore DEF UsedInv, Exposed
  <2>3. Covered(e) \/ \E w \in FaultWorkers : Mends(w, e)
    BY <2>2 DEF CoverInv
  <2> HIDE DEF t
  <2>4. ASSUME NEW w \in FaultWorkers, ~Mends(w, e), record'[t] = record[t],
               \A v \in FaultWorkers : v # w => /\ at'[v] = at[v] /\ about'[v] = about[v]
                                                /\ pending'[v] = pending[v]
        PROVE  Good
    BY <2>2, <2>3, <2>4, CoverKept DEF t
  <2>5. ASSUME NEW w \in FaultWorkers,
               \/ BeginInject(w) \/ BeginClear(w) \/ RequestHitsFault(w)
               \/ GetFault(w) /\ (Leave(w) \/ (Advance(w, "list") /\ UNCHANGED pending))
        PROVE  Good
    <3>1. /\ at[w] \in {"idle", "get_fault"} /\ record' = record
          /\ \A v \in FaultWorkers : v # w => /\ at'[v] = at[v] /\ about'[v] = about[v]
                                               /\ pending'[v] = pending[v]
      BY <2>5 DEF BeginInject, BeginClear, RequestHitsFault, GetFault, Enter, Leave, Advance, LocalsOK
    <3> QED
      BY <2>4, <3>1 DEF Mends
  <2>6. ASSUME NEW w \in FaultWorkers, InjectExperiment(w) PROVE Good
    <3>1. /\ at[w] = "inj_experiment" /\ UNCHANGED <<record, about, pending>>
          /\ at' = [at EXCEPT ![w] = "inj_record"]
      BY <2>6, Zenon DEF InjectExperiment, Advance
    <3> QED
      BY <2>4, <3>1 DEF Mends, LocalsOK
  <2>7. ASSUME NEW w \in FaultWorkers, InjectRecord(w) PROVE Good
    <3>1. PICK s \in FaultTypes : about[w] = {s}
      BY <2>7 DEF InjectRecord, InjectInv
    <3>2. record' = [record EXCEPT ![s] = clock + span[w]]
      BY <2>7, <3>1 DEF InjectRecord
    <3>3. CASE s = t
      <4>1. PICK f \in FaultIds : /\ experiment[f].legacy /\ experiment[f].type \in about[w]
                                  /\ experiment[f].span = span[w]
        BY <2>7 DEF InjectRecord, InjectedInv
      <4>2. experiment[f].type = t
        BY <3>1, <3>3, <4>1
      <4>3. experiment[f].span = experiment[e].span
        BY <2>2, <4>1, <4>2 DEF Exposed, Uneven, t
      <4>4. record'[t] = clock + experiment[e].span
        BY <2>0, <3>2, <3>3, <4>1, <4>3 DEF LocalsOK
      <4>5. experiment[e].ends <= clock + experiment[e].span
        BY <1>2 DEF EndsInv
      <4>6. record'[t] >= experiment[e].ends
        BY <2>0, <4>4, <4>5
      <4> QED
        BY <2>2, <4>6 DEF Covered, t
    <3>4. CASE s # t
      <4>1. record'[t] = record[t]
        BY <2>0, <3>2, <3>4 DEF LocalsOK
      <4>2. ~Mends(w, e)
        BY <3>1, <3>4 DEF Mends, t
      <4>3. \A v \in FaultWorkers : v # w => /\ at'[v] = at[v] /\ about'[v] = about[v]
                                             /\ pending'[v] = pending[v]
        BY <2>7 DEF InjectRecord, Leave, LocalsOK
      <4> QED
        BY <2>4, <4>1, <4>2, <4>3
    <3> QED
      BY <3>3, <3>4
  <2>8. ASSUME NEW w \in FaultWorkers, ClearDelete(w) \/ ListToStop(w) PROVE Good
    <3>1. \A v \in FaultWorkers : v # w => /\ at'[v] = at[v] /\ about'[v] = about[v]
                                           /\ pending'[v] = pending[v]
      BY <2>8 DEF ClearDelete, ListToStop, Advance, LocalsOK
    <3>2. CASE t \in about[w]
      <4>1. CASE ClearDelete(w)
        <5>1. at' = [at EXCEPT ![w] = "list"] /\ about' = about
          BY <4>1, Zenon DEF ClearDelete, Advance
        <5>2. Mends(w, e)'
          BY <2>2, <3>2, <5>1 DEF Mends, LocalsOK, t
        <5> QED
          BY <5>2
      <4>2. CASE ListToStop(w)
        <5>1. /\ at' = [at EXCEPT ![w] = "stop"] /\ about' = about
              /\ pending' = [pending EXCEPT ![w] = OfTypes(about[w])]
          BY <4>2, Zenon DEF ListToStop, Advance
        <5>2. e \in OfTypes(about[w])
          BY <1>2, <3>2 DEF OfTypes, t
        <5>3. at'[w] = "stop" /\ about'[w] = about[w] /\ e \in pending'[w]
          BY <5>1, <5>2 DEF LocalsOK
        <5>4. Mends(w, e)'
          BY <2>2, <3>2, <5>3 DEF Mends, t
        <5> QED
          BY <5>4
      <4> QED
        BY <2>8, <4>1, <4>2
    <3>3. CASE t \notin about[w]
      <4>1. ~Mends(w, e)
        BY <3>3 DEF Mends, t
      <4>2. record'[t] = record[t]
        BY <2>0, <2>8, <3>3 DEF ClearDelete, ListToStop
      <4> QED
        BY <2>4, <3>1, <4>1, <4>2
    <3> QED
      BY <3>2, <3>3
  <2>9. ASSUME NEW w \in FaultWorkers, StopsDone(w) \/ FaultCrash(w) PROVE Good
    <3>1. ~Mends(w, e)
      BY <2>2, <2>9 DEF StopsDone, FaultCrash, Mends, t
    <3>2. /\ record' = record
          /\ \A v \in FaultWorkers : v # w => /\ at'[v] = at[v] /\ about'[v] = about[v]
                                               /\ pending'[v] = pending[v]
      BY <2>9 DEF StopsDone, FaultCrash, Leave, LocalsOK
    <3> QED
      BY <2>4, <3>1, <3>2
  <2>10. ASSUME NEW w \in FaultWorkers, StopOne(w) PROVE Good
    <3>1. PICK f \in pending[w] :
            /\ pending' = [pending EXCEPT ![w] = @ \ {f}]
            /\ experiment' = IF experiment[f].state = "absent" THEN experiment
                             ELSE [experiment EXCEPT ![f].state = "stopped", ![f].ends = 0]
      BY <2>10, Zenon DEF StopOne
    <3>2. UNCHANGED <<record, at, about>>
      BY <2>10, Zenon DEF StopOne
    <3>3. f \in FaultIds
      BY DEF LocalsOK
    <3>4. f # e
      <4> SUFFICES ASSUME f = e PROVE FALSE
        OBVIOUS
      <4>1. experiment' = [experiment EXCEPT ![e].state = "stopped", ![e].ends = 0]
        BY <1>2, <3>1 DEF IsRunning
      <4>2. experiment'[e].state = "stopped"
        BY <4>1, StopFacts DEF DocsOK
      <4> QED
        BY <1>2, <2>2, <4>2 DEF IsRunning
    <3>5. \A v \in FaultWorkers : e \in pending[v] => e \in pending'[v]
      BY <3>1, <3>4 DEF LocalsOK
    <3>6. ASSUME NEW v \in FaultWorkers, Mends(v, e) PROVE Mends(v, e)'
      BY <2>2, <3>2, <3>5, <3>6 DEF Mends
    <3>7. Covered(e) => Covered(e)'
      BY <2>2, <3>2 DEF Covered
    <3> QED
      BY <2>3, <3>6, <3>7
  <2>11. ASSUME UNCHANGED <<at, about, pending>>, Covered(e) => Covered(e)' PROVE Good
    <3>1. ASSUME NEW v \in FaultWorkers, Mends(v, e) PROVE Mends(v, e)'
      BY <2>2, <2>11, <3>1 DEF Mends
    <3> QED
      BY <2>3, <2>11, <3>1
  <2>12. ASSUME \/ \E w \in FaultWorkers : NewExperiment(w) \/ StopById(w)
                \/ UNCHANGED faultVars
         PROVE  Good
    <3>1. UNCHANGED <<at, about, pending, record>>
      BY <2>12, Zenon DEF NewExperiment, StopById, faultVars, faultLocals
    <3>2. Covered(e) => Covered(e)'
      BY <2>2, <3>1 DEF Covered
    <3> QED
      BY <2>11, <3>1, <3>2
  <2>13. CASE FaultTick
    <3>1. /\ UNCHANGED <<at, about, pending>> /\ clock' = clock + 1
          /\ record' = [s \in FaultTypes |-> IF record[s] <= clock' THEN 0 ELSE record[s]]
      BY <2>13, Zenon DEF FaultTick, faultLocals
    <3>2. experiment[e].ends > clock'
      BY <2>0, <2>13, TickFacts DEF DocsOK, Exposed
    <3>3. record[t] >= experiment[e].ends => record'[t] >= experiment[e].ends
      BY <2>0, <3>1, <3>2 DEF LocalsOK
    <3>4. Covered(e) => Covered(e)'
      BY <2>2, <3>3 DEF Covered, t
    <3> QED
      BY <2>11, <3>1, <3>4
  <2>14. ASSUME NEW w \in FaultWorkers, GetFault(w)
         PROVE  Leave(w) \/ (Advance(w, "list") /\ UNCHANGED pending)
    BY <2>14 DEF GetFault
  <2> QED
    BY <2>5, <2>6, <2>7, <2>8, <2>9, <2>10, <2>12, <2>13, <2>14 DEF FaultNext, FaultStep
<1> QED
  BY <1>1, <1>2

-----------------------------------------------------------------------------
(* Theorems *)

DocInv == LocalsOK /\ InjectInv /\ DocsOK /\ UsedInv /\ EndsInv

\* The initial state satisfies the invariants.
LEMMA DocInit == FaultInit => DocInv /\ ReachInv /\ GoneInv /\ InjectedInv /\ CoverInv
<1> HAVE FaultInit
<1>1. \A e \in FaultIds : experiment[e] \in Docs /\ ~IsRunning(e) /\ ~experiment[e].legacy
  BY AbsentIsDoc DEF FaultInit, IsRunning, Absent
<1>2. DocsOK /\ UsedInv /\ EndsInv
  BY <1>1 DEF FaultInit, DocsOK, UsedInv, EndsInv
<1> QED
  BY <1>1, <1>2, FaultAssumption DEF FaultInit, DocInv, LocalsOK, InjectInv, Points, ReachInv, GoneInv,
                                     InjectedInv, CoverInv, Exposed

\* The documents, the records and the workers' locals keep their shape.
THEOREM FaultShapes == FaultSpec => []FaultTypeOK
<1>1. DocInv /\ [FaultNext]_faultVars => DocInv'
  BY LocalsStep, DocStep DEF DocInv
<1>2. DocInv => FaultTypeOK
  BY DEF DocInv, LocalsOK, DocsOK, Docs, Points, FaultTypeOK
<1> QED
  BY <1>1, <1>2, DocInit, PTL DEF FaultSpec

\* When /fault/clear or /fault/clear-all has returned, none of the experiments
\* that ran when it began runs again.
THEOREM ClearsHold == FaultSpec => []ClearTakesHold
<1> DEFINE Inv == DocInv /\ ReachInv /\ GoneInv
<1>1. Inv /\ [FaultNext]_faultVars => Inv'
  BY LocalsStep, DocStep, ReachStep DEF DocInv
<1>2. Inv => ClearTakesHold
  BY DEF GoneInv, ClearTakesHold
<1> QED
  BY <1>1, <1>2, DocInit, PTL DEF FaultSpec

\* A running legacy fault has its record, unless a handler for its type is under
\* way or was cut short by a crash, or its type was injected with different
\* durations: so get_fault never ends a fault whose record should be there.
THEOREM RecordsCover == FaultSpec => []RecordCoversFault
<1> DEFINE Inv == DocInv /\ InjectedInv /\ CoverInv
<1>1. Inv /\ [FaultNext]_faultVars => Inv'
  BY LocalsStep, DocStep, InjectedStep, CoverStep DEF DocInv
<1>2. Inv => RecordCoversFault
  <2> SUFFICES ASSUME Inv, NEW e \in FaultIds, IsRunning(e), experiment[e].legacy,
                      ~Busy(experiment[e].type), experiment[e].type \notin cut,
                      ~Uneven(experiment[e].type)
               PROVE  record[experiment[e].type] >= experiment[e].ends
    BY DEF RecordCoversFault
  <2>1. \A w \in FaultWorkers : ~Mends(w, e)
    BY DEF Mends, Busy
  <2> QED
    BY <2>1 DEF CoverInv, Exposed, Covered
<1> QED
  BY <1>1, <1>2, DocInit, PTL DEF FaultSpec
=============================================================================
