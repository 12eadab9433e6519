------------------------- MODULE CircuitBreakerProofs -------------------------
(***************************************************************************)
(* Proofs about CircuitBreaker for every finite set of requests and every  *)
(* rule that passes CircuitBreakerRule.__post_init__.                      *)
(***************************************************************************)
EXTENDS CircuitBreaker, TLAPS

\* Every clock reading a request still carries is in the past.
ClkPast == \A r \in Requests : clk[r] <= now

\* No member of the windows carries a score from the future, and the totals
\* key outlives each of its members by the window and two seconds.
ScoresPast ==
  /\ \A m \in totals : m[2] <= now /\ m[2] + WindowSec + 2 <= totalsExp
  /\ \A m \in failures : m[2] <= now

\* _probe_acquired is unset until admission and set until the key is deleted.
HoldsFits == \A r \in Requests :
  /\ pc[r] \in {"new"} \union AllowPC => ~holds[r]
  /\ pc[r] \in {"close_del", "reopen_del"} => holds[r]

\* While no probe has overrun its TTL, a probe in flight owns the probe key.
ProbeOwned ==
  ~overrun => \A r \in Requests : ProbeInFlight(r) => probeExp # 0 /\ probeOwner = r

\* The bookkeeping of the windows and deadlines, inductive given TypeOK.
TimeInv == ClkPast /\ ScoresPast /\ FreshFailuresCounted /\ OpenDeadlineBounded

-----------------------------------------------------------------------------
\* The breaker's keys and locals keep their types (TypeOK): the type
\* correctness of every step of the breaker.
THEOREM BreakerTypeOK == Spec => []TypeOK
<1> USE RuleAssumption, RequestsAssumption, BoundsAssumption
<1>1. Init => TypeOK
  <2> SUFFICES ASSUME Init PROVE TypeOK
    OBVIOUS
  <2>1. holds \in [Requests -> BOOLEAN] /\ overrun \in BOOLEAN
    BY Zenon DEF Init
  <2>2. pc \in [Requests -> PC]
    BY DEF Init, PC
  <2> QED
    BY <2>1, <2>2 DEF Init, TypeOK
<1>2. TypeOK /\ [Next]_vars => TypeOK'
  <2> SUFFICES ASSUME TypeOK, [Next]_vars PROVE TypeOK'
    OBVIOUS
  <2> USE DEF TypeOK, PC, AllowPC, RecordPC, FinalPC, Goto, ReadClock, redisVars, auxVars
  <2>1. CASE Tick
    <3>1. overrun' \in BOOLEAN
      BY <2>1, Zenon DEF Tick
    <3> QED
      BY <2>1, <3>1 DEF Tick
  <2>2. ASSUME NEW r \in Requests, ReadState(r) PROVE TypeOK'
    BY <2>2 DEF ReadState
  <2>3. ASSUME NEW r \in Requests, GetOpenUntil(r) PROVE TypeOK'
    BY <2>3 DEF GetOpenUntil
  <2>4. ASSUME NEW r \in Requests, GetProbe(r) PROVE TypeOK'
    BY <2>4 DEF GetProbe
  <2>5. ASSUME NEW r \in Requests, TryAcquireProbe(r) PROVE TypeOK'
    <3>1. holds' \in [Requests -> BOOLEAN]
      BY <2>5, Zenon DEF TryAcquireProbe
    <3> QED
      BY <2>5, <3>1 DEF TryAcquireProbe
  <2>6. ASSUME NEW r \in Requests, RecordSuccess(r) PROVE TypeOK'
    BY <2>6 DEF RecordSuccess
  <2>7. ASSUME NEW r \in Requests, RecordFailure(r) PROVE TypeOK'
    BY <2>7 DEF RecordFailure
  <2>8. ASSUME NEW r \in Requests, ReturnUnrecorded(r) PROVE TypeOK'
    BY <2>8 DEF ReturnUnrecorded
  <2>9. ASSUME NEW r \in Requests, CloseDelete(r) PROVE TypeOK'
    BY <2>9 DEF CloseDelete
  <2>10. ASSUME NEW r \in Requests, CloseSet(r) PROVE TypeOK'
    BY <2>10 DEF CloseSet
  <2>11. ASSUME NEW r \in Requests, ReopenDelete(r) PROVE TypeOK'
    BY <2>11 DEF ReopenDelete
  <2>12. ASSUME NEW r \in Requests, ReopenSet(r) PROVE TypeOK'
    BY <2>12 DEF ReopenSet
  <2>13. ASSUME NEW r \in Requests, SnapshotFailures(r) PROVE TypeOK'
    BY <2>13 DEF SnapshotFailures, Purge
  <2>14. ASSUME NEW r \in Requests, SnapshotTotals(r) PROVE TypeOK'
    BY <2>14 DEF SnapshotTotals, Purge
  <2>15. ASSUME NEW r \in Requests, RecordOutcome(r) PROVE TypeOK'
    BY <2>15 DEF RecordOutcome, Purge
  <2>16. ASSUME NEW r \in Requests, Abort(r) PROVE TypeOK'
    BY <2>16 DEF Abort
  <2>17. CASE UNCHANGED vars
    BY <2>17 DEF vars
  <2> QED
    BY <2>1, <2>2, <2>3, <2>4, <2>5, <2>6, <2>7, <2>8, <2>9, <2>10, <2>11, <2>12,
       <2>13, <2>14, <2>15, <2>16, <2>17 DEF Next, Step
<1> QED
  BY <1>1, <1>2, PTL DEF Spec

-----------------------------------------------------------------------------
\* What a step does to the times: readings and scores stay in the past, the
\* windows stay in step, and deadlines stay within one open timeout.
LEMMA TimeStep == TypeOK /\ TimeInv /\ [Next]_vars => TimeInv'
<1> USE RuleAssumption
<1> SUFFICES ASSUME TypeOK, TimeInv, [Next]_vars PROVE TimeInv'
  OBVIOUS
<1> USE DEF TypeOK, TimeInv, ClkPast, ScoresPast, FreshFailuresCounted,
        OpenDeadlineBounded, Goto, ReadClock, redisVars
<1>1. CASE Tick
  <2>1. ClkPast' /\ OpenDeadlineBounded'
    BY <1>1 DEF Tick
  <2>2. ScoresPast'
    BY <1>1 DEF Tick
  <2>3. FreshFailuresCounted'
    <3> SUFFICES ASSUME NEW m \in failures' PROVE m \in totals' \/ m[2] + WindowSec <= now'
      OBVIOUS
    <3>1. m \in failures /\ m[2] \in Nat
      BY <1>1 DEF Tick
    <3> QED
      BY <1>1, <3>1 DEF Tick
  <2> QED
    BY <2>1, <2>2, <2>3
<1>2. ASSUME NEW r \in Requests, ReadState(r) PROVE TimeInv'
  BY <1>2 DEF ReadState
<1>3. ASSUME NEW r \in Requests, GetOpenUntil(r) PROVE TimeInv'
  BY <1>3 DEF GetOpenUntil
<1>4. ASSUME NEW r \in Requests, GetProbe(r) PROVE TimeInv'
  BY <1>4 DEF GetProbe
<1>5. ASSUME NEW r \in Requests, TryAcquireProbe(r) PROVE TimeInv'
  BY <1>5 DEF TryAcquireProbe
<1>6. ASSUME NEW r \in Requests, RecordSuccess(r) PROVE TimeInv'
  BY <1>6 DEF RecordSuccess
<1>7. ASSUME NEW r \in Requests, RecordFailure(r) PROVE TimeInv'
  BY <1>7 DEF RecordFailure
<1>8. ASSUME NEW r \in Requests, ReturnUnrecorded(r) PROVE TimeInv'
  BY <1>8 DEF ReturnUnrecorded
<1>9. ASSUME NEW r \in Requests, CloseDelete(r) PROVE TimeInv'
  BY <1>9 DEF CloseDelete
<1>10. ASSUME NEW r \in Requests, CloseSet(r) PROVE TimeInv'
  BY <1>10 DEF CloseSet
<1>11. ASSUME NEW r \in Requests, ReopenDelete(r) PROVE TimeInv'
  BY <1>11 DEF ReopenDelete
<1>12. ASSUME NEW r \in Requests, ReopenSet(r) PROVE TimeInv'
  BY <1>12 DEF ReopenSet
<1>13. ASSUME NEW r \in Requests, Abort(r) PROVE TimeInv'
  BY <1>13 DEF Abort
<1>14. ASSUME NEW r \in Requests, SnapshotFailures(r) PROVE TimeInv'
  BY <1>14 DEF SnapshotFailures, Purge
<1>15. ASSUME NEW r \in Requests, SnapshotTotals(r) PROVE TimeInv'
  BY <1>15 DEF SnapshotTotals, Purge
<1>16. ASSUME NEW r \in Requests, RecordOutcome(r) PROVE TimeInv'
  <2>1. ClkPast' /\ OpenDeadlineBounded'
    BY <1>16 DEF RecordOutcome
  <2>2. ScoresPast'
    BY <1>16 DEF RecordOutcome, Purge
  <2>3. FreshFailuresCounted'
    BY <1>16 DEF RecordOutcome, Purge
  <2> QED
    BY <2>1, <2>2, <2>3
<1>17. CASE UNCHANGED vars
  BY <1>17 DEF vars
<1> QED
  BY <1>1, <1>2, <1>3, <1>4, <1>5, <1>6, <1>7, <1>8, <1>9, <1>10,
     <1>11, <1>12, <1>13, <1>14, <1>15, <1>16, <1>17
  DEF Next, Step

\* TimeInv holds in every reachable state of the breaker.
LEMMA TimeInvariant == Spec => []TimeInv
<1>1. Init => TimeInv
  BY RuleAssumption DEF Init, TimeInv, ClkPast, ScoresPast, FreshFailuresCounted,
     OpenDeadlineBounded
<1> QED
  BY <1>1, TimeStep, BreakerTypeOK, PTL DEF Spec

\* A breaker is never open for longer than one open timeout from now
\* (reopen() and the script write deadlines from clock readings in the past).
THEOREM BreakerDeadlineBounded == Spec => []OpenDeadlineBounded
BY TimeInvariant, PTL DEF TimeInv

\* Failures and totals stay in step: a failure missing from totals is older
\* than the window (close, snapshot, the script and the TTLs together).
THEOREM BreakerWindowsInStep == Spec => []FreshFailuresCounted
BY TimeInvariant, PTL DEF TimeInv

-----------------------------------------------------------------------------
\* _probe_acquired follows the control point of its request.
LEMMA HoldsStep == TypeOK /\ HoldsFits /\ [Next]_vars => HoldsFits'
<1> SUFFICES ASSUME TypeOK, HoldsFits, [Next]_vars, NEW q \in Requests
             PROVE  /\ pc'[q] \in {"new"} \union AllowPC => ~holds'[q]
                    /\ pc'[q] \in {"close_del", "reopen_del"} => holds'[q]
  BY DEF HoldsFits
<1> USE DEF TypeOK, HoldsFits, AllowPC, Goto, redisVars
<1>1. CASE Tick \/ UNCHANGED vars
  BY <1>1 DEF Tick, vars
<1>2. ASSUME NEW r \in Requests, TryAcquireProbe(r) \/ CloseSet(r) \/ ReopenSet(r)
      PROVE  /\ pc'[q] \in {"new"} \union AllowPC => ~holds'[q]
             /\ pc'[q] \in {"close_del", "reopen_del"} => holds'[q]
  BY <1>2 DEF TryAcquireProbe, CloseSet, ReopenSet
<1>3. ASSUME NEW r \in Requests, Step(r) \/ Abort(r),
             ~(TryAcquireProbe(r) \/ CloseSet(r) \/ ReopenSet(r))
      PROVE  /\ pc'[q] \in {"new"} \union AllowPC => ~holds'[q]
             /\ pc'[q] \in {"close_del", "reopen_del"} => holds'[q]
  BY <1>3 DEF Step, ReadState, GetOpenUntil, GetProbe, RecordSuccess, RecordFailure,
     ReturnUnrecorded, CloseDelete, ReopenDelete, SnapshotFailures, SnapshotTotals,
     RecordOutcome, Abort
<1> QED
  BY <1>1, <1>2, <1>3 DEF Next

\* The probe key belongs to the probe in flight until a probe overruns.
LEMMA ProbeOwnedStep == TypeOK /\ HoldsFits /\ ProbeOwned /\ [Next]_vars => ProbeOwned'
<1> USE RuleAssumption
<1> SUFFICES ASSUME TypeOK, HoldsFits, ProbeOwned, [Next]_vars, ~overrun',
                    NEW q \in Requests, ProbeInFlight(q)'
             PROVE  probeExp' # 0 /\ probeOwner' = q
  BY DEF ProbeOwned
<1> USE DEF TypeOK, HoldsFits, AllowPC, ProbeOwned, ProbeInFlight, Goto, ReadClock, redisVars, auxVars
<1>1. CASE Tick
  <2>1. ProbeInFlight(q) /\ ~overrun
    BY <1>1 DEF Tick
  <2>2. probeExp # 0 /\ probeOwner = q
    BY <2>1
  <2>3. ~(probeExp <= now + 1)
    BY <1>1, <2>1, <2>2 DEF Tick
  <2> QED
    BY <1>1, <2>2, <2>3 DEF Tick
<1>2. ASSUME NEW r \in Requests, ReadState(r) PROVE probeExp' # 0 /\ probeOwner' = q
  BY <1>2 DEF ReadState
<1>3. ASSUME NEW r \in Requests, GetOpenUntil(r) PROVE probeExp' # 0 /\ probeOwner' = q
  BY <1>3 DEF GetOpenUntil
<1>4. ASSUME NEW r \in Requests, GetProbe(r) PROVE probeExp' # 0 /\ probeOwner' = q
  BY <1>4 DEF GetProbe
<1>5. ASSUME NEW r \in Requests, TryAcquireProbe(r) PROVE probeExp' # 0 /\ probeOwner' = q
  BY <1>5 DEF TryAcquireProbe
<1>6. ASSUME NEW r \in Requests, RecordSuccess(r) PROVE probeExp' # 0 /\ probeOwner' = q
  BY <1>6 DEF RecordSuccess
<1>7. ASSUME NEW r \in Requests, RecordFailure(r) PROVE probeExp' # 0 /\ probeOwner' = q
  BY <1>7 DEF RecordFailure
<1>8. ASSUME NEW r \in Requests, ReturnUnrecorded(r) PROVE probeExp' # 0 /\ probeOwner' = q
  BY <1>8 DEF ReturnUnrecorded
<1>9. ASSUME NEW r \in Requests, CloseDelete(r) PROVE probeExp' # 0 /\ probeOwner' = q
  BY <1>9 DEF CloseDelete
<1>10. ASSUME NEW r \in Requests, CloseSet(r) PROVE probeExp' # 0 /\ probeOwner' = q
  BY <1>10 DEF CloseSet
<1>11. ASSUME NEW r \in Requests, ReopenDelete(r) PROVE probeExp' # 0 /\ probeOwner' = q
  BY <1>11 DEF ReopenDelete
<1>12. ASSUME NEW r \in Requests, ReopenSet(r) PROVE probeExp' # 0 /\ probeOwner' = q
  BY <1>12 DEF ReopenSet
<1>13. ASSUME NEW r \in Requests, SnapshotFailures(r) PROVE probeExp' # 0 /\ probeOwner' = q
  BY <1>13 DEF SnapshotFailures
<1>14. ASSUME NEW r \in Requests, SnapshotTotals(r) PROVE probeExp' # 0 /\ probeOwner' = q
  BY <1>14 DEF SnapshotTotals
<1>15. ASSUME NEW r \in Requests, RecordOutcome(r) PROVE probeExp' # 0 /\ probeOwner' = q
  BY <1>15 DEF RecordOutcome
<1>16. ASSUME NEW r \in Requests, Abort(r) PROVE probeExp' # 0 /\ probeOwner' = q
  BY <1>16 DEF Abort
<1>17. CASE UNCHANGED vars
  BY <1>17 DEF vars
<1> QED
  BY <1>1, <1>2, <1>3, <1>4, <1>5, <1>6, <1>7, <1>8, <1>9, <1>10,
     <1>11, <1>12, <1>13, <1>14, <1>15, <1>16, <1>17
  DEF Next, Step

\* At most one probe is in flight until a probe outlives its TTL: the mutual
\* exclusion of the half-open state, for any number of requests and deaths.
THEOREM BreakerProbeExclusive == Spec => []ProbeExclusive
<1>1. Init => HoldsFits /\ ProbeOwned
  BY DEF Init, HoldsFits, ProbeOwned, ProbeInFlight
<1>2. ProbeOwned => ProbeExclusive
  BY DEF ProbeOwned, ProbeExclusive
<1> QED
  BY <1>1, <1>2, HoldsStep, ProbeOwnedStep, BreakerTypeOK, PTL DEF Spec

-----------------------------------------------------------------------------
\* Late outcomes never move the deadline of an OPEN breaker; only the verdict
\* of a probe does (the script's guard on current_open_until).
THEOREM BreakerOpenDeadlineStable == Spec => OnlyProbeMovesOpenDeadline
<1> DEFINE Verdict == \E r \in Requests :
             pc[r] \in {"close_set", "reopen_set"} /\ pc'[r] # pc[r]
<1>1. TypeOK /\ TimeInv /\ [Next]_vars
        => [openUntil > now /\ openUntil' # openUntil => Verdict]_vars
  <2> SUFFICES ASSUME TypeOK, TimeInv, Next, openUntil > now, openUntil' # openUntil
               PROVE  Verdict
    OBVIOUS
  <2> USE DEF TypeOK, Goto, ReadClock, redisVars
  <2>1. CASE Tick
    BY <2>1 DEF Tick
  <2>2. ASSUME NEW r \in Requests, CloseSet(r) PROVE Verdict
    BY <2>2 DEF CloseSet
  <2>3. ASSUME NEW r \in Requests, ReopenSet(r) PROVE Verdict
    BY <2>3 DEF ReopenSet
  <2>4. ASSUME NEW r \in Requests, RecordOutcome(r) PROVE FALSE
    BY <2>4 DEF RecordOutcome, TripsAt, TimeInv, ClkPast
  <2>5. ASSUME NEW r \in Requests, Step(r) \/ Abort(r),
               ~CloseSet(r), ~ReopenSet(r), ~RecordOutcome(r)
        PROVE  FALSE
    BY <2>5 DEF Step, ReadState, GetOpenUntil, GetProbe, TryAcquireProbe, RecordSuccess,
       RecordFailure, ReturnUnrecorded, CloseDelete, ReopenDelete, SnapshotFailures,
       SnapshotTotals, Abort
  <2> QED
    BY <2>1, <2>2, <2>3, <2>4, <2>5 DEF Next
<1> QED
  BY <1>1, TimeInvariant, BreakerTypeOK, PTL DEF Spec, OnlyProbeMovesOpenDeadline
------------------------------------------------------------------------------
\* Only the Lua script takes a request from a script label to "recorded"
\* (every other step leaves a script label alone, or goes elsewhere).
LEMMA OnlyScriptRecords ==
  ASSUME TypeOK, [Next]_vars, NEW r \in Requests,
         pc[r] \in {"script_success", "script_failure"}, pc'[r] = "recorded"
  PROVE  RecordOutcome(r)
<1> USE DEF TypeOK, Goto, ReadClock, redisVars
<1>1. ~UNCHANGED vars
  BY DEF vars
<1>2. ~Tick
  BY DEF Tick
<1>3. ASSUME NEW q \in Requests, Step(q) \/ Abort(q) PROVE q = r
  BY <1>3 DEF Step, ReadState, GetOpenUntil, GetProbe, TryAcquireProbe, RecordSuccess,
     RecordFailure, ReturnUnrecorded, CloseDelete, CloseSet, ReopenDelete, ReopenSet,
     SnapshotFailures, SnapshotTotals, RecordOutcome, Abort
<1>4. Step(r) \/ Abort(r) => RecordOutcome(r)
  BY DEF Step, ReadState, GetOpenUntil, GetProbe, TryAcquireProbe, RecordSuccess,
     RecordFailure, ReturnUnrecorded, CloseDelete, CloseSet, ReopenDelete, ReopenSet,
     SnapshotFailures, SnapshotTotals, Abort
<1> QED
  BY <1>1, <1>2, <1>3, <1>4 DEF Next

\* When every member of a window lies in the window before a reading of the
\* clock, all of them count as fresh.
LEMMA AllFresh ==
  ASSUME NEW zset, NEW at \in Nat,
         \A m \in zset : m[2] \in Nat /\ m[2] + WindowSec > at
  PROVE  FreshAt(zset, at) = Cardinality(zset)
<1>1. {m \in zset : m[2] > at \/ at - m[2] < WindowSec} = zset
  BY RuleAssumption
<1> QED
  BY <1>1 DEF FreshAt

\* A trip that is not a probe's verdict rests on the outcomes of the last
\* window: enough of them, and failures at the threshold (the script purges,
\* adds, counts and sets open_until as one).
THEOREM BreakerTripJustified == Spec => TripJustified
<1> DEFINE Trips(r) ==
             pc[r] \in {"script_success", "script_failure"} /\ pc'[r] = "recorded"
               /\ openUntil' # openUntil
           Justified(r) ==
             /\ Cardinality(totals') = FreshAt(totals', clk[r])
             /\ FreshAt(totals', clk[r]) >= MinRequestCount
             /\ FreshAt(failures', clk[r]) * RateDen >= RateNum * FreshAt(totals', clk[r])
<1>1. TypeOK /\ [Next]_vars => [\A r \in Requests : Trips(r) => Justified(r)]_vars
  <2> SUFFICES ASSUME TypeOK, [Next]_vars, NEW r \in Requests, Trips(r)
               PROVE  Justified(r)
    OBVIOUS
  <2> DEFINE at == clk[r]
             t  == Purge(totals, at) \union {<<r, at>>}
             f  == Purge(failures, at)
                     \union (IF pc[r] = "script_failure" THEN {<<r, at>>} ELSE {})
  <2>1. RecordOutcome(r)
    BY OnlyScriptRecords
  <2>2. totals' = t /\ failures' = f /\ TripsAt(f, t, at)
    BY <2>1 DEF RecordOutcome
  <2>3. at \in Nat
    BY DEF TypeOK
  <2>4. \A m \in t \union f : m[2] \in Nat /\ m[2] + WindowSec > at
    BY <2>3, RuleAssumption DEF Purge, TypeOK
  <2>5. FreshAt(totals', at) = Cardinality(totals')
    BY <2>2, <2>3, <2>4, AllFresh
  <2>6. FreshAt(failures', at) = Cardinality(failures')
    BY <2>2, <2>3, <2>4, AllFresh
  <2> QED
    BY <2>2, <2>5, <2>6 DEF TripsAt
<1> QED
  BY <1>1, BreakerTypeOK, PTL DEF Spec, TripJustified
=============================================================================
