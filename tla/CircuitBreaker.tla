---------------------------- MODULE CircuitBreaker ----------------------------
(***************************************************************************)
(* The Redis-backed three-state circuit breaker of                         *)
(* chaos_service/resilience/breaker, as create_order uses it: every        *)
(* request builds its own CircuitBreaker object, so all that requests      *)
(* share is four Redis keys (open_until, probe, failures, totals).         *)
(*                                                                         *)
(* One action is one Redis command (or one Lua script, which Redis runs    *)
(* atomically) of one request; between two commands every other request    *)
(* may run.  Python reads the wall clock BEFORE it sends the command that  *)
(* uses the reading, so each request keeps its reading in clk[r].          *)
(* A state is what is in Redis plus the program counter of each request.   *)
(***************************************************************************)
EXTENDS Naturals, FiniteSets

CONSTANTS
  Requests,        \* the requests that arrive in a behaviour
  NoRequest,       \* nobody
  MinRequestCount, \* rule.min_request_count
  RateNum,         \* rule.failure_rate_threshold is RateNum / RateDen
  RateDen,
  WindowSec,       \* rule.window_seconds
  OpenTimeoutSec,  \* rule.open_timeout_seconds
  ProbeTtlSec,     \* CIRCUIT_PROBE_TTL_SEC
  MaxTime,         \* bound: the clock stops here
  MaxAborts        \* bound: requests that die before they finish

\* What CircuitBreakerRule.__post_init__ checks, plus a positive probe TTL
\* (SET ... EX 0 is refused by Redis).  Time starts at 1 so that, as with
\* Unix time, an open_until deadline is never 0.
ASSUME RuleAssumption ==
  /\ MinRequestCount \in Nat \ {0}
  /\ RateNum \in Nat /\ RateDen \in Nat \ {0} /\ RateNum <= RateDen
  /\ WindowSec \in Nat \ {0}
  /\ OpenTimeoutSec \in Nat \ {0}
  /\ ProbeTtlSec \in Nat \ {0}

ASSUME RequestsAssumption == IsFiniteSet(Requests) /\ NoRequest \notin Requests

ASSUME BoundsAssumption == MaxTime \in Nat \ {0} /\ MaxAborts \in Nat

VARIABLES
  now,         \* the wall clock, shared by the workers and Redis
  openUntil,   \* key open_until: 0 when absent or "0"
  probeExp,    \* key probe: the instant its TTL ends, 0 when absent
  failures,    \* ZSET failures: pairs <<member's request, score>>
  totals,      \* ZSET totals
  failuresExp, \* instant at which the TTL of failures ends (0: no key)
  totalsExp,   \* instant at which the TTL of totals ends (0: no key)
  pc,          \* where each request is
  clk,         \* the last clock reading of each request
  holds,       \* CircuitBreaker._probe_acquired of each request
  probeOwner,  \* auxiliary: the request that set the probe key
  overrun      \* auxiliary: a probe key has expired under a running probe

redisVars == <<openUntil, probeExp, failures, totals, failuresExp, totalsExp>>
auxVars   == <<probeOwner, overrun>>
vars      == <<now, redisVars, pc, clk, holds, auxVars>>

-----------------------------------------------------------------------------
\* Control points: in allow_request, after admission, in close(), reopen(),
\* snapshot() and before the Lua script.
AllowPC  == {"get_open_until", "get_probe", "acquire"}
RecordPC == {"close_del", "close_set", "reopen_del", "reopen_set",
             "snap_failures", "snap_totals", "script_success", "script_failure"}
FinalPC  == {"rejected", "recorded", "unrecorded", "aborted"}
PC       == {"new", "admitted"} \union AllowPC \union RecordPC \union FinalPC

Active(r) == pc[r] \notin {"new"} \union FinalPC

\* r owns an undecided probe: it passed try_acquire_probe and has not yet
\* issued the DEL with which close() or reopen() gives the key back.
ProbeInFlight(r) == holds[r] /\ pc[r] \in {"admitted", "close_del", "reopen_del"}

\* RedisCircuitBreakerStorage.get_state, evaluated at an instant t.
StateAt(t) ==
  IF openUntil > t THEN "OPEN"
  ELSE IF openUntil > 0 \/ probeExp # 0 THEN "HALF_OPEN"
  ELSE "CLOSED"

\* Mutant: the purge cutoff is off by one window edge (scores equal to the
\* cutoff are kept).
PurgeKeepsEdge(zset, t) == {m \in zset : m[2] + WindowSec >= t}

\* ZREMRANGEBYSCORE key -inf (t - window): scores up to t - window go.
Purge(zset, t) == {m \in zset : m[2] + WindowSec > t}

Init ==
  /\ now = 1
  /\ openUntil = 0 /\ probeExp = 0
  /\ failures = {} /\ totals = {} /\ failuresExp = 0 /\ totalsExp = 0
  /\ pc = [r \in Requests |-> "new"]
  /\ clk = [r \in Requests |-> 0]
  /\ holds = [r \in Requests |-> FALSE]
  /\ probeOwner = NoRequest /\ overrun = FALSE

Goto(r, label) == pc' = [pc EXCEPT ![r] = label]
ReadClock(r)   == clk' = [clk EXCEPT ![r] = now]

-----------------------------------------------------------------------------
\* allow_request -> get_state: `now = self._clock()`.
ReadState(r) ==
  /\ pc[r] = "new"
  /\ ReadClock(r)
  /\ Goto(r, "get_open_until")
  /\ UNCHANGED <<now, redisVars, holds, auxVars>>

\* GET open_until: OPEN is refused at once, a lapsed deadline is HALF_OPEN,
\* no deadline means that the probe key decides.
GetOpenUntil(r) ==
  /\ pc[r] = "get_open_until"
  /\ Goto(r, IF openUntil > clk[r] THEN "rejected"
             ELSE IF openUntil > 0 THEN "acquire" ELSE "get_probe")
  /\ UNCHANGED <<now, redisVars, clk, holds, auxVars>>

\* is_probe_active: GET probe tells HALF_OPEN from CLOSED; CLOSED is admitted.
GetProbe(r) ==
  /\ pc[r] = "get_probe"
  /\ Goto(r, IF probeExp # 0 THEN "acquire" ELSE "admitted")
  /\ UNCHANGED <<now, redisVars, clk, holds, auxVars>>

\* Mutants of try_acquire_probe: SET without NX; SET NX without EX; the
\* client's raw reply (None on failure) stored in _probe_acquired.
TryAcquireProbeNoNx(r) ==
  /\ pc[r] = "acquire"
  /\ probeExp' = now + ProbeTtlSec /\ probeOwner' = r
  /\ holds' = [holds EXCEPT ![r] = TRUE]
  /\ Goto(r, "admitted")
  /\ UNCHANGED <<now, openUntil, failures, totals, failuresExp, totalsExp, clk, overrun>>

TryAcquireProbeNoEx(r) ==
  /\ pc[r] = "acquire"
  /\ \/ /\ probeExp = 0
        /\ probeExp' = MaxTime + 1 /\ probeOwner' = r
        /\ holds' = [holds EXCEPT ![r] = TRUE]
        /\ Goto(r, "admitted")
     \/ /\ probeExp # 0
        /\ Goto(r, "rejected")
        /\ UNCHANGED <<probeExp, probeOwner, holds>>
  /\ UNCHANGED <<now, openUntil, failures, totals, failuresExp, totalsExp, clk, overrun>>

TryAcquireProbeRawReply(r) ==
  /\ pc[r] = "acquire"
  /\ IF probeExp = 0
       THEN /\ probeExp' = now + ProbeTtlSec /\ probeOwner' = r
            /\ holds' = [holds EXCEPT ![r] = TRUE]
            /\ Goto(r, "admitted")
       ELSE /\ holds' = [holds EXCEPT ![r] = NoRequest]
            /\ Goto(r, "rejected")
            /\ UNCHANGED <<probeExp, probeOwner>>
  /\ UNCHANGED <<now, openUntil, failures, totals, failuresExp, totalsExp, clk, overrun>>

\* try_acquire_probe: SET probe "1" NX EX ttl.  The state is not read again.
TryAcquireProbe(r) ==
  /\ pc[r] = "acquire"
  /\ \/ /\ probeExp = 0
        /\ probeExp' = now + ProbeTtlSec
        /\ probeOwner' = r
        /\ holds' = [holds EXCEPT ![r] = TRUE]
        /\ Goto(r, "admitted")
     \/ /\ probeExp # 0
        /\ Goto(r, "rejected")
        /\ UNCHANGED <<probeExp, probeOwner, holds>>
  /\ UNCHANGED <<now, openUntil, failures, totals, failuresExp, totalsExp, clk, overrun>>

-----------------------------------------------------------------------------
\* record_success: a probe (after a GET of open_until that only feeds the
\* recovery histogram) goes to close(); any other request reads the clock
\* for the Lua script.
RecordSuccess(r) ==
  /\ pc[r] = "admitted"
  /\ IF holds[r] THEN Goto(r, "close_del") /\ UNCHANGED clk
                 ELSE Goto(r, "script_success") /\ ReadClock(r)
  /\ UNCHANGED <<now, redisVars, holds, auxVars>>

\* record_failure: both paths read the clock first (reopen computes its
\* deadline before it deletes the probe key).
RecordFailure(r) ==
  /\ pc[r] = "admitted"
  /\ ReadClock(r)
  /\ Goto(r, IF holds[r] THEN "reopen_del" ELSE "script_failure")
  /\ UNCHANGED <<now, redisVars, holds, auxVars>>

\* create_order returns (or raises) without record_success or record_failure:
\* validation error, idempotent replay, conflict or processing answer, and
\* the deadline check that calls only record_timeout.
ReturnUnrecorded(r) ==
  /\ pc[r] = "admitted"
  /\ Goto(r, "unrecorded")
  /\ UNCHANGED <<now, redisVars, clk, holds, auxVars>>

\* Mutant of close(): the failures ZSET is forgotten in the DEL.
CloseDeleteKeepsFailures(r) ==
  /\ pc[r] = "close_del"
  /\ probeExp' = 0 /\ probeOwner' = NoRequest
  /\ totals' = {} /\ totalsExp' = 0
  /\ Goto(r, "close_set")
  /\ UNCHANGED <<now, openUntil, failures, failuresExp, clk, holds, overrun>>

\* close(), first command: DEL probe failures totals.
CloseDelete(r) ==
  /\ pc[r] = "close_del"
  /\ probeExp' = 0 /\ probeOwner' = NoRequest
  /\ failures' = {} /\ failuresExp' = 0
  /\ totals' = {} /\ totalsExp' = 0
  /\ Goto(r, "close_set")
  /\ UNCHANGED <<now, openUntil, clk, holds, overrun>>

\* close(), second command: SET open_until "0"; then _probe_acquired = False.
CloseSet(r) ==
  /\ pc[r] = "close_set"
  /\ openUntil' = 0
  /\ holds' = [holds EXCEPT ![r] = FALSE]
  /\ Goto(r, "recorded")
  /\ UNCHANGED <<now, probeExp, failures, totals, failuresExp, totalsExp, clk, auxVars>>

\* reopen(), first command: DEL probe.
ReopenDelete(r) ==
  /\ pc[r] = "reopen_del"
  /\ probeExp' = 0 /\ probeOwner' = NoRequest
  /\ Goto(r, "reopen_set")
  /\ UNCHANGED <<now, openUntil, failures, totals, failuresExp, totalsExp, clk, holds, overrun>>

\* Mutant of reopen(): the new deadline is counted from the old one.
ReopenSetFromDeadline(r) ==
  /\ pc[r] = "reopen_set"
  /\ openUntil' = openUntil + OpenTimeoutSec
  /\ holds' = [holds EXCEPT ![r] = FALSE]
  /\ ReadClock(r)
  /\ Goto(r, "snap_failures")
  /\ UNCHANGED <<now, probeExp, failures, totals, failuresExp, totalsExp, auxVars>>

\* reopen(), second command: SET open_until to the deadline computed earlier;
\* record_failure then reads the clock for snapshot().
ReopenSet(r) ==
  /\ pc[r] = "reopen_set"
  /\ openUntil' = clk[r] + OpenTimeoutSec
  /\ holds' = [holds EXCEPT ![r] = FALSE]
  /\ ReadClock(r)
  /\ Goto(r, "snap_failures")
  /\ UNCHANGED <<now, probeExp, failures, totals, failuresExp, totalsExp, auxVars>>

\* snapshot(): two separate ZREMRANGEBYSCORE commands (the counts it then
\* reads are only reported).
SnapshotFailures(r) ==
  /\ pc[r] = "snap_failures"
  /\ failures' = Purge(failures, clk[r])
  /\ Goto(r, "snap_totals")
  /\ UNCHANGED <<now, openUntil, probeExp, totals, failuresExp, totalsExp, clk, holds, auxVars>>

SnapshotTotals(r) ==
  /\ pc[r] = "snap_totals"
  /\ totals' = Purge(totals, clk[r])
  /\ Goto(r, "recorded")
  /\ UNCHANGED <<now, openUntil, probeExp, failures, failuresExp, totalsExp, clk, holds, auxVars>>

-----------------------------------------------------------------------------
\* Mutant: the script does not look at the deadline that is already set.
TripsAtAlways(f, t, at) ==
  /\ Cardinality(t) >= MinRequestCount
  /\ Cardinality(f) * RateDen >= RateNum * Cardinality(t)

\* The trip condition of circuit_breaker.lua on the purged and extended sets.
TripsAt(f, t, at) ==
  /\ Cardinality(t) >= MinRequestCount
  /\ Cardinality(f) * RateDen >= RateNum * Cardinality(t)
  /\ openUntil <= at

\* circuit_breaker.lua, run by _record_outcome with the clock reading clk[r].
RecordOutcome(r) ==
  /\ pc[r] \in {"script_success", "script_failure"}
  /\ LET at  == clk[r]
         bad == pc[r] = "script_failure"
         t   == Purge(totals, at) \union {<<r, at>>}
         f   == Purge(failures, at) \union (IF bad THEN {<<r, at>>} ELSE {})
     IN  /\ totals' = t
         /\ totalsExp' = now + WindowSec + 2
         /\ failures' = f
         /\ failuresExp' = IF bad THEN now + WindowSec + 2 ELSE failuresExp
         /\ openUntil' = IF TripsAt(f, t, at) THEN at + OpenTimeoutSec ELSE openUntil
  /\ Goto(r, "recorded")
  /\ UNCHANGED <<now, probeExp, clk, holds, auxVars>>

\* A request ends in the middle: the worker dies, or a Redis command raises
\* RedisError (no breaker method catches it).  A command whose reply is lost
\* is its action followed by this one.
Abort(r) ==
  /\ Active(r)
  /\ Cardinality({q \in Requests : pc[q] = "aborted"}) < MaxAborts
  /\ Goto(r, "aborted")
  /\ UNCHANGED <<now, redisVars, clk, holds, auxVars>>

\* A second passes and Redis drops the keys whose TTL has ended.
Tick ==
  /\ now < MaxTime
  /\ now' = now + 1
  /\ IF probeExp <= now + 1
       THEN /\ probeExp' = 0 /\ probeOwner' = NoRequest
            /\ overrun' = (overrun \/ \E r \in Requests : probeOwner = r /\ ProbeInFlight(r))
       ELSE UNCHANGED <<probeExp, probeOwner, overrun>>
  /\ IF failuresExp <= now + 1 THEN failures' = {} /\ failuresExp' = 0
                               ELSE UNCHANGED <<failures, failuresExp>>
  /\ IF totalsExp <= now + 1 THEN totals' = {} /\ totalsExp' = 0
                             ELSE UNCHANGED <<totals, totalsExp>>
  /\ UNCHANGED <<openUntil, pc, clk, holds>>

Step(r) ==
  \/ ReadState(r) \/ GetOpenUntil(r) \/ GetProbe(r) \/ TryAcquireProbe(r)
  \/ RecordSuccess(r) \/ RecordFailure(r) \/ ReturnUnrecorded(r)
  \/ CloseDelete(r) \/ CloseSet(r)
  \/ ReopenDelete(r) \/ ReopenSet(r) \/ SnapshotFailures(r) \/ SnapshotTotals(r)
  \/ RecordOutcome(r)

Next == Tick \/ \E r \in Requests : Step(r) \/ Abort(r)

Spec == Init /\ [][Next]_vars

\* Time passes, and a request that was admitted is driven to its end by its
\* worker thread (nothing in the breaker blocks).
Fairness == WF_vars(Tick) /\ \A r \in Requests : WF_vars(pc[r] # "new" /\ Step(r))

FairSpec == Spec /\ Fairness

-----------------------------------------------------------------------------
(* PROPERTIES *)

\* The shape of the keys in Redis and of each request's local state.
TypeOK ==
  /\ now \in Nat \ {0}
  /\ openUntil \in Nat /\ probeExp \in Nat
  /\ failures \subseteq Requests \X Nat /\ totals \subseteq Requests \X Nat
  /\ failuresExp \in Nat /\ totalsExp \in Nat
  /\ pc \in [Requests -> PC]
  /\ clk \in [Requests -> Nat]
  /\ holds \in [Requests -> BOOLEAN]
  /\ probeOwner \in Requests \union {NoRequest}
  /\ overrun \in BOOLEAN

\* Half-open mutual exclusion (try_acquire_probe's SET NX EX): as long as no
\* probe has outlived CIRCUIT_PROBE_TTL_SEC, two requests are never both
\* between acquiring the probe and giving the key back, whatever the other
\* requests do and wherever requests die.
ProbeExclusive ==
  ~overrun => \A q, r \in Requests : ProbeInFlight(q) /\ ProbeInFlight(r) => q = r

\* The two windows stay in step although close(), snapshot() and the script
\* touch them with different commands and stale clocks: a failure that is not
\* counted in totals as well is already older than the window, so the rate
\* computed by the next script with a current clock never exceeds 1.
FreshFailuresCounted ==
  \A m \in failures : m \in totals \/ m[2] + WindowSec <= now

\* However late a request writes its deadline (reopen computes it before two
\* commands, the script receives it as an argument), the breaker is never
\* open further into the future than one open timeout.
OpenDeadlineBounded == openUntil <= now + OpenTimeoutSec

\* The deadline of an OPEN breaker is moved only by the verdict of a probe
\* (close or reopen); outcomes of requests admitted earlier that arrive late
\* neither extend nor shorten it (current_open_until <= now in the script).
OnlyProbeMovesOpenDeadline ==
  [][openUntil > now /\ openUntil' # openUntil
       => \E r \in Requests : pc[r] \in {"close_set", "reopen_set"} /\ pc'[r] # pc[r]]_vars

\* A trip that is not a probe's verdict is justified by the outcomes of the
\* last window only: at least min_request_count of them, and failures at the
\* threshold, counted from the reading of the clock the script was given.
FreshAt(zset, t) == Cardinality({m \in zset : m[2] > t \/ t - m[2] < WindowSec})
TripJustified ==
  [][\A r \in Requests :
       (pc[r] \in {"script_success", "script_failure"} /\ pc'[r] = "recorded"
         /\ openUntil' # openUntil)
       => /\ Cardinality(totals') = FreshAt(totals', clk[r])
          /\ FreshAt(totals', clk[r]) >= MinRequestCount
          /\ FreshAt(failures', clk[r]) * RateDen >= RateNum * FreshAt(totals', clk[r])]_vars

\* A probe key left behind by a request that died or returned without
\* recording does not reject requests for ever: the key goes away again
\* (the antecedent leaves the bounded clock room for one TTL).
LockoutEnds ==
  (probeExp # 0 /\ now + ProbeTtlSec <= MaxTime) ~> (probeExp = 0)

\* What tests/unit/test_circuit_breaker_stateful.py lists as point 6: a probe
\* that succeeds closes the breaker at once.
ProbeSuccessCloses ==
  [][\A r \in Requests :
       pc[r] = "close_set" /\ pc'[r] = "recorded" => StateAt(now)' = "CLOSED"]_vars
=============================================================================
