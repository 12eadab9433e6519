------------------------------ MODULE RateLimiter ------------------------------
(***************************************************************************)
(* chaos_service/rate_limiter.py with lua/sliding_window.lua and           *)
(* lua/fixed_window.lua, for the requests of one subject (every subject    *)
(* has keys of its own).  RedisBackend reads the wall clock in Python and  *)
(* sends the reading to a Lua script; the script of another request, or    *)
(* any delay, may come in between.  Redis drops a key when its TTL ends.   *)
(***************************************************************************)
EXTENDS Naturals, FiniteSets

CONSTANTS
  Requests,   \* the requests of the subject
  Limit,      \* rule.limit
  WindowSec,  \* rule.window
  MaxTime     \* bound: the clock stops here

\* RateLimitRule.__post_init__.
ASSUME RuleAssumption ==
  /\ Limit \in Nat
  /\ WindowSec \in Nat \ {0}

ASSUME RequestsAssumption == IsFiniteSet(Requests) /\ MaxTime \in Nat

VARIABLES
  algorithm, \* rule.algorithm, the same throughout
  now,       \* the wall clock
  zset,      \* sliding: the ZSET, pairs <<member's request, score>>
  zsetExp,   \* sliding: the instant at which the TTL of the key ends
  count,     \* fixed: the counter of each bucket's key, 0 when absent
  countExp,  \* fixed: the instant at which the TTL of each key ends
  pc,        \* "new", "script", then the decision
  clk,       \* the clock reading of each request
  passed,    \* history: <<request, reading>> the scripts let pass
  counted,   \* history: <<request, reading>> the scripts counted
  lastClk,   \* auxiliary: the largest reading a script has run with
  reordered, \* auxiliary: a script ran after one with a larger reading
  late       \* auxiliary: a script ran over a second after its reading

storeVars == <<zset, zsetExp, count, countExp>>
history   == <<passed, counted, lastClk, reordered, late>>
vars      == <<algorithm, now, storeVars, pc, clk, history>>

Decisions == {"allowed", "rejected", "failed_open"}
Buckets   == 0 .. MaxTime

\* ttl = ceil(window) + 1 in both _allow_sliding and _allow_fixed.
Ttl == WindowSec + 1

Init ==
  /\ algorithm \in {"sliding", "fixed"}
  /\ now = 0
  /\ zset = {} /\ zsetExp = 0
  /\ count = [b \in Buckets |-> 0] /\ countExp = [b \in Buckets |-> 0]
  /\ pc = [r \in Requests |-> "new"] /\ clk = [r \in Requests |-> 0]
  /\ passed = {} /\ counted = {} /\ lastClk = 0 /\ reordered = FALSE /\ late = FALSE

\* Mutant: the end of the window is sent where the script expects the clock.
ReadClockDeadline(r) ==
  /\ pc[r] = "new"
  /\ clk' = [clk EXCEPT ![r] = now + WindowSec]
  /\ pc' = [pc EXCEPT ![r] = "script"]
  /\ UNCHANGED <<now, storeVars, history>>

\* `now = self._clock()` in _allow_sliding and _allow_fixed.
ReadClock(r) ==
  /\ pc[r] = "new"
  /\ clk' = [clk EXCEPT ![r] = now]
  /\ pc' = [pc EXCEPT ![r] = "script"]
  /\ UNCHANGED <<now, storeVars, history>>

\* Which scripts ran late or out of the order of their readings.
Observe(r) ==
  /\ lastClk' = IF clk[r] > lastClk THEN clk[r] ELSE lastClk
  /\ reordered' = (reordered \/ clk[r] < lastClk)
  /\ late' = (late \/ now > clk[r] + 1)

\* Mutant: the purge is one second too eager.
InWindowEager(r) == {m \in zset : m[2] + WindowSec > clk[r] + 1}

\* ZREMRANGEBYSCORE key -inf (now - window), seen by request r.
InWindow(r) == {m \in zset : m[2] + WindowSec > clk[r]}

\* sliding_window.lua: purge, compare with the limit, add.
SlidingScript(r, decision) ==
  /\ decision = IF Cardinality(InWindow(r)) >= Limit THEN "rejected" ELSE "allowed"
  /\ IF decision = "rejected"
       THEN /\ zset' = InWindow(r)
            /\ UNCHANGED <<zsetExp, counted>>
       ELSE /\ zset' = InWindow(r) \union {<<r, clk[r]>>}
            /\ zsetExp' = now + Ttl
            /\ counted' = counted \union {<<r, clk[r]>>}
  /\ UNCHANGED <<count, countExp>>

\* int(floor(now / window)).
Bucket(t) == t \div WindowSec

\* Mutant: EXPIRE is one second, not the window and one second.
FixedScriptShortTtl(r, decision) ==
  LET b == Bucket(clk[r]) IN
  /\ decision = IF count[b] + 1 <= Limit THEN "allowed" ELSE "rejected"
  /\ count' = [count EXCEPT ![b] = @ + 1]
  /\ countExp' = IF count[b] = 0 THEN [countExp EXCEPT ![b] = now + 1] ELSE countExp
  /\ counted' = counted \union {<<r, clk[r]>>}
  /\ UNCHANGED <<zset, zsetExp>>

\* Mutant: the decision compares with <, not <=.
FixedScriptStrict(r, decision) ==
  LET b == Bucket(clk[r]) IN
  /\ decision = IF count[b] + 1 < Limit THEN "allowed" ELSE "rejected"
  /\ count' = [count EXCEPT ![b] = @ + 1]
  /\ countExp' = IF count[b] = 0 THEN [countExp EXCEPT ![b] = now + Ttl] ELSE countExp
  /\ counted' = counted \union {<<r, clk[r]>>}
  /\ UNCHANGED <<zset, zsetExp>>

\* fixed_window.lua: INCR, EXPIRE on the first increment; _allow_fixed then
\* compares the counter with the limit.
FixedScript(r, decision) ==
  LET b == Bucket(clk[r]) IN
  /\ decision = IF count[b] + 1 <= Limit THEN "allowed" ELSE "rejected"
  /\ count' = [count EXCEPT ![b] = @ + 1]
  /\ countExp' = IF count[b] = 0 THEN [countExp EXCEPT ![b] = now + Ttl] ELSE countExp
  /\ counted' = counted \union {<<r, clk[r]>>}
  /\ UNCHANGED <<zset, zsetExp>>

RunScript(r, decision) ==
  /\ pc[r] = "script"
  /\ \/ algorithm = "sliding" /\ SlidingScript(r, decision)
     \/ algorithm = "fixed" /\ FixedScript(r, decision)
  /\ Observe(r)
  /\ UNCHANGED <<now, clk>>

\* RedisBackend.allow with an answer from Redis.
Decide(r) ==
  \E d \in {"allowed", "rejected"} :
    /\ RunScript(r, d)
    /\ pc' = [pc EXCEPT ![r] = d]
    /\ passed' = IF d = "allowed" THEN passed \union {<<r, clk[r]>>} ELSE passed

\* RateLimiter.allow catches RedisError and lets the request pass: the script
\* was not run, or it ran and only its reply was lost.
FailOpen(r) ==
  /\ pc[r] = "script"
  /\ pc' = [pc EXCEPT ![r] = "failed_open"]
  /\ UNCHANGED <<now, storeVars, clk, history>>

FailOpenAfterScript(r) ==
  /\ \E d \in {"allowed", "rejected"} : RunScript(r, d)
  /\ pc' = [pc EXCEPT ![r] = "failed_open"]
  /\ UNCHANGED passed

\* A second passes; Redis drops the keys whose TTL has ended.
Tick ==
  /\ now < MaxTime
  /\ now' = now + 1
  /\ zset' = IF zsetExp <= now + 1 THEN {} ELSE zset
  /\ count' = [b \in Buckets |-> IF countExp[b] <= now + 1 THEN 0 ELSE count[b]]
  /\ UNCHANGED <<zsetExp, countExp, pc, clk, history>>

Next ==
  /\ UNCHANGED algorithm
  /\ \/ Tick
     \/ \E r \in Requests : ReadClock(r) \/ Decide(r) \/ FailOpen(r) \/ FailOpenAfterScript(r)

Spec == Init /\ [][Next]_vars

-----------------------------------------------------------------------------
(* PROPERTIES *)

\* The shape of the keys in Redis, the requests and the histories.
TypeOK ==
  /\ algorithm \in {"sliding", "fixed"} /\ now \in Buckets
  /\ zset \subseteq Requests \X Buckets /\ zsetExp \in Nat
  /\ count \in [Buckets -> Nat] /\ countExp \in [Buckets -> Nat]
  /\ pc \in [Requests -> {"new", "script"} \union Decisions]
  /\ clk \in [Requests -> Buckets]
  /\ passed \subseteq Requests \X Buckets /\ counted \subseteq Requests \X Buckets
  /\ lastClk \in Buckets /\ reordered \in BOOLEAN /\ late \in BOOLEAN

\* The requests let pass in the window of WindowSec seconds that ends at t.
PassedIn(t) == {p \in passed : p[2] <= t /\ p[2] + WindowSec > t}

\* Sliding window, as test_rate_limiter_stateful.py states it: no interval of
\* one window holds more than Limit requests that passed.
WindowCapacity ==
  algorithm = "sliding" => \A t \in Buckets : Cardinality(PassedIn(t)) <= Limit

\* The sliding window keeps that promise as long as the scripts run in the
\* order of their clock readings and within a second of them (the slack the
\* key's TTL leaves), whatever replies are lost on the way.
SlidingCapacity ==
  ~reordered /\ ~late => WindowCapacity

\* Fixed window: no bucket lets more than Limit requests pass, in any order
\* of the scripts, as long as none outlives the bucket's key.
FixedCapacity ==
  algorithm = "fixed" /\ ~late =>
    \A b \in Buckets : Cardinality({p \in passed : Bucket(p[2]) = b}) <= Limit

\* A request is refused only for requests that really count against it: at
\* least Limit others were counted in its window (its bucket), so neither a
\* late script nor an expired key ever causes a spurious 429.
RejectedOnlyWhenFull ==
  [][\A r \in Requests : pc[r] # "rejected" /\ pc'[r] = "rejected" =>
       Limit <= Cardinality({m \in counted :
                  IF algorithm = "sliding" THEN m[2] + WindowSec > clk[r]
                                           ELSE Bucket(m[2]) = Bucket(clk[r])})]_vars
=============================================================================
