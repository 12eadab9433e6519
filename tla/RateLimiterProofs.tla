--------------------------- MODULE RateLimiterProofs ---------------------------
(***************************************************************************)
(* The two capacity promises of RateLimiter, for every limit, window and   *)
(* finite set of requests.                                                 *)
(***************************************************************************)
EXTENDS RateLimiter, FiniteSetTheorems, TLAPS

\* Both histories and the ZSET are finite, and what is in them fits the keys.
HistoryFinite == IsFiniteSet(passed) /\ IsFiniteSet(zset)

\* Clock readings lie in the past, and a member of the ZSET is dropped by the
\* TTL no sooner than a second after it has left the window.
ScoresPast ==
  /\ \A r \in Requests : clk[r] <= now
  /\ \A m \in zset : m[2] <= now /\ m[2] + WindowSec + 1 <= zsetExp

\* What the ZSET has forgotten is out of every window still to be asked for.
Remembered ==
  \A p \in passed : \/ p \in zset
                    \/ p[2] + WindowSec <= lastClk
                    \/ p[2] + WindowSec + 1 <= now

SlidingInv ==
  /\ HistoryFinite
  /\ ScoresPast
  /\ ~reordered /\ ~late => Remembered /\ Cardinality(zset) <= Limit /\ WindowCapacity

-----------------------------------------------------------------------------
\* The keys, requests and histories keep their types.
THEOREM RateLimiterTypeOK == Spec => []TypeOK
<1> USE RuleAssumption, RequestsAssumption DEF Decisions
<1>0. Buckets \subseteq Nat /\ 0 \in Buckets
  BY DEF Buckets
<1>1. Init => TypeOK
  <2> SUFFICES ASSUME Init PROVE TypeOK
    OBVIOUS
  <2>1. reordered \in BOOLEAN /\ late \in BOOLEAN
    BY Zenon DEF Init
  <2> QED
    BY <1>0, <2>1 DEF Init, TypeOK
<1>2. TypeOK /\ [Next]_vars => TypeOK'
  <2> SUFFICES ASSUME TypeOK, [Next]_vars PROVE TypeOK'
    OBVIOUS
  <2>0. algorithm' = algorithm
    BY DEF Next, vars
  <2> USE <1>0, <2>0 DEF TypeOK, storeVars, history
  <2>1. CASE Tick
    <3>1. now' \in Buckets
      BY <2>1 DEF Tick, Buckets
    <3>2. zset' \subseteq Requests \X Buckets
      BY <2>1 DEF Tick
    <3>3. count' \in [Buckets -> Nat]
      BY <2>1 DEF Tick
    <3> QED
      BY <2>1, <3>1, <3>2, <3>3 DEF Tick
  <2>2. ASSUME NEW r \in Requests, ReadClock(r) PROVE TypeOK'
    BY <2>2 DEF ReadClock
  <2>3. ASSUME NEW r \in Requests, NEW d \in {"allowed", "rejected"}, RunScript(r, d)
        PROVE  /\ zset' \subseteq Requests \X Buckets /\ zsetExp' \in Nat
               /\ count' \in [Buckets -> Nat] /\ countExp' \in [Buckets -> Nat]
               /\ counted' \subseteq Requests \X Buckets
               /\ lastClk' \in Buckets /\ reordered' \in BOOLEAN /\ late' \in BOOLEAN
               /\ now' = now /\ clk' = clk
    <3>1. reordered' \in BOOLEAN /\ late' \in BOOLEAN
      BY <2>3, Zenon DEF RunScript, Observe
    <3>2. lastClk' \in Buckets /\ now' = now /\ clk' = clk
      BY <2>3 DEF RunScript, Observe
    <3>3. counted' \subseteq Requests \X Buckets /\ zset' \subseteq Requests \X Buckets
      BY <2>3 DEF RunScript, SlidingScript, FixedScript, InWindow
    <3>4. zsetExp' \in Nat /\ countExp' \in [Buckets -> Nat]
      BY <2>3 DEF RunScript, SlidingScript, FixedScript, Ttl
    <3>5. count' \in [Buckets -> Nat]
      BY <2>3 DEF RunScript, SlidingScript, FixedScript
    <3> QED
      BY <3>1, <3>2, <3>3, <3>4, <3>5
  <2>4. ASSUME NEW r \in Requests, Decide(r) PROVE TypeOK'
    <3>1. PICK d \in {"allowed", "rejected"} :
            /\ RunScript(r, d)
            /\ pc' = [pc EXCEPT ![r] = d]
            /\ passed' = IF d = "allowed" THEN passed \union {<<r, clk[r]>>} ELSE passed
      BY <2>4 DEF Decide
    <3>2. passed' \subseteq Requests \X Buckets
      BY <3>1
    <3> QED
      BY <2>3, <3>1, <3>2
  <2>5. ASSUME NEW r \in Requests, FailOpen(r) PROVE TypeOK'
    BY <2>5 DEF FailOpen
  <2>6. ASSUME NEW r \in Requests, FailOpenAfterScript(r) PROVE TypeOK'
    BY <2>6, <2>3 DEF FailOpenAfterScript
  <2>7. CASE UNCHANGED vars
    BY <2>7 DEF vars
  <2> QED
    BY <2>1, <2>2, <2>4, <2>5, <2>6, <2>7 DEF Next
<1> QED
  BY <1>1, <1>2, PTL DEF Spec

-----------------------------------------------------------------------------
\* What one run of sliding_window.lua does to the ZSET and its promises.
LEMMA SlidingScriptStep ==
  ASSUME TypeOK, SlidingInv, algorithm = "sliding",
         NEW r \in Requests, NEW d \in {"allowed", "rejected"}, RunScript(r, d),
         passed' = passed \/ (d = "allowed" /\ passed' = passed \union {<<r, clk[r]>>})
  PROVE  SlidingInv'
<1> USE RuleAssumption
<1> DEFINE c == clk[r]
<1>0. /\ SlidingScript(r, d) /\ Observe(r) /\ now' = now /\ clk' = clk
      /\ now \in Nat /\ c \in Nat /\ lastClk \in Nat /\ c <= now /\ zsetExp \in Nat
      /\ \A m \in zset \union passed : m[2] \in Nat
  BY DEF RunScript, TypeOK, Buckets, SlidingInv, ScoresPast
<1>1. InWindow(r) \subseteq zset /\ IsFiniteSet(InWindow(r))
      /\ Cardinality(InWindow(r)) <= Cardinality(zset)
      /\ Cardinality(InWindow(r)) \in Nat /\ Cardinality(zset) \in Nat
  BY FS_Subset, FS_CardinalityType DEF InWindow, SlidingInv, HistoryFinite
<1>2. HistoryFinite'
  <2>1. IsFiniteSet(passed) /\ IsFiniteSet(passed \union {<<r, c>>})
    BY FS_AddElement DEF SlidingInv, HistoryFinite
  <2>2. IsFiniteSet(InWindow(r) \union {<<r, c>>})
    BY <1>1, FS_AddElement
  <2> QED
    BY <1>0, <1>1, <2>1, <2>2 DEF SlidingScript, HistoryFinite
<1>3. ScoresPast'
  <2>1. \A m \in InWindow(r) : /\ m[2] + WindowSec + 1 <= zsetExp
                                /\ m[2] \in Nat /\ m[2] <= now
    BY <1>0, <1>1 DEF SlidingInv, ScoresPast
  <2>2. CASE d = "rejected"
    BY <1>0, <2>1, <2>2 DEF SlidingScript, SlidingInv, ScoresPast
  <2>3. CASE d = "allowed"
    BY <1>0, <2>1, <2>3 DEF SlidingScript, SlidingInv, ScoresPast, Ttl
  <2> QED
    BY <2>2, <2>3
<1>4. ASSUME ~reordered', ~late'
      PROVE  Remembered' /\ Cardinality(zset') <= Limit /\ WindowCapacity'
  <2>0. ~reordered /\ ~late /\ ~(c < lastClk) /\ ~(now > c + 1)
    BY <1>0, <1>4, Zenon DEF Observe
  <2>1. ~reordered /\ ~late /\ lastClk <= c /\ lastClk' = c /\ now <= c + 1
    BY <1>0, <2>0 DEF Observe
  <2>2. Remembered /\ Cardinality(zset) <= Limit /\ WindowCapacity
    BY <2>1 DEF SlidingInv
  \* The window the script looks at holds every request that still counts.
  <2>3. \A p \in passed : p \in InWindow(r) \/ p[2] + WindowSec <= c
    BY <1>0, <2>1, <2>2 DEF Remembered, InWindow
  <2>4. Remembered'
    <3> SUFFICES ASSUME NEW p \in passed' PROVE p \in zset' \/ p[2] + WindowSec <= lastClk'
      BY DEF Remembered
    <3>1. CASE p \in passed
      BY <1>0, <2>1, <2>3, <3>1 DEF SlidingScript
    <3>2. CASE p \notin passed
      <4>1. d = "allowed" /\ p = <<r, c>>
        BY <3>2
      <4> QED
        BY <1>0, <4>1 DEF SlidingScript
    <3> QED
      BY <3>1, <3>2
  <2>5. Cardinality(zset') <= Limit
    <3>1. CASE d = "rejected"
      BY <1>0, <1>1, <2>2, <3>1 DEF SlidingScript
    <3>2. CASE d = "allowed"
      <4>1. Cardinality(InWindow(r)) < Limit
        BY <1>0, <1>1, <3>2 DEF SlidingScript
      <4>2. Cardinality(InWindow(r) \union {<<r, c>>})
              = IF <<r, c>> \in InWindow(r) THEN Cardinality(InWindow(r))
                                            ELSE Cardinality(InWindow(r)) + 1
        BY <1>1, FS_AddElement, Zenon
      <4>3. zset' = InWindow(r) \union {<<r, c>>}
        BY <1>0, <3>2 DEF SlidingScript
      <4> QED
        BY <1>1, <4>1, <4>2, <4>3
    <3> QED
      BY <3>1, <3>2
  <2>6. WindowCapacity'
    <3> SUFFICES ASSUME NEW t \in Buckets PROVE Cardinality(PassedIn(t)') <= Limit
      BY DEF WindowCapacity, Buckets
    <3>0. t \in Nat
      BY RequestsAssumption DEF Buckets
    <3>1. CASE d = "allowed" /\ c <= t /\ c + WindowSec > t
      <4>1. PassedIn(t)' \subseteq zset'
        BY <1>0, <2>3, <3>0, <3>1 DEF PassedIn, SlidingScript
      <4>2. IsFiniteSet(zset')
        BY <1>2 DEF HistoryFinite
      <4>3. Cardinality(PassedIn(t)') <= Cardinality(zset')
        BY <4>1, <4>2, FS_Subset
      <4>4. Cardinality(PassedIn(t)') \in Nat /\ Cardinality(zset') \in Nat
        BY <4>1, <4>2, FS_Subset, FS_CardinalityType
      <4> QED
        BY <2>5, <4>3, <4>4
    <3>2. CASE ~(d = "allowed" /\ c <= t /\ c + WindowSec > t)
      <4>1. PassedIn(t)' = PassedIn(t)
        BY <1>0, <3>0, <3>2 DEF PassedIn
      <4> QED
        BY <2>2, <4>1 DEF WindowCapacity
    <3> QED
      BY <3>1, <3>2
  <2> QED
    BY <2>4, <2>5, <2>6
<1> QED
  BY <1>2, <1>3, <1>4 DEF SlidingInv

\* SlidingInv is inductive for the sliding algorithm.
LEMMA SlidingStep ==
  algorithm = "sliding" /\ TypeOK /\ SlidingInv /\ [Next]_vars => SlidingInv'
<1> SUFFICES ASSUME algorithm = "sliding", TypeOK, SlidingInv, [Next]_vars PROVE SlidingInv'
  OBVIOUS
<1> USE RuleAssumption, RequestsAssumption
<1>1. CASE Tick
  <2>0. /\ now \in Nat /\ lastClk \in Nat /\ zsetExp \in Nat /\ now' = now + 1
        /\ \A m \in zset \union passed : m[2] \in Nat
        /\ clk \in [Requests -> Nat]
    BY <1>1 DEF TypeOK, Buckets, Tick
  <2>1. HistoryFinite'
    BY <1>1, FS_EmptySet DEF Tick, SlidingInv, HistoryFinite, history
  <2>2. ScoresPast'
    BY <1>1, <2>0 DEF Tick, SlidingInv, ScoresPast
  <2>3. ASSUME ~reordered', ~late'
        PROVE  Remembered' /\ Cardinality(zset') <= Limit /\ WindowCapacity'
    <3>1. Remembered /\ Cardinality(zset) <= Limit /\ WindowCapacity
      BY <1>1, <2>3 DEF Tick, SlidingInv, history
    <3>2. Remembered'
      <4> SUFFICES ASSUME NEW p \in passed
                   PROVE  \/ p \in zset' \/ p[2] + WindowSec <= lastClk
                          \/ p[2] + WindowSec + 1 <= now + 1
        BY <1>1 DEF Tick, Remembered, history
      <4>1. CASE p \in zset /\ p \notin zset'
        BY <1>1, <2>0, <4>1 DEF Tick, SlidingInv, ScoresPast
      <4> QED
        BY <2>0, <3>1, <4>1 DEF Remembered
    <3>3. Cardinality(zset') <= Limit
      BY <1>1, <3>1, FS_EmptySet DEF Tick
    <3>4. WindowCapacity'
      BY <1>1, <3>1 DEF Tick, WindowCapacity, PassedIn, Buckets, history
    <3> QED
      BY <3>2, <3>3, <3>4
  <2> QED
    BY <2>1, <2>2, <2>3 DEF SlidingInv
<1>2. ASSUME NEW r \in Requests, ReadClock(r) PROVE SlidingInv'
  <2>1. clk' \in [Requests -> Nat] /\ \A q \in Requests : clk'[q] <= now
    BY <1>2 DEF ReadClock, TypeOK, Buckets, SlidingInv, ScoresPast
  <2> QED
    BY <1>2, <2>1 DEF ReadClock, storeVars, history, SlidingInv, HistoryFinite,
       ScoresPast, Remembered, WindowCapacity, PassedIn
<1>3. ASSUME NEW r \in Requests, Decide(r) PROVE SlidingInv'
  <2>1. PICK d \in {"allowed", "rejected"} :
          /\ RunScript(r, d)
          /\ passed' = IF d = "allowed" THEN passed \union {<<r, clk[r]>>} ELSE passed
    BY <1>3 DEF Decide
  <2> QED
    BY <2>1, SlidingScriptStep
<1>4. ASSUME NEW r \in Requests, FailOpen(r) PROVE SlidingInv'
  BY <1>4 DEF FailOpen, storeVars, history, SlidingInv, HistoryFinite, ScoresPast,
     Remembered, WindowCapacity, PassedIn
<1>5. ASSUME NEW r \in Requests, FailOpenAfterScript(r) PROVE SlidingInv'
  BY <1>5, SlidingScriptStep DEF FailOpenAfterScript
<1>6. CASE UNCHANGED vars
  BY <1>6 DEF vars, storeVars, history, SlidingInv, HistoryFinite, ScoresPast,
     Remembered, WindowCapacity, PassedIn
<1> QED
  BY <1>1, <1>2, <1>3, <1>4, <1>5, <1>6 DEF Next

\* The sliding window's promise: scripts that run in the order of their clock
\* readings and within a second of them never let more than Limit requests
\* pass in any window, whatever replies are lost and keys expire.
THEOREM SlidingWindowCapacity == Spec => []SlidingCapacity
<1> DEFINE Inv == algorithm = "sliding" => SlidingInv
<1>1. Init => Inv
  BY FS_EmptySet, RuleAssumption, RequestsAssumption
  DEF Init, SlidingInv, HistoryFinite, ScoresPast, Remembered, WindowCapacity, PassedIn,
      Buckets
<1>2. Inv => SlidingCapacity
  BY DEF SlidingInv, SlidingCapacity, WindowCapacity
<1>3. TypeOK /\ Inv /\ [Next]_vars => Inv'
  <2>1. [Next]_vars => algorithm' = algorithm
    BY DEF Next, vars
  <2> QED
    BY <2>1, SlidingStep
<1> QED
  BY <1>1, <1>2, <1>3, RateLimiterTypeOK, PTL DEF Spec

-----------------------------------------------------------------------------
\* Two instants of one bucket are less than a window apart (floor(now/window)).
LEMMA SameBucket ==
  ASSUME NEW s \in Nat, NEW t \in Nat, Bucket(s) = Bucket(t)
  PROVE  t < s + WindowSec
<1> USE RuleAssumption DEF Bucket
<1> DEFINE k == s \div WindowSec
<1>1. k * WindowSec <= s
  OBVIOUS
<1>2. t < k * WindowSec + WindowSec
  OBVIOUS
<1>3. k * WindowSec \in Nat
  OBVIOUS
<1> QED
  BY <1>1, <1>2, <1>3

\* The requests of a bucket that passed.
PassedOf(b) == {p \in passed : Bucket(p[2]) = b}

\* A bucket is over when even a script a second late cannot belong to it.
BucketOver(b) == \A t \in Buckets : Bucket(t) = b => t + 1 < now

\* The counter bounds what passed until the bucket is over, and its key
\* outlives the bucket.
FixedInv ==
  /\ IsFiniteSet(passed)
  /\ \A r \in Requests : clk[r] <= now
  /\ \A b \in Buckets : count[b] # 0 =>
       \A t \in Buckets : Bucket(t) = b => t + 1 < countExp[b]
  /\ ~late => \A b \in Buckets :
       /\ Cardinality(PassedOf(b)) <= Limit
       /\ Cardinality(PassedOf(b)) <= count[b] \/ BucketOver(b)

\* What one run of fixed_window.lua does to the counters and the promise.
LEMMA FixedScriptStep ==
  ASSUME TypeOK, FixedInv, algorithm = "fixed",
         NEW r \in Requests, NEW d \in {"allowed", "rejected"}, RunScript(r, d),
         passed' = passed \/ (d = "allowed" /\ passed' = passed \union {<<r, clk[r]>>})
  PROVE  FixedInv'
<1> USE RuleAssumption, RequestsAssumption
<1> DEFINE c == clk[r]
           h == Bucket(c)
<1>0. /\ FixedScript(r, d) /\ Observe(r) /\ now' = now /\ clk' = clk
      /\ now \in Nat /\ c \in Buckets /\ c \in Nat /\ c <= now
      /\ count \in [Buckets -> Nat] /\ countExp \in [Buckets -> Nat]
  BY DEF RunScript, TypeOK, Buckets, FixedInv
<1>1. IsFiniteSet(passed')
  <2>1. IsFiniteSet(passed)
    BY Zenon DEF FixedInv
  <2>2. IsFiniteSet(passed \union {<<r, c>>})
    BY <2>1, FS_AddElement, Zenon
  <2> QED
    BY <2>1, <2>2
<1>2. \A q \in Requests : clk'[q] <= now'
  BY <1>0 DEF FixedInv
<1>3. ASSUME NEW b \in Buckets, count'[b] # 0, NEW t \in Buckets, Bucket(t) = b
      PROVE  t + 1 < countExp'[b]
  <2>0. t \in Nat
    BY DEF Buckets
  <2>1. CASE b = h /\ count[b] = 0
    <3>1. t < c + WindowSec
      BY <1>0, <1>3, <2>0, <2>1, SameBucket
    <3>2. countExp'[b] = now + WindowSec + 1
      BY <1>0, <2>1 DEF FixedScript, Ttl
    <3> QED
      BY <1>0, <2>0, <3>1, <3>2
  <2>2. CASE ~(b = h /\ count[b] = 0)
    <3>1. count[b] # 0 /\ countExp'[b] = countExp[b]
      BY <1>0, <1>3, <2>2 DEF FixedScript
    <3> QED
      BY <1>3, <3>1 DEF FixedInv
  <2> QED
    BY <2>1, <2>2
<1>4. ASSUME ~late', NEW b \in Buckets
      PROVE  /\ Cardinality(PassedOf(b)') <= Limit
             /\ Cardinality(PassedOf(b)') <= count'[b] \/ BucketOver(b)'
  <2>0. ~late /\ ~(now > c + 1)
    BY <1>0, <1>4, Zenon DEF Observe
  <2>1. /\ Cardinality(PassedOf(b)) <= Limit
        /\ Cardinality(PassedOf(b)) <= count[b] \/ BucketOver(b)
    BY <2>0 DEF FixedInv
  <2>2. IsFiniteSet(PassedOf(b)) /\ Cardinality(PassedOf(b)) \in Nat
    BY FS_Subset, FS_CardinalityType DEF PassedOf, FixedInv
  <2>3. BucketOver(b)' <=> BucketOver(b)
    BY <1>0 DEF BucketOver
  <2>4. CASE b # h
    <3>1. PassedOf(b)' = PassedOf(b)
      BY <2>4 DEF PassedOf
    <3>2. count'[b] = count[b]
      BY <1>0, <2>4 DEF FixedScript
    <3> QED
      BY <2>1, <2>3, <3>1, <3>2
  <2>5. CASE b = h
    \* The script is not late, so its bucket is not over.
    <3>1. Cardinality(PassedOf(b)) <= count[b]
      BY <1>0, <2>0, <2>1, <2>5 DEF BucketOver
    <3>2. count'[b] = count[b] + 1 /\ count[b] \in Nat
      BY <1>0, <2>5 DEF FixedScript
    <3>3. CASE passed' = passed
      <4>1. PassedOf(b)' = PassedOf(b)
        BY <3>3 DEF PassedOf
      <4> QED
        BY <2>1, <2>2, <3>1, <3>2, <4>1
    <3>4. CASE d = "allowed" /\ passed' = passed \union {<<r, c>>}
      <4>1. PassedOf(b)' = PassedOf(b) \union {<<r, c>>}
        BY <2>5, <3>4 DEF PassedOf
      <4>2. Cardinality(PassedOf(b) \union {<<r, c>>})
              = IF <<r, c>> \in PassedOf(b) THEN Cardinality(PassedOf(b))
                                           ELSE Cardinality(PassedOf(b)) + 1
        BY <2>2, FS_AddElement, Zenon
      <4>3. count[b] + 1 <= Limit
        BY <1>0, <2>5, <3>4 DEF FixedScript
      <4> QED
        BY <2>2, <3>1, <3>2, <4>1, <4>2, <4>3
    <3> QED
      BY <3>3, <3>4
  <2> QED
    BY <2>4, <2>5
<1> QED
  BY <1>1, <1>2, <1>3, <1>4 DEF FixedInv, PassedOf, BucketOver

\* FixedInv is inductive for the fixed algorithm.
LEMMA FixedStep ==
  algorithm = "fixed" /\ TypeOK /\ FixedInv /\ [Next]_vars => FixedInv'
<1> SUFFICES ASSUME algorithm = "fixed", TypeOK, FixedInv, [Next]_vars PROVE FixedInv'
  OBVIOUS
<1> USE RuleAssumption, RequestsAssumption
<1>1. CASE Tick
  <2>0. /\ now \in Nat /\ now' = now + 1 /\ passed' = passed /\ late' = late /\ clk' = clk
        /\ count \in [Buckets -> Nat] /\ countExp \in [Buckets -> Nat] /\ countExp' = countExp
        /\ clk \in [Requests -> Nat] /\ Buckets \subseteq Nat
    BY <1>1 DEF TypeOK, Buckets, Tick, history
  <2>1. ASSUME NEW b \in Buckets
        PROVE  count'[b] = IF countExp[b] <= now + 1 THEN 0 ELSE count[b]
    BY <1>1 DEF Tick
  <2>2. ASSUME NEW b \in Buckets, BucketOver(b) PROVE BucketOver(b)'
    BY <2>0, <2>2 DEF BucketOver
  <2>3. ASSUME NEW b \in Buckets, count[b] # 0, countExp[b] <= now + 1 PROVE BucketOver(b)'
    BY <2>0, <2>3 DEF BucketOver, FixedInv
  <2>4. ASSUME ~late', NEW b \in Buckets
        PROVE  /\ Cardinality(PassedOf(b)') <= Limit
               /\ Cardinality(PassedOf(b)') <= count'[b] \/ BucketOver(b)'
    <3>1. PassedOf(b)' = PassedOf(b)
      BY <2>0 DEF PassedOf
    <3>2. /\ Cardinality(PassedOf(b)) <= Limit
          /\ Cardinality(PassedOf(b)) <= count[b] \/ BucketOver(b)
      BY <2>0, <2>4 DEF FixedInv
    <3>3. CASE count[b] = 0 \/ ~(countExp[b] <= now + 1)
      BY <2>1, <2>2, <3>1, <3>2, <3>3
    <3>4. CASE count[b] # 0 /\ countExp[b] <= now + 1
      BY <2>3, <3>1, <3>2, <3>4
    <3> QED
      BY <3>3, <3>4
  <2>5. \A q \in Requests : clk'[q] <= now'
    BY <2>0 DEF FixedInv
  <2>6. \A b \in Buckets : count'[b] # 0 =>
          \A t \in Buckets : Bucket(t) = b => t + 1 < countExp'[b]
    BY <2>0, <2>1 DEF FixedInv
  <2> QED
    BY <2>0, <2>4, <2>5, <2>6 DEF FixedInv, PassedOf, BucketOver
<1>2. ASSUME NEW r \in Requests, ReadClock(r) PROVE FixedInv'
  <2>1. \A q \in Requests : clk'[q] <= now
    BY <1>2 DEF ReadClock, TypeOK, Buckets, FixedInv
  <2> QED
    BY <1>2, <2>1 DEF ReadClock, storeVars, history, FixedInv, PassedOf, BucketOver
<1>3. ASSUME NEW r \in Requests, Decide(r) PROVE FixedInv'
  <2>1. PICK d \in {"allowed", "rejected"} :
          /\ RunScript(r, d)
          /\ passed' = IF d = "allowed" THEN passed \union {<<r, clk[r]>>} ELSE passed
    BY <1>3 DEF Decide
  <2> QED
    BY <2>1, FixedScriptStep
<1>4. ASSUME NEW r \in Requests, FailOpen(r) PROVE FixedInv'
  BY <1>4 DEF FailOpen, storeVars, history, FixedInv, PassedOf, BucketOver
<1>5. ASSUME NEW r \in Requests, FailOpenAfterScript(r) PROVE FixedInv'
  BY <1>5, FixedScriptStep DEF FailOpenAfterScript
<1>6. CASE UNCHANGED vars
  BY <1>6 DEF vars, storeVars, history, FixedInv, PassedOf, BucketOver
<1> QED
  BY <1>1, <1>2, <1>3, <1>4, <1>5, <1>6 DEF Next

\* The fixed window's promise: no bucket lets more than Limit requests pass,
\* in any order of the scripts, as long as none runs over a second late.
THEOREM FixedWindowCapacity == Spec => []FixedCapacity
<1> DEFINE Inv == algorithm = "fixed" => FixedInv
<1>1. Init => Inv
  <2> SUFFICES ASSUME Init PROVE FixedInv
    OBVIOUS
  <2>1. \A b \in Buckets : PassedOf(b) = {}
    BY DEF Init, PassedOf
  <2>2. \A b \in Buckets : Cardinality(PassedOf(b)) = 0 /\ count[b] = 0
    BY <2>1, FS_EmptySet DEF Init
  <2>3. IsFiniteSet(passed) /\ \A r \in Requests : clk[r] <= now
    BY FS_EmptySet DEF Init
  <2> QED
    BY <2>2, <2>3, RuleAssumption DEF FixedInv
<1>2. Inv => FixedCapacity
  BY DEF FixedInv, FixedCapacity, PassedOf
<1>3. TypeOK /\ Inv /\ [Next]_vars => Inv'
  <2>1. [Next]_vars => algorithm' = algorithm
    BY DEF Next, vars
  <2> QED
    BY <2>1, FixedStep
<1> QED
  BY <1>1, <1>2, <1>3, RateLimiterTypeOK, PTL DEF Spec

-----------------------------------------------------------------------------
(* A refusal is justified *)

\* The requests a bucket's counter, and the ZSET, can have counted.
CountedOf(b) == {m \in counted : Bucket(m[2]) = b}

\* What Redis holds was counted, each request once; the keys may have
\* forgotten some of it, never the other way round.
CountedInv ==
  /\ IsFiniteSet(counted)
  /\ \A m \in counted : pc[m[1]] \notin {"new", "script"}
  /\ zset \subseteq counted
  /\ \A b \in Buckets : count[b] <= Cardinality(CountedOf(b))

\* CountedInv is about the store, the counted requests and who is still to come.
LEMMA CountedKept ==
  ASSUME TypeOK, CountedInv, counted' = counted, zset' \subseteq zset,
         \A b \in Buckets : count'[b] \in {0, count[b]},
         \A r \in Requests : pc[r] \notin {"new", "script"} => pc'[r] = pc[r]
  PROVE  CountedInv'
<1>1. \A b \in Buckets : CountedOf(b)' = CountedOf(b) /\ Cardinality(CountedOf(b)) \in Nat
  BY FS_Subset, FS_CardinalityType DEF CountedOf, CountedInv
<1>2. \A b \in Buckets : count'[b] <= Cardinality(CountedOf(b)')
  BY <1>1 DEF CountedInv, TypeOK
<1>3. \A m \in counted : m[1] \in Requests
  BY DEF TypeOK
<1> QED
  BY <1>2, <1>3 DEF CountedInv

\* The counted requests of a bucket, one script later.
LEMMA OneMoreCounted ==
  ASSUME CountedInv, NEW m, m \notin counted, counted' = counted \union {m}, NEW b
  PROVE  /\ Cardinality(CountedOf(b)) \in Nat
         /\ Cardinality(CountedOf(b)') =
              Cardinality(CountedOf(b)) + (IF Bucket(m[2]) = b THEN 1 ELSE 0)
<1>1. IsFiniteSet(CountedOf(b)) /\ Cardinality(CountedOf(b)) \in Nat
  BY FS_Subset, FS_CardinalityType DEF CountedOf, CountedInv
<1>2. CASE Bucket(m[2]) = b
  <2>1. CountedOf(b)' = CountedOf(b) \union {m} /\ m \notin CountedOf(b)
    BY <1>2 DEF CountedOf
  <2>2. Cardinality(CountedOf(b) \union {m}) = Cardinality(CountedOf(b)) + 1
    BY <1>1, <2>1, FS_AddElement
  <2> QED
    BY <1>1, <1>2, <2>1, <2>2
<1>3. CASE Bucket(m[2]) # b
  <2>1. CountedOf(b)' = CountedOf(b)
    BY <1>3 DEF CountedOf
  <2> QED
    BY <1>1, <1>3, <2>1
<1> QED
  BY <1>2, <1>3

\* A script counts its request at most once, in the ZSET or in its bucket.
LEMMA CountedScriptStep ==
  ASSUME TypeOK, CountedInv, NEW r \in Requests, NEW d \in {"allowed", "rejected"},
         RunScript(r, d), NEW v \in Decisions, pc' = [pc EXCEPT ![r] = v]
  PROVE  CountedInv'
<1>1. /\ pc[r] = "script" /\ pc'[r] = v /\ v \notin {"new", "script"}
      /\ \A q \in Requests : q # r => pc'[q] = pc[q]
  BY DEF RunScript, TypeOK, Decisions
<1>2. PICK m : m = <<r, clk[r]>>
  OBVIOUS
<1>3. m[1] = r /\ m[2] = clk[r]
  BY <1>2
<1>4. m \notin counted
  BY <1>1, <1>3 DEF CountedInv
<1>5. CASE counted' = counted
  <2>1. zset' \subseteq zset /\ count' = count
    BY <1>2, <1>4, <1>5 DEF RunScript, SlidingScript, FixedScript, InWindow
  <2> QED
    BY <1>1, <1>5, <2>1, CountedKept
<1>6. CASE counted' = counted \union {m}
  <2>1. IsFiniteSet(counted')
    BY <1>6, FS_AddElement DEF CountedInv
  <2>2. \A x \in counted' : pc'[x[1]] \notin {"new", "script"}
    BY <1>1, <1>3, <1>6 DEF CountedInv, TypeOK
  <2>3. zset' \subseteq counted'
    BY <1>2, <1>6 DEF RunScript, SlidingScript, FixedScript, InWindow, CountedInv
  <2>4. ASSUME NEW b \in Buckets PROVE count'[b] <= Cardinality(CountedOf(b)')
    <3>1. /\ Cardinality(CountedOf(b)) \in Nat
          /\ Cardinality(CountedOf(b)') =
               Cardinality(CountedOf(b)) + (IF Bucket(m[2]) = b THEN 1 ELSE 0)
      BY <1>4, <1>6, OneMoreCounted
    <3>2. count[b] \in Nat /\ count[b] <= Cardinality(CountedOf(b))
      BY DEF CountedInv, TypeOK
    <3>3. count'[b] = count[b] \/ (Bucket(m[2]) = b /\ count'[b] = count[b] + 1)
      BY <1>3 DEF RunScript, SlidingScript, FixedScript, TypeOK
    <3> QED
      BY <3>1, <3>2, <3>3
  <2> QED
    BY <2>1, <2>2, <2>3, <2>4 DEF CountedInv
<1> QED
  BY <1>2, <1>5, <1>6 DEF RunScript, SlidingScript, FixedScript

\* CountedInv is inductive, for both algorithms.
LEMMA CountedStep == TypeOK /\ CountedInv /\ [Next]_vars => CountedInv'
<1> SUFFICES ASSUME TypeOK, CountedInv, [Next]_vars PROVE CountedInv'
  OBVIOUS
<1>1. CASE Tick
  BY <1>1, CountedKept DEF Tick, history
<1>2. ASSUME NEW r \in Requests, ReadClock(r) PROVE CountedInv'
  <2>1. \A q \in Requests : pc[q] \notin {"new", "script"} => pc'[q] = pc[q]
    BY <1>2 DEF ReadClock, TypeOK
  <2> QED
    BY <1>2, <2>1, CountedKept DEF ReadClock, history, storeVars
<1>3. ASSUME NEW r \in Requests, Decide(r) PROVE CountedInv'
  BY <1>3, CountedScriptStep DEF Decide, Decisions
<1>4. ASSUME NEW r \in Requests, FailOpen(r) PROVE CountedInv'
  <2>1. \A q \in Requests : pc[q] \notin {"new", "script"} => pc'[q] = pc[q]
    BY <1>4 DEF FailOpen, TypeOK
  <2> QED
    BY <1>4, <2>1, CountedKept DEF FailOpen, history, storeVars
<1>5. ASSUME NEW r \in Requests, FailOpenAfterScript(r) PROVE CountedInv'
  BY <1>5, CountedScriptStep DEF FailOpenAfterScript, Decisions
<1>6. CASE UNCHANGED vars
  BY <1>6, CountedKept DEF vars, history, storeVars
<1> QED
  BY <1>1, <1>2, <1>3, <1>4, <1>5, <1>6 DEF Next

\* A request becomes "rejected" by its own script alone.
LEMMA OnlyScriptsReject ==
  ASSUME TypeOK, [Next]_vars, NEW r \in Requests, pc[r] # "rejected", pc'[r] = "rejected"
  PROVE  RunScript(r, "rejected")
<1>1. ASSUME NEW q \in Requests, NEW v, pc' = [pc EXCEPT ![q] = v] PROVE q = r /\ v = "rejected"
  BY <1>1 DEF TypeOK
<1>2. PICK q \in Requests : ReadClock(q) \/ Decide(q) \/ FailOpen(q) \/ FailOpenAfterScript(q)
  BY DEF Next, vars, Tick
<1>3. Decide(q)
  BY <1>1, <1>2 DEF ReadClock, FailOpen, FailOpenAfterScript
<1> QED
  BY <1>1, <1>3 DEF Decide

\* sliding_window.lua and fixed_window.lua refuse a request only when at least
\* Limit others were counted in its window or bucket, for any limit, window and
\* number of requests, whatever the order and the delays of the scripts.
THEOREM NoSpuriousRejection == Spec => RejectedOnlyWhenFull
<1> DEFINE Against(r) == {m \in counted : IF algorithm = "sliding" THEN m[2] + WindowSec > clk[r]
                                          ELSE Bucket(m[2]) = Bucket(clk[r])}
           Justified == \A r \in Requests : pc[r] # "rejected" /\ pc'[r] = "rejected" =>
                          Limit <= Cardinality(Against(r))
<1>1. Init => CountedInv
  <2> SUFFICES ASSUME Init PROVE CountedInv
    OBVIOUS
  <2>1. counted = {} /\ zset = {} /\ count = [b \in Buckets |-> 0]
    BY DEF Init
  <2>2. \A b \in Buckets : CountedOf(b) = {}
    BY <2>1 DEF CountedOf
  <2> QED
    BY <2>1, <2>2, FS_EmptySet DEF CountedInv
<1>2. TypeOK /\ CountedInv /\ [Next]_vars => Justified
  <2> SUFFICES ASSUME TypeOK, CountedInv, [Next]_vars, NEW r \in Requests,
                      pc[r] # "rejected", pc'[r] = "rejected"
               PROVE  Limit <= Cardinality(Against(r))
    OBVIOUS
  <2>1. RunScript(r, "rejected")
    BY OnlyScriptsReject
  <2>2. IsFiniteSet(Against(r)) /\ Cardinality(Against(r)) \in Nat
    BY FS_Subset, FS_CardinalityType DEF CountedInv
  <2>3. CASE algorithm = "sliding"
    <3>1. Cardinality(InWindow(r)) >= Limit
      BY <2>1, <2>3 DEF RunScript, SlidingScript
    <3>2. InWindow(r) \subseteq Against(r)
      BY <2>3 DEF InWindow, CountedInv
    <3>3. Cardinality(InWindow(r)) <= Cardinality(Against(r)) /\ Cardinality(InWindow(r)) \in Nat
      BY <2>2, <3>2, FS_Subset, FS_CardinalityType
    <3> QED
      BY <2>2, <3>1, <3>3, RuleAssumption
  <2>4. CASE algorithm = "fixed"
    <3>1. Bucket(clk[r]) \in Buckets
      <4>1. PICK c \in Nat : c = clk[r] /\ c <= MaxTime
        BY RequestsAssumption DEF TypeOK, Buckets
      <4>2. c \div WindowSec \in Nat /\ (c \div WindowSec) * WindowSec <= c
        BY RuleAssumption
      <4>3. \A k, w \in Nat : w # 0 => k <= k * w
        OBVIOUS
      <4>4. c \div WindowSec <= c
        BY <4>2, <4>3, RuleAssumption
      <4> QED
        BY <4>1, <4>2, <4>4, RequestsAssumption DEF Bucket, Buckets
    <3>2. count[Bucket(clk[r])] \in Nat /\ count[Bucket(clk[r])] <= Cardinality(CountedOf(Bucket(clk[r])))
      BY <3>1 DEF TypeOK, CountedInv
    <3>3. ~(count[Bucket(clk[r])] + 1 <= Limit)
      BY <2>1, <2>4 DEF RunScript, FixedScript
    <3>4. CountedOf(Bucket(clk[r])) = Against(r)
      BY <2>4 DEF CountedOf
    <3> QED
      BY <2>2, <3>2, <3>3, <3>4, RuleAssumption
  <2> QED
    BY <2>3, <2>4 DEF TypeOK
<1>3. TypeOK /\ CountedInv /\ [Next]_vars => CountedInv'
  BY CountedStep
<1>4. TypeOK /\ CountedInv /\ [Next]_vars => [Justified]_vars
  BY <1>2
<1> QED
  BY <1>1, <1>3, <1>4, RateLimiterTypeOK, PTL DEF Spec, RejectedOnlyWhenFull
=============================================================================
