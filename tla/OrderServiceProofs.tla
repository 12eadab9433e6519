-------------------------- MODULE OrderServiceProofs --------------------------
(***************************************************************************)
(* Proofs about OrderService for any number of requests and orders, any    *)
(* TTL, number of attempts, delays and budget.                             *)
(***************************************************************************)
EXTENDS OrderService, TLAPS

\* A request that sleeps has an attempt left.
AttemptLeft == \A r \in Requests : pc[r] = "sleep" => attempt[r] < MaxAttempts

\* What the control point of a request says about what it is, has read and has
\* written: a cancel writes only what it has seen created.
CallShape(r) ==
  /\ op[r] = "idle" <=> pc[r] = "idle"
  /\ pc[r] = "idle" => saw[r] = "unseen" /\ late[r] = 0 /\ r \notin wrote
  /\ pc[r] # "done" => answer[r] = "none"
  /\ op[r] = "create" => cmd[r] = "set"
  /\ op[r] = "get" => cmd[r] = "get"
  /\ op[r] = "cancel" /\ cmd[r] = "set" => saw[r] = "created"
  /\ r \in wrote => cmd[r] = "set"
  /\ pc[r] = "return" /\ cmd[r] = "set" => r \in wrote
  /\ pc[r] = "return" /\ cmd[r] = "get" =>
       saw[r] \in {"none", "cancelled"} \/ (saw[r] = "created" /\ op[r] = "get")
CallInv == \A r \in Requests : CallShape(r)

\* A request that has started an attempt past its deadline sleeps no more.
LateShape(r) ==
  /\ pc[r] = "sleep" => late[r] = 0
  /\ pc[r] \in {"attempt", "except"} /\ late[r] > 0 => PastDeadline(r)
  /\ late[r] <= IF op[r] = "cancel" /\ cmd[r] = "set" THEN 2 ELSE 1
LateInv == \A r \in Requests : LateShape(r)

\* Whoever reads or cancels an order began after its creation was answered.
CreationOver ==
  \A c, r \in Requests :
    op[c] \in {"get", "cancel"} /\ op[r] = "create" /\ target[c] = target[r] => answer[r] # "none"

\* An order that was cancelled, or seen cancelled, is not created any more.
Settled ==
  \A c \in Requests :
    op[c] \in {"get", "cancel"} /\ (c \in wrote \/ saw[c] = "cancelled")
      => status[target[c]] # "created"

\* Answers tell what was written and seen.
Truthful ==
  \A r \in Requests :
    /\ op[r] = "cancel" /\ answer[r] = "cancelled" => r \in wrote
    /\ op[r] = "cancel" /\ answer[r] = "already" => saw[r] = "cancelled"
    /\ answer[r] = "created" => saw[r] = "created"

Confirmed(c) == op[c] = "cancel" /\ answer[c] \in {"cancelled", "already"}

\* Who began after a confirmed cancel has not seen the order created.
SeesCancel ==
  \A c, r \in Requests :
    c \in before[r] =>
      /\ answer[c] # "none"
      /\ Confirmed(c) /\ target[c] = target[r] => saw[r] # "created"

CancelInv == CreationOver /\ Settled /\ Truthful /\ SeesCancel

-----------------------------------------------------------------------------
\* Every step keeps the types, given what the control points say.
LEMMA TypeStep ==
  ASSUME TypeOK, AttemptLeft, CallInv, [Next]_vars
  PROVE  TypeOK' /\ AttemptLeft'
<1> USE RetryConfigAssumption DEF TypeOK, AttemptLeft
<1>1. ASSUME NEW r \in Requests, Begin(r) PROVE TypeOK' /\ AttemptLeft'
  BY <1>1 DEF Begin, Ops, storeVars
<1>2. ASSUME NEW r \in Requests, AttemptOk(r) PROVE TypeOK' /\ AttemptLeft'
  <2>1. /\ status' \in [Orders -> {"none", "created", "cancelled"}] /\ expires' \in [Orders -> Nat]
        /\ saw' \in [Requests -> {"unseen", "none", "created", "cancelled"}]
        /\ wrote' \subseteq Requests
    BY <1>2 DEF AttemptOk, RunGet, RunSet, storeVars
  <2>2. /\ pc' \in [Requests -> {"idle", "attempt", "except", "sleep", "return", "done"}]
        /\ cmd' \in [Requests -> {"get", "set"}] /\ attempt' \in [Requests -> 0 .. MaxAttempts]
        /\ wake' \in [Requests -> Nat] /\ late' \in [Requests -> Nat]
        /\ AttemptLeft'
    BY <1>2 DEF AttemptOk, FirstAttempt, retryVars
  <2> QED
    BY <1>2, <2>1, <2>2 DEF AttemptOk, callVars
<1>3. ASSUME NEW r \in Requests, AttemptLost(r) PROVE TypeOK' /\ AttemptLeft'
  BY <1>3 DEF AttemptLost, RunSet, storeVars, callVars, retryVars
<1>4. ASSUME NEW r \in Requests, NEW a \in {"201", "404", "503", "created", "cancelled", "already"},
             End(r, a)
      PROVE  TypeOK' /\ AttemptLeft'
  BY <1>4 DEF End, storeVars
<1>5. ASSUME NEW r \in Requests, AttemptFatal(r) \/ GiveUp(r) PROVE TypeOK' /\ AttemptLeft'
  BY <1>4, <1>5 DEF AttemptFatal, GiveUp, Answer503
<1>6. ASSUME NEW r \in Requests, BackOff(r) PROVE TypeOK' /\ AttemptLeft'
  <2>1. PICK d \in 0 .. DelayCap(attempt[r]) : wake' = [wake EXCEPT ![r] = now + d]
    BY <1>6 DEF BackOff
  <2> QED
    BY <1>6, <2>1 DEF BackOff, storeVars, callVars
<1>7. ASSUME NEW r \in Requests, Retry(r) PROVE TypeOK' /\ AttemptLeft'
  BY <1>7 DEF Retry, storeVars, callVars
<1>8. ASSUME NEW r \in Requests, Return(r) PROVE TypeOK' /\ AttemptLeft'
  <2>1. Result(r) \in {"201", "404", "503", "created", "cancelled", "already"}
    BY <1>8 DEF Return, Result, CallInv, CallShape
  <2> QED
    BY <1>4, <1>8, <2>1 DEF Return
<1>9. ASSUME NEW o \in Orders, Expire(o) PROVE TypeOK' /\ AttemptLeft'
  BY <1>9 DEF Expire, callVars, retryVars
<1>10. CASE Tick
  BY <1>10 DEF Tick, storeVars, callVars, retryVars
<1>11. CASE UNCHANGED vars
  BY <1>11 DEF vars, storeVars, callVars, retryVars
<1> QED
  BY <1>1, <1>2, <1>3, <1>5, <1>6, <1>7, <1>8, <1>9, <1>10, <1>11 DEF Next, Step

\* Every step keeps what the control points say.
LEMMA CallStep ==
  ASSUME TypeOK, CallInv, [Next]_vars
  PROVE  CallInv'
<1> USE DEF TypeOK, CallInv, CallShape
<1>1. ASSUME NEW r \in Requests, Begin(r) PROVE CallInv'
  BY <1>1 DEF Begin, Ops, storeVars
<1>2. ASSUME NEW r \in Requests, AttemptOk(r) PROVE CallInv'
  <2>1. CASE RunGet(r) /\ NeedsWrite(r)
    BY <1>2, <2>1 DEF AttemptOk, RunGet, NeedsWrite, FirstAttempt, callVars
  <2>2. CASE RunGet(r) /\ ~NeedsWrite(r)
    BY <1>2, <2>2 DEF AttemptOk, RunGet, NeedsWrite, retryVars, callVars, Ops
  <2>3. CASE RunSet(r)
    BY <1>2, <2>3 DEF AttemptOk, RunSet, NeedsWrite, retryVars, callVars
  <2> QED
    BY <1>2, <2>1, <2>2, <2>3 DEF AttemptOk
<1>3. ASSUME NEW r \in Requests, AttemptLost(r) PROVE CallInv'
  BY <1>3 DEF AttemptLost, RunSet, storeVars, callVars, retryVars
<1>4. ASSUME NEW r \in Requests, NEW a, pc[r] # "idle", End(r, a) PROVE CallInv'
  BY <1>4 DEF End, storeVars
<1>5. ASSUME NEW r \in Requests, AttemptFatal(r) \/ GiveUp(r) \/ Return(r) PROVE CallInv'
  BY <1>4, <1>5 DEF AttemptFatal, GiveUp, Return, Answer503
<1>6. ASSUME NEW r \in Requests, BackOff(r) PROVE CallInv'
  BY <1>6 DEF BackOff, storeVars, callVars
<1>7. ASSUME NEW r \in Requests, Retry(r) PROVE CallInv'
  BY <1>7 DEF Retry, storeVars, callVars
<1>8. ASSUME NEW o \in Orders, Expire(o) PROVE CallInv'
  BY <1>8 DEF Expire, callVars, retryVars
<1>9. CASE Tick
  BY <1>9 DEF Tick, storeVars, callVars, retryVars
<1>10. CASE UNCHANGED vars
  BY <1>10 DEF vars, storeVars, callVars, retryVars
<1> QED
  BY <1>1, <1>2, <1>3, <1>5, <1>6, <1>7, <1>8, <1>9, <1>10 DEF Next, Step

\* The documents, the calls and the retry policy keep their types; the attempt
\* counter stays within max_attempts because only a call with one left sleeps.
THEOREM OrderServiceTypeOK == Spec => [](TypeOK /\ AttemptLeft /\ CallInv)
<1>1. Init => TypeOK /\ AttemptLeft /\ CallInv
  BY RetryConfigAssumption DEF Init, TypeOK, AttemptLeft, CallInv, CallShape
<1>2. TypeOK /\ AttemptLeft /\ CallInv /\ [Next]_vars => (TypeOK /\ AttemptLeft /\ CallInv)'
  BY TypeStep, CallStep
<1> QED
  BY <1>1, <1>2, PTL DEF Spec

-----------------------------------------------------------------------------
\* retry.py tests the deadline before a sleep and not before an attempt: a
\* request starts at most one attempt of each of its commands after its
\* deadline, for every budget, number of attempts and choice of delays.
THEOREM LateAttempts == Spec => []LateAttemptsBounded
<1> USE RetryConfigAssumption
<1>1. Init => LateInv
  BY DEF Init, LateInv, LateShape
<1>2. TypeOK /\ CallInv /\ LateInv /\ [Next]_vars => LateInv'
  <2> SUFFICES ASSUME TypeOK, CallInv, LateInv, [Next]_vars PROVE LateInv'
    OBVIOUS
  <2> USE DEF TypeOK, LateInv, LateShape, PastDeadline, HasDeadline, Deadline
  <2>1. ASSUME NEW r \in Requests, Begin(r) PROVE LateInv'
    BY <2>1 DEF Begin, CallInv, CallShape, storeVars
  <2>2. ASSUME NEW r \in Requests, AttemptOk(r) PROVE LateInv'
    <3>1. CASE NeedsWrite(r)
      BY <2>2, <3>1 DEF AttemptOk, NeedsWrite, FirstAttempt, callVars
    <3>2. CASE ~NeedsWrite(r)
      BY <2>2, <3>2 DEF AttemptOk, retryVars, callVars
    <3> QED
      BY <3>1, <3>2
  <2>3. ASSUME NEW r \in Requests, AttemptLost(r) PROVE LateInv'
    BY <2>3 DEF AttemptLost, callVars, retryVars
  <2>4. ASSUME NEW r \in Requests, NEW a, End(r, a) PROVE LateInv'
    BY <2>4 DEF End
  <2>5. ASSUME NEW r \in Requests, AttemptFatal(r) \/ GiveUp(r) \/ Return(r) PROVE LateInv'
    BY <2>4, <2>5 DEF AttemptFatal, GiveUp, Return, Answer503
  <2>6. ASSUME NEW r \in Requests, BackOff(r) PROVE LateInv'
    <3>1. PICK d \in 0 .. DelayCap(attempt[r]) : CanWait(r, d)
      BY <2>6 DEF BackOff
    <3>2. late[r] = 0
      BY <2>6, <3>1 DEF BackOff, CanWait
    <3> QED
      BY <2>6, <3>2 DEF BackOff, callVars
  <2>7. ASSUME NEW r \in Requests, Retry(r) PROVE LateInv'
    BY <2>7 DEF Retry, callVars
  <2>8. ASSUME NEW o \in Orders, Expire(o) PROVE LateInv'
    BY <2>8 DEF Expire, callVars, retryVars
  <2>9. CASE Tick
    BY <2>9 DEF Tick, callVars, retryVars
  <2>10. CASE UNCHANGED vars
    BY <2>10 DEF vars, callVars, retryVars
  <2> QED
    BY <2>1, <2>2, <2>3, <2>5, <2>6, <2>7, <2>8, <2>9, <2>10 DEF Next, Step
<1>3. TypeOK /\ LateInv => LateAttemptsBounded
  BY DEF TypeOK, LateInv, LateShape, LateAttemptsBounded
<1> QED
  BY <1>1, <1>2, <1>3, OrderServiceTypeOK, PTL DEF Spec

-----------------------------------------------------------------------------
\* get_order, cancel_order and the save, whatever replies are lost, commands
\* repeated and documents expired, implement OrderLife: looks and writes are
\* atomic and every answer is one OrderLife allows.
THEOREM OrderServiceImplementsOrderLife == Spec => ImplementsOrderLife
<1>1. Init => Life!Init
  BY DEF Init, Life!Init
<1>2. TypeOK /\ CallInv /\ [Next]_vars => [Life!Next]_(Life!vars)
  <2> SUFFICES ASSUME TypeOK, CallInv, [Next]_vars PROVE [Life!Next]_(Life!vars)
    OBVIOUS
  <2> USE DEF TypeOK, CallInv, CallShape
  <2>1. ASSUME NEW r \in Requests, Begin(r) PROVE Life!Begin(r)
    BY <2>1 DEF Begin, Ops, Unknown, Known, storeVars, Life!Begin, Life!Ops, Life!Unknown, Life!Known
  <2>2. ASSUME NEW r \in Requests, pc[r] = "attempt", RunGet(r), UNCHANGED callVars, UNCHANGED answer
        PROVE  Life!Look(r)
    BY <2>2 DEF RunGet, storeVars, callVars, Ops, Life!Look
  <2>3. ASSUME NEW r \in Requests, pc[r] = "attempt", RunSet(r), UNCHANGED callVars, UNCHANGED answer
        PROVE  Life!Write(r)
    BY <2>3 DEF RunSet, callVars, Ops, Life!Write
  <2>4. ASSUME NEW r \in Requests, AttemptOk(r) PROVE Life!Look(r) \/ Life!Write(r)
    BY <2>2, <2>3, <2>4 DEF AttemptOk
  <2>5. ASSUME NEW r \in Requests, AttemptLost(r) PROVE Life!Write(r) \/ UNCHANGED Life!vars
    BY <2>3, <2>5 DEF AttemptLost, storeVars, callVars, Life!vars
  <2>6. ASSUME NEW r \in Requests, NEW a \in Life!Answers, Life!Legal(r, a),
               pc[r] \notin {"idle", "done"}, End(r, a)
        PROVE  Life!Reply(r)
    BY <2>6 DEF End, storeVars, Life!Reply
  <2>7. ASSUME NEW r \in Requests, AttemptFatal(r) \/ GiveUp(r) PROVE Life!Reply(r)
    <3>1. "503" \in Life!Answers /\ Life!Legal(r, "503")
      BY DEF Life!Answers, Life!Legal
    <3> QED
      BY <2>6, <2>7, <3>1 DEF AttemptFatal, GiveUp, Answer503
  <2>8. ASSUME NEW r \in Requests, Return(r) PROVE Life!Reply(r)
    <3>1. Result(r) \in Life!Answers /\ Life!Legal(r, Result(r))
      BY <2>8 DEF Return, Result, Ops, Life!Answers, Life!Legal
    <3> QED
      BY <2>6, <2>8, <3>1 DEF Return
  <2>9. ASSUME NEW r \in Requests, BackOff(r) \/ Retry(r) PROVE UNCHANGED Life!vars
    BY <2>9 DEF BackOff, Retry, storeVars, callVars, Life!vars
  <2>10. ASSUME NEW o \in Orders, Expire(o) PROVE Life!Expire(o)
    BY <2>10 DEF Expire, callVars, Life!Expire
  <2>11. CASE Tick \/ UNCHANGED vars
    BY <2>11 DEF Tick, vars, storeVars, callVars, Life!vars
  <2> QED
    BY <2>1, <2>4, <2>5, <2>7, <2>8, <2>9, <2>10, <2>11 DEF Next, Step, Life!Next
<1> QED
  BY <1>1, <1>2, OrderServiceTypeOK, PTL DEF Spec, ImplementsOrderLife, Life!Spec

-----------------------------------------------------------------------------
\* No write brings a cancelled order back: the creation is over when somebody
\* knows the order, and cancels write "cancelled".
LEMMA SetKeepsSettled ==
  ASSUME TypeOK, CallInv, CreationOver, Settled, NEW r \in Requests,
         pc[r] = "attempt", RunSet(r), UNCHANGED callVars, UNCHANGED answer
  PROVE  Settled'
<1> SUFFICES ASSUME NEW c \in Requests, op[c] \in {"get", "cancel"},
                    c \in wrote \union {r} \/ saw[c] = "cancelled"
             PROVE  status'[target[c]] # "created"
  BY DEF Settled, RunSet, callVars
<1>1. CASE target[c] # target[r]
  BY <1>1 DEF TypeOK, Settled, RunSet
<1>2. CASE target[c] = target[r]
  <2>1. op[r] # "create"
    BY <1>2 DEF CreationOver, CallInv, CallShape
  <2> QED
    BY <1>2, <2>1 DEF TypeOK, RunSet
<1> QED
  BY <1>1, <1>2

\* Every step keeps the invariant behind CancelSticks.
LEMMA CancelStep ==
  ASSUME TypeOK, CallInv, CancelInv, [Next]_vars
  PROVE  CancelInv'
<1> USE DEF CancelInv
<1>1. ASSUME NEW r \in Requests, Begin(r) PROVE CancelInv'
  <2> USE <1>1 DEF TypeOK, Begin, storeVars, Ops
  <2>1. CreationOver'
    BY DEF CreationOver, Unknown, Known, CallInv, CallShape
  <2>2. Settled'
    BY DEF Settled, CallInv, CallShape
  <2>3. Truthful'
    BY DEF Truthful, CallInv, CallShape
  <2>4. SeesCancel'
    BY DEF SeesCancel, Confirmed, CallInv, CallShape
  <2> QED
    BY <2>1, <2>2, <2>3, <2>4
<1>2. ASSUME NEW r \in Requests, pc[r] = "attempt", RunGet(r), UNCHANGED callVars, UNCHANGED answer
      PROVE  CancelInv'
  <2> USE <1>2 DEF TypeOK, RunGet, storeVars, callVars
  <2>1. CreationOver'
    BY DEF CreationOver
  <2>2. Settled'
    BY DEF Settled
  <2>3. Truthful'
    BY DEF Truthful, CallInv, CallShape
  <2>4. SeesCancel'
    <3> SUFFICES ASSUME NEW c \in Requests, NEW q \in Requests, c \in before[q]
                 PROVE  /\ answer[c] # "none"
                        /\ Confirmed(c) /\ target[c] = target[q] => saw'[q] # "created"
      BY DEF SeesCancel, Confirmed
    <3>1. Confirmed(c) => status[target[c]] # "created"
      BY DEF Confirmed, Truthful, Settled
    <3> QED
      BY <3>1 DEF SeesCancel
  <2> QED
    BY <2>1, <2>2, <2>3, <2>4
<1>3. ASSUME NEW r \in Requests, pc[r] = "attempt", RunSet(r), UNCHANGED callVars, UNCHANGED answer
      PROVE  CancelInv'
  <2>1. Settled'
    BY <1>3, SetKeepsSettled
  <2>2. CreationOver' /\ Truthful' /\ SeesCancel'
    BY <1>3 DEF RunSet, callVars, CreationOver, Truthful, SeesCancel, Confirmed
  <2> QED
    BY <2>1, <2>2
<1>4. ASSUME NEW r \in Requests, AttemptOk(r) \/ AttemptLost(r) PROVE CancelInv'
  <2>1. CASE pc[r] = "attempt" /\ (RunGet(r) \/ RunSet(r))
    BY <1>2, <1>3, <1>4, <2>1 DEF AttemptOk, AttemptLost
  <2>2. CASE UNCHANGED <<storeVars, saw, wrote>>
    BY <1>4, <2>2 DEF AttemptOk, AttemptLost, storeVars, callVars, CreationOver, Settled,
                      Truthful, SeesCancel, Confirmed
  <2> QED
    BY <1>4, <2>1, <2>2 DEF AttemptOk, AttemptLost
<1>5. ASSUME NEW r \in Requests, NEW a, answer[r] = "none", a # "none", End(r, a),
             /\ op[r] = "cancel" /\ a = "cancelled" => r \in wrote
             /\ op[r] = "cancel" /\ a = "already" => saw[r] = "cancelled"
             /\ a = "created" => saw[r] = "created"
      PROVE  CancelInv'
  <2> USE <1>5 DEF TypeOK, End, storeVars
  <2>1. CreationOver' /\ Settled'
    BY DEF CreationOver, Settled
  <2>2. Truthful'
    BY DEF Truthful
  <2>3. SeesCancel'
    BY DEF SeesCancel, Confirmed
  <2> QED
    BY <2>1, <2>2, <2>3
<1>6. ASSUME NEW r \in Requests, AttemptFatal(r) \/ GiveUp(r) PROVE CancelInv'
  BY <1>5, <1>6 DEF AttemptFatal, GiveUp, Answer503, CallInv, CallShape
<1>7. ASSUME NEW r \in Requests, Return(r) PROVE CancelInv'
  <2> DEFINE a == Result(r)
  <2>1. /\ answer[r] = "none" /\ a # "none"
        /\ op[r] = "cancel" /\ a = "cancelled" => r \in wrote
        /\ op[r] = "cancel" /\ a = "already" => saw[r] = "cancelled"
        /\ a = "created" => saw[r] = "created"
    BY <1>7 DEF Return, Result, TypeOK, Ops, CallInv, CallShape
  <2>2. End(r, a)
    BY <1>7 DEF Return
  <2> HIDE DEF a
  <2> QED
    BY <1>5, <2>1, <2>2
<1>8. ASSUME NEW r \in Requests, BackOff(r) \/ Retry(r) PROVE CancelInv'
  BY <1>8 DEF BackOff, Retry, storeVars, callVars, CreationOver, Settled, Truthful, SeesCancel, Confirmed
<1>9. ASSUME NEW o \in Orders, Expire(o) PROVE CancelInv'
  BY <1>9 DEF TypeOK, Expire, callVars, CreationOver, Settled, Truthful, SeesCancel, Confirmed
<1>10. CASE Tick \/ UNCHANGED vars
  BY <1>10 DEF Tick, vars, storeVars, callVars, CreationOver, Settled, Truthful, SeesCancel, Confirmed
<1> QED
  BY <1>1, <1>4, <1>6, <1>7, <1>8, <1>9, <1>10 DEF Next, Step

\* A cancel confirmed by order_service.py:247-277 sticks, although documents are
\* written back some time after they were read: whoever begins later neither finds
\* the order created nor is told to have cancelled it.
THEOREM CancelsStick == Spec => []CancelSticks
<1>1. Init => CancelInv
  BY DEF Init, CancelInv, CreationOver, Settled, Truthful, SeesCancel, Confirmed
<1>2. TypeOK /\ CallInv /\ CancelInv /\ [Next]_vars => CancelInv'
  BY CancelStep
<1>3. CallInv /\ CancelInv => CancelSticks
  BY DEF CancelInv, SeesCancel, Truthful, Confirmed, CallInv, CallShape, CancelSticks
<1> QED
  BY <1>1, <1>2, <1>3, OrderServiceTypeOK, PTL DEF Spec
=============================================================================
