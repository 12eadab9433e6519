----------------------------- MODULE OrderService -----------------------------
(***************************************************************************)
(* get_order, cancel_order and the save of create_order                    *)
(* (app/service/order_service.py) over the order documents in Redis        *)
(* (chaos_service/store.py), every command run by the retry policy         *)
(* (chaos_service/retry.py).  An attempt takes any time; it succeeds,      *)
(* fails with an error that is retried (the command may have run: only its *)
(* reply was lost), or fails with one that is not.  create_order up to its *)
(* save is OrderIdempotency; a sleep may end late.                         *)
(***************************************************************************)
EXTENDS Naturals, FiniteSets

CONSTANTS
  Requests,
  Orders,
  OrderTtl,     \* ORDER_TTL_SEC
  MaxAttempts,  \* RETRY_MAX_ATTEMPTS
  BaseDelay,    \* RETRY_BASE_DELAY_MS
  MaxDelay,     \* RETRY_MAX_DELAY_MS
  Budget,       \* BUSINESS_TIMEOUT_MS; 0 gives no deadline
  MaxTime       \* bound: no request begins after this instant

\* RetryConfig.__post_init__ and validate_resilience_config.
ASSUME RetryConfigAssumption ==
  /\ MaxAttempts \in Nat \ {0} /\ BaseDelay \in Nat /\ MaxDelay \in Nat
  /\ Budget \in Nat /\ OrderTtl \in Nat \ {0} /\ MaxTime \in Nat

VARIABLES
  now,      \* the clock
  status,   \* the document of each order: "none", "created" or "cancelled"
  expires,  \* when the TTL of each document ends
  op,       \* each request: "idle", "create", "get" or "cancel"
  target,   \* the order it is about
  pc,       \* "idle", "attempt", "except", "sleep", "return", "done"
  cmd,      \* the store command under way: "get" or "set"
  attempt,  \* its attempt number, from 1
  wake,     \* when the sleep before the next attempt ends
  started,  \* request._start_time
  saw,      \* the status the request has read, or "unseen"
  wrote,    \* history: the requests whose SETEX has run
  answer,   \* "none" until the request is answered
  before,   \* history: the requests answered when each request began
  late      \* history: how many attempts each request started past its deadline

storeVars == <<status, expires>>
callVars  == <<op, target, started, before>>
retryVars == <<cmd, attempt, wake, late>>
vars == <<now, storeVars, callVars, pc, retryVars, saw, wrote, answer>>

Ops == {"create", "get", "cancel"}

Unknown(o) == \A r \in Requests : op[r] # "idle" => target[r] # o
Known(o)   == \A r \in Requests : op[r] = "create" /\ target[r] = o => answer[r] # "none"

Init ==
  /\ now = 0
  /\ status \in [Orders -> {"none", "created"}]
  /\ expires = [o \in Orders |-> OrderTtl]
  /\ op = [r \in Requests |-> "idle"]
  /\ target \in [Requests -> Orders]
  /\ pc = [r \in Requests |-> "idle"] /\ cmd = [r \in Requests |-> "get"]
  /\ attempt = [r \in Requests |-> 0] /\ wake = [r \in Requests |-> 0]
  /\ started = [r \in Requests |-> 0]
  /\ saw = [r \in Requests |-> "unseen"]
  /\ wrote = {} /\ answer = [r \in Requests |-> "none"]
  /\ before = [r \in Requests |-> {}] /\ late = [r \in Requests |-> 0]

\* build_request_deadline and RetryDeadline: a request without a budget has no
\* deadline.
HasDeadline == Budget > 0
Deadline(r) == started[r] + Budget
PastDeadline(r) == HasDeadline /\ now >= Deadline(r)

\* Mutant: can_wait compares with >=, so a retry without delay always fits.
CanWaitWeak(r, d) == HasDeadline => Deadline(r) >= now + d \/ d = 0

\* RetryDeadline.can_wait: remaining_seconds() is never negative, so at the
\* deadline not even a delay of zero fits.
CanWait(r, d) == HasDeadline => Deadline(r) > now + d

\* _compute_delay_cap.
DelayCap(n) ==
  LET exponential == BaseDelay * 2^(n - 1) IN
  IF exponential < MaxDelay THEN exponential ELSE MaxDelay

\* The first pass of execute's loop for command c.
FirstAttempt(r, c) ==
  /\ pc' = [pc EXCEPT ![r] = "attempt"]
  /\ cmd' = [cmd EXCEPT ![r] = c]
  /\ attempt' = [attempt EXCEPT ![r] = 1]
  /\ late' = IF PastDeadline(r) THEN [late EXCEPT ![r] = @ + 1] ELSE late
  /\ UNCHANGED wake

\* A request arrives.  Only the caller of a creation knows the new order's id
\* (uuid4) until it is answered.
Begin(r) ==
  /\ op[r] = "idle" /\ now <= MaxTime
  /\ \E k \in Ops, o \in Orders :
       /\ IF k = "create" THEN Unknown(o) /\ status[o] = "none" ELSE Known(o)
       /\ op' = [op EXCEPT ![r] = k]
       /\ target' = [target EXCEPT ![r] = o]
       /\ cmd' = [cmd EXCEPT ![r] = IF k = "create" THEN "set" ELSE "get"]
  /\ pc' = [pc EXCEPT ![r] = "attempt"]
  /\ attempt' = [attempt EXCEPT ![r] = 1]
  /\ started' = [started EXCEPT ![r] = now]
  /\ before' = [before EXCEPT ![r] = {q \in Requests : answer[q] # "none"}]
  /\ UNCHANGED <<now, storeVars, wake, late, saw, wrote, answer>>

\* redis_client.get(order_key) of get_order_from_store.
RunGet(r) ==
  /\ cmd[r] = "get"
  /\ saw' = [saw EXCEPT ![r] = status[target[r]]]
  /\ UNCHANGED <<storeVars, wrote>>

\* redis_client.setex(order_key, ORDER_TTL_SEC, doc) of put_order_in_store.
RunSet(r) ==
  /\ cmd[r] = "set"
  /\ status' = [status EXCEPT ![target[r]] = IF op[r] = "create" THEN "created" ELSE "cancelled"]
  /\ expires' = [expires EXCEPT ![target[r]] = now + OrderTtl]
  /\ wrote' = wrote \union {r}
  /\ UNCHANGED saw

\* Mutant: cancel_order writes without looking at the status.
NeedsWriteAlways(r) == op[r] = "cancel" /\ cmd[r] = "get" /\ saw'[r] # "none"

\* cancel_order goes on to save only for an order found and not cancelled.
NeedsWrite(r) == op[r] = "cancel" /\ cmd[r] = "get" /\ saw'[r] = "created"

\* The attempt succeeds: execute returns its result to the service.
AttemptOk(r) ==
  /\ pc[r] = "attempt"
  /\ RunGet(r) \/ RunSet(r)
  /\ IF NeedsWrite(r)
       THEN FirstAttempt(r, "set")
       ELSE pc' = [pc EXCEPT ![r] = "return"] /\ UNCHANGED retryVars
  /\ UNCHANGED <<now, callVars, answer>>

\* The attempt raises a retryable error; a SETEX may have run before that.
AttemptLost(r) ==
  /\ pc[r] = "attempt"
  /\ pc' = [pc EXCEPT ![r] = "except"]
  /\ \/ RunSet(r)
     \/ UNCHANGED <<storeVars, saw, wrote>>
  /\ UNCHANGED <<now, callVars, retryVars, answer>>

\* The request is answered; the locals of execute are gone.
End(r, a) ==
  /\ pc' = [pc EXCEPT ![r] = "done"]
  /\ answer' = [answer EXCEPT ![r] = a]
  /\ attempt' = [attempt EXCEPT ![r] = 0] /\ wake' = [wake EXCEPT ![r] = 0]
  /\ started' = [started EXCEPT ![r] = 0]
  /\ UNCHANGED <<now, storeVars, op, target, before, cmd, late, saw, wrote>>

\* StorageException: the service (create) or the controller answers 503.
Answer503(r) == End(r, "503")

\* Any other error of the command or of before_store_operation.
AttemptFatal(r) == pc[r] = "attempt" /\ Answer503(r)

\* max_attempts is reached, or the deadline leaves no room for the delay drawn.
GiveUp(r) ==
  /\ pc[r] = "except"
  /\ \/ attempt[r] >= MaxAttempts
     \/ \E d \in 0 .. DelayCap(attempt[r]) : ~CanWait(r, d)
  /\ Answer503(r)

\* Sleep before the next attempt.
BackOff(r) ==
  /\ pc[r] = "except" /\ attempt[r] < MaxAttempts
  /\ \E d \in 0 .. DelayCap(attempt[r]) :
       /\ CanWait(r, d)
       /\ wake' = [wake EXCEPT ![r] = now + d]
  /\ pc' = [pc EXCEPT ![r] = "sleep"]
  /\ UNCHANGED <<now, storeVars, callVars, cmd, attempt, late, saw, wrote, answer>>

\* Mutant: the attempt is not counted.
RetryUncounted(r) ==
  /\ pc[r] = "sleep" /\ wake[r] <= now
  /\ pc' = [pc EXCEPT ![r] = "attempt"]
  /\ wake' = [wake EXCEPT ![r] = 0]
  /\ UNCHANGED <<now, storeVars, callVars, cmd, attempt, late, saw, wrote, answer>>

\* The sleep ends, possibly later than asked, and the next attempt starts.
Retry(r) ==
  /\ pc[r] = "sleep" /\ wake[r] <= now
  /\ pc' = [pc EXCEPT ![r] = "attempt"]
  /\ attempt' = [attempt EXCEPT ![r] = @ + 1]
  /\ wake' = [wake EXCEPT ![r] = 0]
  /\ late' = IF PastDeadline(r) THEN [late EXCEPT ![r] = @ + 1] ELSE late
  /\ UNCHANGED <<now, storeVars, callVars, cmd, saw, wrote, answer>>

\* Mutant: an order read as cancelled is reported as cancelled by this call.
ResultAlways(r) ==
  IF op[r] = "create" THEN "201"
  ELSE IF saw[r] = "none" THEN "404"
  ELSE IF op[r] = "cancel" THEN "cancelled"
  ELSE saw[r]

\* The ServiceResult of create_order, get_order and cancel_order.
Result(r) ==
  IF op[r] = "create" THEN "201"
  ELSE IF saw[r] = "none" THEN "404"
  ELSE IF op[r] = "get" THEN saw[r]
  ELSE IF saw[r] = "cancelled" THEN "already" ELSE "cancelled"

Return(r) ==
  /\ pc[r] = "return"
  /\ End(r, Result(r))

\* Redis drops a document whose TTL has ended.
Expire(o) ==
  /\ status[o] # "none" /\ expires[o] <= now
  /\ status' = [status EXCEPT ![o] = "none"]
  /\ UNCHANGED <<now, expires, callVars, pc, retryVars, saw, wrote, answer>>

\* Time passes, up to the bound and then until the sleepers are awake; a
\* document whose TTL has ended is dropped first.
Tick ==
  /\ now < MaxTime \/ \E r \in Requests : pc[r] = "sleep" /\ wake[r] > now
  /\ \A o \in Orders : status[o] = "none" \/ expires[o] > now
  /\ now' = now + 1
  /\ UNCHANGED <<storeVars, callVars, pc, retryVars, saw, wrote, answer>>

Step(r) ==
  \/ AttemptOk(r) \/ AttemptLost(r) \/ AttemptFatal(r)
  \/ GiveUp(r) \/ BackOff(r) \/ Retry(r) \/ Return(r)

Next ==
  \/ \E r \in Requests : Begin(r) \/ Step(r)
  \/ \E o \in Orders : Expire(o)
  \/ Tick

Spec == Init /\ [][Next]_vars

\* A thread that has something to do does it, and the clock goes on.
Fairness ==
  /\ WF_vars(Tick)
  /\ \A r \in Requests : WF_vars(Step(r))
  /\ \A o \in Orders : WF_vars(Expire(o))

FairSpec == Spec /\ Fairness

-----------------------------------------------------------------------------
(* PROPERTIES *)

\* The shape of the documents, of the calls and of the retry policy's state.
TypeOK ==
  /\ now \in Nat
  /\ status \in [Orders -> {"none", "created", "cancelled"}] /\ expires \in [Orders -> Nat]
  /\ op \in [Requests -> Ops \union {"idle"}] /\ target \in [Requests -> Orders]
  /\ pc \in [Requests -> {"idle", "attempt", "except", "sleep", "return", "done"}]
  /\ cmd \in [Requests -> {"get", "set"}]
  /\ attempt \in [Requests -> 0 .. MaxAttempts] /\ wake \in [Requests -> Nat]
  /\ started \in [Requests -> Nat] /\ late \in [Requests -> Nat]
  /\ saw \in [Requests -> {"unseen", "none", "created", "cancelled"}]
  /\ wrote \subseteq Requests /\ before \in [Requests -> SUBSET Requests]
  /\ answer \in [Requests -> {"none", "201", "404", "503", "created", "cancelled", "already"}]

\* get_order, cancel_order and the save, with their retries, lost replies and
\* expiring documents, implement the atomic looks and writes of OrderLife: no
\* answer reports a status the order did not have, or a write that never ran.
Life == INSTANCE OrderLife WITH
  Requests <- Requests, Orders <- Orders,
  status <- status, op <- op, target <- target, saw <- saw, wrote <- wrote, answer <- answer
ImplementsOrderLife == Life!Spec

\* A cancel that was confirmed stays: whoever asks afterwards does not find
\* the order created, and a second cancel never reports that it cancelled it,
\* although each cancel writes back the document it read some time before.
CancelSticks ==
  \A c, r \in Requests :
    /\ c \in before[r] /\ target[c] = target[r]
    /\ op[c] = "cancel" /\ answer[c] \in {"cancelled", "already"}
    => answer[r] # "created" /\ (op[r] = "cancel" => answer[r] # "cancelled")

\* The deadline is tested before a sleep and not before an attempt: a request
\* can work past its budget, but it starts at most one attempt of each of its
\* commands after the deadline, whatever the delays drawn.
LateAttemptsBounded ==
  \A r \in Requests : late[r] <= IF op[r] = "cancel" THEN 2 ELSE 1

\* Every request is answered: no chain of retries and sleeps goes on for ever.
Answered == \A r \in Requests : op[r] # "idle" ~> answer[r] # "none"
=============================================================================
