--------------------------- MODULE OrderIdempotency ---------------------------
(***************************************************************************)
(* POST /order with an X-Idempotency-Key: OrderService.create_order over   *)
(* the idempotency records of chaos_service/store.py.  One action is one   *)
(* Redis command (or Lua script) of one request, with the Python code up   *)
(* to the next command; the HTTP answer is a step of its own.  The circuit *)
(* breaker, modelled in CircuitBreaker, appears here as what it can do to  *)
(* the order flow: a request it rejects never starts, and a record_* call  *)
(* that raises aborts the request.  Every command runs through RetryPolicy *)
(* (_execute_redis): one that takes effect before its reply is lost is run *)
(* again, or given up.  A command does not take effect after a later try   *)
(* of its own.                                                             *)
(*                                                                         *)
(* An order is identified with the request that saved it (order_id is a    *)
(* fresh uuid), a processing record with the request that wrote it and its *)
(* created_at (owner_token is a fresh uuid).                               *)
(***************************************************************************)
EXTENDS Naturals, FiniteSets

CONSTANTS
  Requests,       \* the HTTP requests of a behaviour
  Keys,           \* idempotency keys
  Fingerprints,   \* idem_payload_fingerprint of the request bodies
  NoRequest,      \* nobody
  PendingTtlSec,  \* IDEM_PENDING_TTL_SEC
  IdemTtlSec,     \* IDEM_TTL_SEC
  MaxTime,        \* bound: the clock stops here
  MaxFaults,      \* bound: Redis calls that fail for good or lose a reply
  MaxAborts       \* bound: requests that die before they finish

\* validate_resilience_config: both TTLs are at least a second.
ASSUME TtlAssumption ==
  PendingTtlSec \in Nat \ {0} /\ IdemTtlSec \in Nat \ {0}

ASSUME SetsAssumption ==
  /\ NoRequest \notin Requests /\ IsFiniteSet(Requests)
  /\ Keys # {} /\ Fingerprints # {}

ASSUME BoundsAssumption == MaxTime \in Nat /\ MaxFaults \in Nat /\ MaxAborts \in Nat

VARIABLES
  now,       \* the wall clock
  store,     \* idem:<key> of each key
  orders,    \* the saved orders
  pc,        \* where each request is
  key, fp,   \* the key and the fingerprint of each request
  clk,       \* created_at of the processing record a request has built
  reserved,  \* idem_reserved of each request
  seen,      \* the stale record (_raw) a request is about to delete
  replayed,  \* the order a replay answer names (NoRequest: a stored failure)
  faults,    \* failures so far
  failures,  \* auxiliary: requests whose attempt to place an order failed
  forgotten, \* auxiliary: keys whose record was dropped too early
  bypassed   \* auxiliary: keys on which a request went on unreserved

locals == <<key, fp, clk, reserved, seen, replayed>>
aux    == <<failures, forgotten, bypassed>>
vars   == <<now, store, orders, pc, locals, faults, aux>>

-----------------------------------------------------------------------------
States == {"ABSENT", "PROCESSING", "SUCCESS", "FAILED"}

\* A record: for PROCESSING, owner and created stand for the raw text; for
\* SUCCESS the owner stands for order_id; for FAILED it is auxiliary.
Absent == [state |-> "ABSENT", fp |-> CHOOSE f \in Fingerprints : TRUE,
           owner |-> NoRequest, created |-> 0, exp |-> 0]
Token(rec) == <<rec.owner, rec.created>>

ReservePC  == {"reserve", "load", "cad", "build", "reserve_again", "reload", "wait"}
BusinessPC == {"ready", "saved", "fail"}
AnswerPC   == {"tell_created", "tell_failed", "tell_queued"}
FinalPC    == {"replay", "conflict", "processing", "queued", "created", "failed", "aborted"}
PC         == {"new", "release"} \union ReservePC \union BusinessPC \union AnswerPC \union FinalPC

Active(r)   == pc[r] \notin {"new"} \union FinalPC
Business(r) == reserved[r] /\ pc[r] \in BusinessPC

Init ==
  /\ now = 0
  /\ store = [k \in Keys |-> Absent]
  /\ orders = {}
  /\ pc = [r \in Requests |-> "new"]
  /\ key \in [Requests -> Keys] /\ fp \in [Requests -> Fingerprints]
  /\ clk = [r \in Requests |-> 0]
  /\ reserved = [r \in Requests |-> FALSE]
  /\ seen = [r \in Requests |-> <<NoRequest, 0>>]
  /\ replayed = [r \in Requests |-> NoRequest]
  /\ faults = 0
  /\ failures = {} /\ forgotten = {} /\ bypassed = {}

Goto(r, label) == pc' = [pc EXCEPT ![r] = label]
Record(r)      == store[key[r]]
Put(r, rec)    == store' = [store EXCEPT ![key[r]] = rec]

\* Mutant: SET NX without EX.
PendingNoEx(r) == [state |-> "PROCESSING", fp |-> fp[r], owner |-> r,
                   created |-> clk[r], exp |-> MaxTime + 1]

\* _build_processing_record, written by SET NX EX: it lives PendingTtlSec from
\* the write, its created_at is an earlier reading of the clock.
Pending(r) == [state |-> "PROCESSING", fp |-> fp[r], owner |-> r,
               created |-> clk[r], exp |-> now + PendingTtlSec]

\* Mutant: a legacy lower-case state word is written.
FinalLegacyWord(r, state) == [state |-> "succeeded", fp |-> fp[r], owner |-> r,
                              created |-> 0, exp |-> now + IdemTtlSec]

\* _build_success_record / _build_failed_record, written by SETEX.
Final(r, state) == [state |-> state, fp |-> fp[r], owner |-> r,
                    created |-> 0, exp |-> now + IdemTtlSec]

\* _is_processing_stale, which makes a PROCESSING record read as EXPIRED.
Stale(rec) == rec.state = "PROCESSING" /\ now >= rec.created + PendingTtlSec

\* Dropping the record of key k now loses track of an order that was placed,
\* or that its owner may still place.
LosesTrack(k) == \E r \in Requests : key[r] = k /\ (r \in orders \/ Business(r))

\* The stale record r deletes belongs to an owner that overran its TTL.
Overruns(r) == Stale(Record(r)) /\ LosesTrack(key[r])

-----------------------------------------------------------------------------
\* reserve_idempotency_key -> _build_processing_record: created_at is read.
BuildPending(r) ==
  /\ \/ pc[r] = "new"   /\ Goto(r, "reserve")
     \/ pc[r] = "build" /\ Goto(r, "reserve_again")
  /\ clk' = [clk EXCEPT ![r] = now]
  /\ UNCHANGED <<now, store, orders, key, fp, reserved, seen, replayed, faults, aux>>

\* Where a reservation that did not succeed goes on.
AfterReserve(r) == IF pc[r] = "reserve" THEN "load" ELSE "reload"

\* _reserve_new_processing: SET idem:<key> NX EX; only the owner proceeds.
Reserve(r) ==
  /\ pc[r] \in {"reserve", "reserve_again"}
  /\ \/ /\ Record(r).state = "ABSENT"
        /\ Put(r, Pending(r))
        /\ reserved' = [reserved EXCEPT ![r] = TRUE]
        /\ Goto(r, "ready")
     \/ /\ Record(r).state # "ABSENT"
        /\ Goto(r, AfterReserve(r))
        /\ UNCHANGED <<store, reserved>>
  /\ UNCHANGED <<now, orders, key, fp, clk, seen, replayed, faults, aux>>

\* Mutant: the fingerprint is not compared with the stored one.
AnswerFromAnyBody(r) ==
  /\ Record(r).state \in {"SUCCESS", "FAILED"}
  /\ Goto(r, "replay")
  /\ replayed' = [replayed EXCEPT ![r] =
       IF Record(r).state = "SUCCESS" THEN Record(r).owner ELSE NoRequest]

\* The answers that a stored record gives by itself: 409 for another body,
\* the stored response for a final state.
AnswerFrom(r) ==
  \/ /\ Record(r).state # "ABSENT" /\ Record(r).fp # fp[r]
     /\ Goto(r, "conflict")
     /\ UNCHANGED replayed
  \/ /\ Record(r).state \in {"SUCCESS", "FAILED"} /\ Record(r).fp = fp[r]
     /\ Goto(r, "replay")
     /\ replayed' = [replayed EXCEPT ![r] =
          IF Record(r).state = "SUCCESS" THEN Record(r).owner ELSE NoRequest]

\* The record says nothing yet: no record, or PROCESSING with the same body.
Undecided(r) == Record(r).state = "ABSENT"
                \/ (Record(r).state = "PROCESSING" /\ Record(r).fp = fp[r])

\* GET after the failed SET NX: answer, take over a stale record, or wait.
Load(r) ==
  /\ pc[r] = "load"
  /\ \/ AnswerFrom(r) /\ UNCHANGED seen
     \/ /\ Undecided(r) /\ Stale(Record(r))
        /\ seen' = [seen EXCEPT ![r] = Token(Record(r))]
        /\ Goto(r, "cad") /\ UNCHANGED replayed
     \/ /\ Undecided(r) /\ ~Stale(Record(r))
        /\ Goto(r, "wait") /\ UNCHANGED <<seen, replayed>>
  /\ UNCHANGED <<now, store, orders, key, fp, clk, reserved, faults, aux>>

\* Mutant: the compare-and-delete only checks that the key is processing.
HoldsAny(r, tok) == Record(r).state = "PROCESSING"

\* Does key r still hold, byte for byte, the processing record tok?
Holds(r, tok) == Record(r).state = "PROCESSING" /\ Token(Record(r)) = tok

\* The stale record of r's key is deleted.
DropStale(r) ==
  /\ Put(r, Absent)
  /\ forgotten' = IF Overruns(r) THEN forgotten \union {key[r]} ELSE forgotten

\* The Lua compare-and-delete with the stale record as expected value.
CompareAndDelete(r) ==
  /\ pc[r] = "cad"
  /\ \/ /\ Holds(r, seen[r])
        /\ DropStale(r)
        /\ Goto(r, "build")
     \/ /\ ~Holds(r, seen[r])
        /\ Goto(r, "reload")
        /\ UNCHANGED <<store, forgotten>>
  /\ UNCHANGED <<now, orders, locals, faults, failures, bypassed>>

\* The second GET of reserve_idempotency_key: no further take-over.
Reload(r) ==
  /\ pc[r] = "reload"
  /\ \/ AnswerFrom(r)
     \/ Undecided(r) /\ Goto(r, "wait") /\ UNCHANGED replayed
  /\ UNCHANGED <<now, store, orders, key, fp, clk, reserved, seen, faults, aux>>

\* Mutant: a wait that ends without a result is answered as a failure.
PollFails(r) ==
  /\ pc[r] = "wait"
  /\ \/ AnswerFrom(r)
     \/ Undecided(r) /\ Goto(r, "failed") /\ UNCHANGED replayed
  /\ UNCHANGED <<now, store, orders, key, fp, clk, reserved, seen, faults, aux>>

\* wait_for_idempotency_result: polls until the record answers; a missing or
\* expired record and the end of the wait are all answered 202 processing.
Poll(r) ==
  /\ pc[r] = "wait"
  /\ \/ AnswerFrom(r)
     \/ Undecided(r) /\ Goto(r, "processing") /\ UNCHANGED replayed
  /\ UNCHANGED <<now, store, orders, key, fp, clk, reserved, seen, faults, aux>>

-----------------------------------------------------------------------------
\* order_deadline_exceeded: a reservation is released, the answer is 202.
DeadlineExceeded(r) ==
  /\ pc[r] = "ready"
  /\ Goto(r, IF reserved[r] THEN "release" ELSE "queued")
  /\ UNCHANGED <<now, store, orders, locals, faults, aux>>

\* Mutant: a plain DEL instead of the compare-and-delete.
ReleaseAnything(r) ==
  /\ pc[r] = "release"
  /\ Put(r, Absent)
  /\ Goto(r, "tell_queued")
  /\ UNCHANGED <<now, orders, locals, faults, aux>>

\* Does r's key hold the record that r reserved it with?
HoldsOwn(r) == Holds(r, <<r, clk[r]>>)

\* release_idempotency_reservation: compare-and-delete of the own record.
Release(r) ==
  /\ pc[r] = "release"
  /\ IF HoldsOwn(r) THEN Put(r, Absent) ELSE UNCHANGED store
  /\ Goto(r, "tell_queued")
  /\ UNCHANGED <<now, orders, locals, faults, aux>>

\* Inventory busy, or an injected fault, before the order is saved.
BusinessFails(r) ==
  /\ pc[r] = "ready"
  /\ Goto(r, "fail")
  /\ failures' = failures \union {r}
  /\ UNCHANGED <<now, store, orders, locals, faults, forgotten, bypassed>>

\* OrderRepository.save under a fresh order_id.
SaveOrder(r) ==
  /\ pc[r] = "ready"
  /\ orders' = orders \union {r}
  /\ Goto(r, "saved")
  /\ UNCHANGED <<now, store, locals, faults, aux>>

\* finalize_idempotency_success: SETEX, whoever holds the key by now.
Finalize(r) ==
  /\ pc[r] = "saved"
  /\ Put(r, Final(r, "SUCCESS"))
  /\ Goto(r, "tell_created")
  /\ UNCHANGED <<now, orders, locals, faults, aux>>

\* _save_failed: SETEX, but only for a request that holds a reservation.
SaveFailed(r) ==
  /\ pc[r] = "fail"
  /\ IF reserved[r] THEN Put(r, Final(r, "FAILED")) ELSE UNCHANGED store
  /\ Goto(r, "tell_failed")
  /\ UNCHANGED <<now, orders, locals, faults, aux>>

\* The ServiceResult reaches the client: 201, 503 or 202.
Answer(r) ==
  /\ \/ pc[r] = "tell_created" /\ Goto(r, "created")
     \/ pc[r] = "tell_failed"  /\ Goto(r, "failed")
     \/ pc[r] = "tell_queued"  /\ Goto(r, "queued")
  /\ UNCHANGED <<now, store, orders, locals, faults, aux>>

-----------------------------------------------------------------------------
Fault == faults < MaxFaults /\ faults' = faults + 1

\* The writing command that r is at takes effect in Redis.
TakesEffect(r) ==
  \/ /\ pc[r] \in {"reserve", "reserve_again"} /\ Record(r).state = "ABSENT"
     /\ Put(r, Pending(r)) /\ UNCHANGED forgotten
  \/ pc[r] = "cad" /\ Holds(r, seen[r]) /\ DropStale(r)
  \/ /\ \/ pc[r] = "release" /\ HoldsOwn(r) /\ Put(r, Absent)
        \/ pc[r] = "saved" /\ Put(r, Final(r, "SUCCESS"))
        \/ pc[r] = "fail" /\ reserved[r] /\ Put(r, Final(r, "FAILED"))
     /\ UNCHANGED forgotten

\* The reply of a write is lost and RetryPolicy will run the command again: a
\* second SET NX or compare-and-delete may then find the first one's effect, a
\* second SETEX writes the record once more.
RetryAfterLostReply(r) ==
  /\ Fault
  /\ TakesEffect(r)
  /\ UNCHANGED <<now, orders, pc, locals, failures, bypassed>>

\* A StorageException out of reserve or wait_for_result is swallowed: the
\* request places its order without a reservation.  The command that failed
\* may have been applied.
StoreUnavailable(r) ==
  /\ pc[r] \in ReservePC \ {"build"}
  /\ Fault
  /\ UNCHANGED <<store, forgotten>> \/ TakesEffect(r)
  /\ bypassed' = bypassed \union {key[r]}
  /\ Goto(r, "ready")
  /\ UNCHANGED <<now, orders, locals, failures>>

\* OrderRepository.save raises StorageException: 503, though the order may
\* have been written.
SaveOrderFails(r) ==
  /\ pc[r] = "ready"
  /\ Fault
  /\ orders' \in {orders, orders \union {r}}
  /\ failures' = failures \union {r}
  /\ Goto(r, "fail")
  /\ UNCHANGED <<now, store, locals, forgotten, bypassed>>

\* The last write, applied or not, raises StorageException, which create_order
\* swallows.
LastWriteFails(r) ==
  /\ Fault
  /\ UNCHANGED <<store, forgotten>> \/ TakesEffect(r)
  /\ \/ pc[r] = "saved" /\ Goto(r, "tell_created")
     \/ pc[r] = "fail" /\ reserved[r] /\ Goto(r, "tell_failed")
     \/ pc[r] = "release" /\ Goto(r, "tell_queued")
  /\ UNCHANGED <<now, orders, locals, failures, bypassed>>

\* The worker dies, or breaker.record_success / record_failure raises.
Abort(r) ==
  /\ Active(r)
  /\ Cardinality({q \in Requests : pc[q] = "aborted"}) < MaxAborts
  /\ Goto(r, "aborted")
  /\ UNCHANGED <<now, store, orders, locals, faults, aux>>

\* A second passes; Redis drops the records whose TTL has ended.
Expires(k) == store[k].state # "ABSENT" /\ store[k].exp <= now + 1
Tick ==
  /\ now < MaxTime
  /\ now' = now + 1
  /\ store' = [k \in Keys |-> IF Expires(k) THEN Absent ELSE store[k]]
  /\ forgotten' = forgotten \union {k \in Keys : Expires(k) /\ LosesTrack(k)}
  /\ UNCHANGED <<orders, pc, locals, faults, failures, bypassed>>

Step(r) ==
  \/ BuildPending(r) \/ Reserve(r) \/ Load(r) \/ CompareAndDelete(r) \/ Reload(r) \/ Poll(r)
  \/ DeadlineExceeded(r) \/ Release(r) \/ BusinessFails(r) \/ SaveOrder(r)
  \/ Finalize(r) \/ SaveFailed(r) \/ Answer(r)

Failure(r) ==
  \/ StoreUnavailable(r) \/ RetryAfterLostReply(r) \/ SaveOrderFails(r)
  \/ LastWriteFails(r) \/ Abort(r)

Next == Tick \/ \E r \in Requests : Step(r) \/ Failure(r)

Spec == Init /\ [][Next]_vars

\* Time passes.
FairSpec == Spec /\ WF_vars(Tick)

-----------------------------------------------------------------------------
(* PROPERTIES *)

Records == [state : States, fp : Fingerprints, owner : Requests \union {NoRequest},
            created : Nat, exp : Nat]

\* The shape of the records in Redis and of each request's local state.
TypeOK ==
  /\ now \in Nat
  /\ store \in [Keys -> Records]
  /\ orders \subseteq Requests
  /\ pc \in [Requests -> PC]
  /\ key \in [Requests -> Keys] /\ fp \in [Requests -> Fingerprints]
  /\ clk \in [Requests -> Nat]
  /\ reserved \in [Requests -> BOOLEAN]
  /\ seen \in [Requests -> (Requests \union {NoRequest}) \X Nat]
  /\ replayed \in [Requests -> Requests \union {NoRequest}]
  /\ faults \in Nat
  /\ failures \subseteq Requests /\ forgotten \subseteq Keys /\ bypassed \subseteq Keys

\* An idempotency key stands for at most one order, through any interleaving
\* of duplicates, take-overs of stale records, releases and crashes, as long
\* as its record was never dropped under an owner that had placed, or could
\* still place, its order, and no request went on without a reservation.
ExactlyOnce ==
  \A q, r \in orders :
    key[q] = key[r] /\ key[r] \notin forgotten \union bypassed => q = r

\* Under the same condition a stored verdict, SUCCESS or FAILED, is final:
\* until its TTL ends no take-over, release, duplicate or retried write removes
\* it or puts another in its place, although every SETEX of finalize and
\* save_failed is unconditional.  A SETEX that is repeated after a lost reply
\* may at most start its TTL again.
VerdictStable ==
  [][\A k \in Keys \ (forgotten \union bypassed) :
       store[k].state \in {"SUCCESS", "FAILED"} =>
         \/ store'[k] = [store[k] EXCEPT !.exp = store'[k].exp]
         \/ now' # now /\ store[k].exp <= now']_vars

\* A 200 replay names an order that exists and was placed under the same key
\* for the same body, even after records were lost or overwritten.
ReplayFaithful ==
  \A r \in Requests : replayed[r] # NoRequest =>
    replayed[r] \in orders /\ key[replayed[r]] = key[r] /\ fp[replayed[r]] = fp[r]

\* A key does not stay in PROCESSING for ever, whoever dies or fails (the
\* antecedent leaves the bounded clock room for one pending TTL).
PendingEnds ==
  \A k \in Keys :
    (store[k].state = "PROCESSING" /\ now + PendingTtlSec <= MaxTime)
      ~> (store[k].state # "PROCESSING")

\* The answer a request at a control point has been given, as OrderOnce
\* knows it.
AnswerAt(label) ==
  CASE label \in {"created", "failed", "conflict", "replay"} -> label
    [] label \in {"processing", "queued"} -> "later"
    [] label = "aborted" -> "lost"
    [] OTHER -> "none"

\* Callers who share a key see OrderOnce: its order is placed once, an answer
\* of 202, 409 or a replay hides no order of its own, a 409 has a rival, no
\* attempt fails once the order was placed, and a failure that is replayed was
\* come to by some attempt (told or not) that left no good order behind
\* (records, take-overs, releases, retries and lost replies are hidden).
Once == INSTANCE OrderOnce WITH
          key <- key, fp <- fp, orders <- orders, replayed <- replayed,
          failed <- failures,
          begun <- {r \in Requests : pc[r] # "new"},
          answer <- [r \in Requests |-> AnswerAt(pc[r])],
          loose <- forgotten \union bypassed
ImplementsOrderOnce == Once!Spec

\* What finalize_idempotency_success promises: SUCCESS is a terminal state of
\* the key, so it never turns into a stored failure.
SuccessIsTerminal ==
  [][\A k \in Keys : store[k].state = "SUCCESS" => store'[k].state # "FAILED"]_vars
=============================================================================
