------------------------ MODULE OrderIdempotencyProofs ------------------------
(***************************************************************************)
(* Proofs about OrderIdempotency for any number of requests, keys, bodies, *)
(* faults and crashes, and any TTLs.                                       *)
(***************************************************************************)
EXTENDS OrderIdempotency, TLAPS

\* What the control point of a request says about it: it saves its order, or
\* fails, once, from "ready"; it is on its way to a 201 with a placed order, on
\* its way to a 503 with a failed attempt; past the reservation it is reserved
\* or the key is bypassed; the record it is about to delete was stale.
Placement ==
  \A r \in Requests :
    /\ r \in orders \union failures =>
         pc[r] \notin {"new", "ready", "release", "tell_queued"} \union ReservePC
    /\ pc[r] \in {"saved", "tell_created", "created"} => r \in orders \ failures
    /\ pc[r] \in {"fail", "tell_failed"} => r \in failures
    /\ pc[r] \in BusinessPC => reserved[r] \/ key[r] \in bypassed
    /\ pc[r] = "cad" => seen[r][2] + PendingTtlSec <= now

\* While a key is neither forgotten nor bypassed, its record belongs to the
\* request that placed, or may still place, the order.
OwnerHolds ==
  \A r \in Requests :
    key[r] \notin forgotten \union bypassed /\ (r \in orders \/ Business(r))
      => Record(r).state # "ABSENT" /\ Record(r).owner = r

\* A record belongs to a request of its key and body that has begun: a stored
\* SUCCESS to one that placed its order, a stored FAILED to one that failed.
RecordTrue ==
  \A k \in Keys : store[k].state # "ABSENT" =>
    LET rec == store[k]
    IN  /\ rec.owner \in Requests /\ key[rec.owner] = k /\ fp[rec.owner] = rec.fp
        /\ pc[rec.owner] # "new"
        /\ rec.state = "SUCCESS" => rec.owner \in orders \ failures /\ rec.created = 0
        /\ rec.state = "FAILED" => rec.owner \in failures /\ rec.created = 0

-----------------------------------------------------------------------------
\* The placeholder for a missing record has the shape of a record.
LEMMA AbsentIsRecord == Absent \in Records
<1>1. (CHOOSE f \in Fingerprints : TRUE) \in Fingerprints
  BY SetsAssumption
<1> QED
  BY <1>1 DEF Absent, Records, States

\* A command that takes effect leaves a record.
LEMMA EffectTyped ==
  ASSUME TypeOK, NEW r \in Requests, TakesEffect(r)
  PROVE  store' \in [Keys -> Records] /\ forgotten' \subseteq Keys
<1> USE TtlAssumption, SetsAssumption DEF TypeOK
<1>1. Pending(r) \in Records /\ Final(r, "SUCCESS") \in Records /\ Final(r, "FAILED") \in Records
  BY DEF Pending, Final, Records, States
<1>2. CASE pc[r] = "cad"
  BY <1>2, AbsentIsRecord DEF TakesEffect, DropStale, Put
<1>3. CASE pc[r] # "cad"
  <2>1. /\ forgotten' = forgotten
        /\ \/ Put(r, Pending(r)) \/ Put(r, Absent)
           \/ Put(r, Final(r, "SUCCESS")) \/ Put(r, Final(r, "FAILED"))
    BY <1>3 DEF TakesEffect
  <2> QED
    BY <1>1, <2>1, AbsentIsRecord DEF Put
<1> QED
  BY <1>2, <1>3

\* Records in Redis and the locals of every request keep their types.
THEOREM IdempotencyTypeOK == Spec => []TypeOK
<1> USE TtlAssumption, SetsAssumption, BoundsAssumption
<1>1. Init => TypeOK
  <2> SUFFICES ASSUME Init PROVE TypeOK
    OBVIOUS
  <2>1. reserved \in [Requests -> BOOLEAN]
    BY Zenon DEF Init
  <2>2. pc \in [Requests -> PC]
    BY DEF Init, PC
  <2>3. store \in [Keys -> Records]
    BY AbsentIsRecord DEF Init
  <2> QED
    BY <2>1, <2>2, <2>3 DEF Init, TypeOK
<1>2. TypeOK /\ [Next]_vars => TypeOK'
  <2> SUFFICES ASSUME TypeOK, [Next]_vars PROVE TypeOK'
    OBVIOUS
  <2>1. ASSUME NEW r \in Requests PROVE Pending(r) \in Records
    BY DEF Pending, Records, States, TypeOK
  <2>2. ASSUME NEW r \in Requests
        PROVE  Final(r, "SUCCESS") \in Records /\ Final(r, "FAILED") \in Records
    BY DEF Final, Records, States, TypeOK
  <2>3. ASSUME NEW r \in Requests
        PROVE  /\ key[r] \in Keys
               /\ Record(r).owner \in Requests \union {NoRequest} /\ Record(r).created \in Nat
               /\ Token(Record(r)) \in (Requests \union {NoRequest}) \X Nat
    BY DEF TypeOK, Record, Records, Token
  <2> USE AbsentIsRecord, <2>1, <2>2, <2>3
      DEF TypeOK, PC, ReservePC, BusinessPC, AnswerPC, FinalPC, Goto, Put, locals, aux
  <2>4. CASE Tick
    BY <2>4 DEF Tick
  <2>5. ASSUME NEW r \in Requests, BuildPending(r) PROVE TypeOK'
    BY <2>5 DEF BuildPending
  <2>6. ASSUME NEW r \in Requests, Reserve(r) PROVE TypeOK'
    <3>1. reserved' \in [Requests -> BOOLEAN]
      BY <2>6, Zenon DEF Reserve
    <3>2. store' \in [Keys -> Records]
      BY <2>6 DEF Reserve
    <3>3. pc' \in [Requests -> PC]
      BY <2>6 DEF Reserve, AfterReserve
    <3> QED
      BY <2>6, <3>1, <3>2, <3>3 DEF Reserve
  <2>7. ASSUME NEW r \in Requests, Load(r) PROVE TypeOK'
    <3>1. seen' \in [Requests -> (Requests \union {NoRequest}) \X Nat]
      BY <2>7 DEF Load
    <3>2. replayed' \in [Requests -> Requests \union {NoRequest}]
      BY <2>7 DEF Load, AnswerFrom
    <3>3. pc' \in [Requests -> PC]
      BY <2>7 DEF Load, AnswerFrom
    <3> QED
      BY <2>7, <3>1, <3>2, <3>3 DEF Load
  <2>8. ASSUME NEW r \in Requests, CompareAndDelete(r) PROVE TypeOK'
    <3>1. store' \in [Keys -> Records] /\ forgotten' \subseteq Keys
      BY <2>8 DEF CompareAndDelete, DropStale
    <3>2. pc' \in [Requests -> PC]
      BY <2>8 DEF CompareAndDelete, DropStale
    <3> QED
      BY <2>8, <3>1, <3>2 DEF CompareAndDelete
  <2>9. ASSUME NEW r \in Requests, Reload(r) PROVE TypeOK'
    BY <2>9 DEF Reload, AnswerFrom
  <2>10. ASSUME NEW r \in Requests, Poll(r) PROVE TypeOK'
    BY <2>10 DEF Poll, AnswerFrom
  <2>11. ASSUME NEW r \in Requests, DeadlineExceeded(r) PROVE TypeOK'
    BY <2>11 DEF DeadlineExceeded
  <2>12. ASSUME NEW r \in Requests, Release(r) PROVE TypeOK'
    BY <2>12 DEF Release
  <2>13. ASSUME NEW r \in Requests, BusinessFails(r) PROVE TypeOK'
    BY <2>13 DEF BusinessFails
  <2>14. ASSUME NEW r \in Requests, SaveOrder(r) PROVE TypeOK'
    BY <2>14 DEF SaveOrder
  <2>15. ASSUME NEW r \in Requests, Finalize(r) PROVE TypeOK'
    BY <2>15 DEF Finalize
  <2>16. ASSUME NEW r \in Requests, SaveFailed(r) PROVE TypeOK'
    BY <2>16 DEF SaveFailed
  <2>17. ASSUME NEW r \in Requests, TakesEffect(r)
         PROVE  store' \in [Keys -> Records] /\ forgotten' \subseteq Keys
    BY <2>17, EffectTyped
  <2>18. ASSUME NEW r \in Requests, StoreUnavailable(r) PROVE TypeOK'
    <3>1. store' \in [Keys -> Records] /\ forgotten' \subseteq Keys
      BY <2>17, <2>18 DEF StoreUnavailable
    <3> QED
      BY <2>18, <3>1 DEF StoreUnavailable, Fault
  <2>19. ASSUME NEW r \in Requests, RetryAfterLostReply(r) PROVE TypeOK'
    BY <2>17, <2>19 DEF RetryAfterLostReply, Fault
  <2>20. ASSUME NEW r \in Requests, SaveOrderFails(r) PROVE TypeOK'
    BY <2>20 DEF SaveOrderFails, Fault
  <2>21. ASSUME NEW r \in Requests, LastWriteFails(r) PROVE TypeOK'
    <3>1. store' \in [Keys -> Records] /\ forgotten' \subseteq Keys
      BY <2>17, <2>21 DEF LastWriteFails
    <3>2. pc' \in [Requests -> PC]
      BY <2>21 DEF LastWriteFails
    <3> QED
      BY <2>21, <3>1, <3>2 DEF LastWriteFails, Fault
  <2>22. ASSUME NEW r \in Requests, Abort(r) \/ Answer(r) PROVE TypeOK'
    BY <2>22 DEF Abort, Answer
  <2>23. CASE UNCHANGED vars
    BY <2>23 DEF vars
  <2> QED
    BY <2>4, <2>5, <2>6, <2>7, <2>8, <2>9, <2>10, <2>11, <2>12, <2>13,
       <2>14, <2>15, <2>16, <2>17, <2>18, <2>19, <2>20, <2>21, <2>22, <2>23
       DEF Next, Step, Failure
<1> QED
  BY <1>1, <1>2, PTL DEF Spec

-----------------------------------------------------------------------------
\* Control points, orders and reservations stay in step.
LEMMA PlacementStep == TypeOK /\ Placement /\ [Next]_vars => Placement'
<1> USE TtlAssumption
<1> DEFINE P(r) == /\ r \in orders \union failures =>
                        pc[r] \notin {"new", "ready", "release", "tell_queued"} \union ReservePC
                   /\ pc[r] \in {"saved", "tell_created", "created"} => r \in orders \ failures
                   /\ pc[r] \in {"fail", "tell_failed"} => r \in failures
                   /\ pc[r] \in BusinessPC => reserved[r] \/ key[r] \in bypassed
                   /\ pc[r] = "cad" => seen[r][2] + PendingTtlSec <= now
<1> SUFFICES ASSUME TypeOK, \A r \in Requests : P(r), [Next]_vars, NEW q \in Requests
             PROVE  P(q)'
  BY DEF Placement
<1>0. P(q) /\ seen[q][2] \in Nat /\ now \in Nat
  BY DEF TypeOK
<1> USE <1>0 DEF TypeOK, ReservePC, BusinessPC, AnswerPC, FinalPC, PC, Goto, locals, aux
<1>1. CASE Tick
  BY <1>1 DEF Tick
<1>2. ASSUME NEW r \in Requests, BuildPending(r) PROVE P(q)'
  BY <1>2 DEF BuildPending
<1>3. ASSUME NEW r \in Requests, Reserve(r) PROVE P(q)'
  BY <1>3 DEF Reserve, AfterReserve
<1>4. ASSUME NEW r \in Requests, Load(r) PROVE P(q)'
  BY <1>4 DEF Load, AnswerFrom, Stale, Token
<1>5. ASSUME NEW r \in Requests, CompareAndDelete(r) PROVE P(q)'
  BY <1>5 DEF CompareAndDelete
<1>6. ASSUME NEW r \in Requests, Reload(r) PROVE P(q)'
  BY <1>6 DEF Reload, AnswerFrom
<1>7. ASSUME NEW r \in Requests, Poll(r) PROVE P(q)'
  BY <1>7 DEF Poll, AnswerFrom
<1>8. ASSUME NEW r \in Requests, DeadlineExceeded(r) PROVE P(q)'
  BY <1>8 DEF DeadlineExceeded
<1>9. ASSUME NEW r \in Requests, Release(r) PROVE P(q)'
  BY <1>9 DEF Release
<1>10. ASSUME NEW r \in Requests, BusinessFails(r) PROVE P(q)'
  BY <1>10 DEF BusinessFails
<1>11. ASSUME NEW r \in Requests, SaveOrder(r) PROVE P(q)'
  BY <1>11 DEF SaveOrder
<1>12. ASSUME NEW r \in Requests, Finalize(r) PROVE P(q)'
  BY <1>12 DEF Finalize
<1>13. ASSUME NEW r \in Requests, SaveFailed(r) PROVE P(q)'
  BY <1>13 DEF SaveFailed
<1>14. ASSUME NEW r \in Requests, StoreUnavailable(r) PROVE P(q)'
  BY <1>14 DEF StoreUnavailable, Fault
<1>15. ASSUME NEW r \in Requests, RetryAfterLostReply(r) PROVE P(q)'
  BY <1>15 DEF RetryAfterLostReply, Fault
<1>16. ASSUME NEW r \in Requests, SaveOrderFails(r) PROVE P(q)'
  BY <1>16 DEF SaveOrderFails, Fault
<1>17. ASSUME NEW r \in Requests, LastWriteFails(r) PROVE P(q)'
  BY <1>17 DEF LastWriteFails, Fault
<1>18. ASSUME NEW r \in Requests, Abort(r) \/ Answer(r) PROVE P(q)'
  BY <1>18 DEF Abort, Active, Answer
<1>19. CASE UNCHANGED vars
  BY <1>19 DEF vars
<1> QED
  BY <1>1, <1>2, <1>3, <1>4, <1>5, <1>6, <1>7, <1>8, <1>9, <1>10,
     <1>11, <1>12, <1>13, <1>14, <1>15, <1>16, <1>17, <1>18, <1>19 DEF Next, Step, Failure

\* The record of a key that was neither forgotten nor bypassed stays with the
\* one request that placed, or may still place, its order.
LEMMA OwnerHoldsStep == TypeOK /\ Placement /\ OwnerHolds /\ [Next]_vars => OwnerHolds'
<1> DEFINE Claims(r) == key[r] \notin forgotten \union bypassed /\ (r \in orders \/ Business(r))
           Owns(r)   == Record(r).state # "ABSENT" /\ Record(r).owner = r
<1> SUFFICES ASSUME TypeOK, Placement, OwnerHolds, [Next]_vars,
                    NEW q \in Requests, Claims(q)'
             PROVE  Owns(q)'
  BY DEF OwnerHolds
<1>0. /\ \A r \in Requests : Claims(r) => Owns(r)
      /\ \A r \in Requests : key[r] \in Keys /\ store[key[r]] \in Records
  BY DEF OwnerHolds, TypeOK
<1> USE <1>0, SetsAssumption
        DEF Placement, Business, Record, TypeOK, ReservePC, BusinessPC, Goto, Put, locals, aux
<1>1. CASE Tick
  <2>1. Claims(q)
    BY <1>1 DEF Tick
  <2>2. ~Expires(key[q])
    BY <1>1, <2>1 DEF Tick, LosesTrack
  <2> QED
    BY <1>1, <2>1, <2>2 DEF Tick
<1>2. ASSUME NEW r \in Requests, BuildPending(r) PROVE Owns(q)'
  BY <1>2 DEF BuildPending
<1>3. ASSUME NEW r \in Requests, Load(r) PROVE Owns(q)'
  BY <1>3 DEF Load, AnswerFrom
<1>4. ASSUME NEW r \in Requests, Reload(r) PROVE Owns(q)'
  BY <1>4 DEF Reload, AnswerFrom
<1>5. ASSUME NEW r \in Requests, Poll(r) PROVE Owns(q)'
  BY <1>5 DEF Poll, AnswerFrom
<1>6. ASSUME NEW r \in Requests, DeadlineExceeded(r) PROVE Owns(q)'
  BY <1>6 DEF DeadlineExceeded
<1>7. ASSUME NEW r \in Requests, BusinessFails(r) PROVE Owns(q)'
  BY <1>7 DEF BusinessFails
<1>8. ASSUME NEW r \in Requests, Abort(r) \/ Answer(r) PROVE Owns(q)'
  BY <1>8 DEF Abort, Answer
\* A command that takes effect leaves, or makes, r the owner; a stale record that
\* loses track of an order makes the key forgotten.
<1>9. ASSUME NEW r \in Requests, TakesEffect(r),
             Claims(q), key'[q] = key[q], key[q] \notin forgotten'
      PROVE  Owns(q)'
  BY <1>9 DEF TakesEffect, DropStale, Pending, Final, Overruns, LosesTrack, Holds, HoldsOwn, Stale, Token
<1>10. ASSUME NEW r \in Requests, SaveOrder(r) PROVE Owns(q)'
  BY <1>10 DEF SaveOrder
<1>11. ASSUME NEW r \in Requests, SaveOrderFails(r) PROVE Owns(q)'
  BY <1>11 DEF SaveOrderFails, Fault
<1>12. ASSUME NEW r \in Requests, Reserve(r) PROVE Owns(q)'
  BY <1>12 DEF Reserve, AfterReserve, Pending
<1>13. ASSUME NEW r \in Requests, Release(r) PROVE Owns(q)'
  BY <1>13 DEF Release, Holds, HoldsOwn, Token
<1>14. ASSUME NEW r \in Requests, Finalize(r) PROVE Owns(q)'
  BY <1>14 DEF Finalize, Final
<1>15. ASSUME NEW r \in Requests, SaveFailed(r) PROVE Owns(q)'
  BY <1>15 DEF SaveFailed, Final
<1>16. ASSUME NEW r \in Requests, CompareAndDelete(r) PROVE Owns(q)'
  BY <1>16 DEF CompareAndDelete, DropStale, Overruns, LosesTrack, Holds, Stale, Token
<1>17. ASSUME NEW r \in Requests, StoreUnavailable(r) PROVE Owns(q)'
  <2>1. Claims(q) /\ key'[q] = key[q] /\ key[q] \notin forgotten'
    BY <1>17 DEF StoreUnavailable, TakesEffect, DropStale
  <2> QED
    BY <1>9, <1>17, <2>1 DEF StoreUnavailable
<1>18. ASSUME NEW r \in Requests, RetryAfterLostReply(r) \/ LastWriteFails(r) PROVE Owns(q)'
  <2>1. Claims(q) /\ key'[q] = key[q] /\ key[q] \notin forgotten'
    BY <1>18 DEF RetryAfterLostReply, LastWriteFails, TakesEffect, DropStale
  <2> QED
    BY <1>9, <1>18, <2>1 DEF RetryAfterLostReply, LastWriteFails
<1>19. CASE UNCHANGED vars
  BY <1>19 DEF vars
<1> QED
  BY <1>1, <1>2, <1>3, <1>4, <1>5, <1>6, <1>7, <1>8, <1>9, <1>10,
     <1>11, <1>12, <1>13, <1>14, <1>15, <1>16, <1>17, <1>18, <1>19 DEF Next, Step, Failure

\* An idempotency key stands for at most one order while its record was not
\* dropped under its owner and nobody bypassed the reservation.
THEOREM IdempotencyExactlyOnce == Spec => []ExactlyOnce
<1>1. Init => Placement /\ OwnerHolds
  BY SetsAssumption DEF Init, Placement, OwnerHolds, Business, BusinessPC, ReservePC
<1>2. TypeOK /\ OwnerHolds => ExactlyOnce
  <2> SUFFICES ASSUME TypeOK, OwnerHolds, NEW q \in orders, NEW r \in orders,
                      key[q] = key[r], key[r] \notin forgotten \union bypassed
               PROVE  q = r
    BY DEF ExactlyOnce
  <2>1. q \in Requests /\ r \in Requests
    BY DEF TypeOK
  <2> QED
    BY <2>1 DEF OwnerHolds, Record
<1> QED
  BY <1>1, <1>2, PlacementStep, OwnerHoldsStep, IdempotencyTypeOK, PTL DEF Spec

-----------------------------------------------------------------------------
\* The requests' inputs never change, orders stay, a placed order does not turn
\* into a failure, and no request begins again.
LEMMA OnlyForward ==
  ASSUME TypeOK, Placement, [Next]_vars
  PROVE  /\ key' = key /\ fp' = fp /\ orders \subseteq orders' /\ failures \subseteq failures'
         /\ orders \intersect failures' \subseteq failures
         /\ \A q \in Requests : pc[q] # "new" => pc'[q] # "new"
<1> DEFINE Fw == /\ key' = key /\ fp' = fp /\ orders \subseteq orders' /\ failures \subseteq failures'
                 /\ orders \intersect failures' \subseteq failures
                 /\ \A q \in Requests : pc[q] # "new" => pc'[q] # "new"
<1> USE DEF TypeOK, Goto, locals, aux
<1>1. CASE Tick \/ UNCHANGED vars
  BY <1>1 DEF Tick, vars
<1>2. ASSUME NEW r \in Requests, Load(r) \/ Reload(r) \/ Poll(r) PROVE Fw
  BY <1>2 DEF Load, AnswerFrom, Reload, Poll
<1>3. ASSUME NEW r \in Requests, BusinessFails(r) \/ SaveOrder(r) \/ SaveOrderFails(r) PROVE Fw
  BY <1>3 DEF BusinessFails, SaveOrder, SaveOrderFails, Placement
<1>4. ASSUME NEW r \in Requests, Step(r), ~Load(r), ~Reload(r), ~Poll(r), ~BusinessFails(r), ~SaveOrder(r)
      PROVE  Fw
  BY <1>4 DEF Step, BuildPending, Reserve, AfterReserve, CompareAndDelete, DeadlineExceeded,
     Release, Finalize, SaveFailed, Answer
<1>5. ASSUME NEW r \in Requests, Failure(r), ~SaveOrderFails(r) PROVE Fw
  BY <1>5 DEF Failure, StoreUnavailable, RetryAfterLostReply, LastWriteFails, Abort
<1> QED
  BY <1>1, <1>2, <1>3, <1>4, <1>5 DEF Next

\* What a step may do to the record of key k: its TTL ends, a processing record
\* is deleted, a missing one is reserved, or a request stores its own verdict.
LEMMA StoreWritten ==
  ASSUME TypeOK, [Next]_vars, NEW k \in Keys
  PROVE  \/ store'[k] = store[k]
         \/ /\ store'[k] = Absent
            /\ store[k].state = "PROCESSING" \/ (now' # now /\ store[k].exp <= now')
         \/ \E r \in Requests :
              /\ key[r] = k /\ pc[r] # "new"
              /\ \/ store[k].state = "ABSENT" /\ store'[k] = Pending(r)
                 \/ pc[r] = "saved" /\ store'[k] = Final(r, "SUCCESS")
                 \/ pc[r] = "fail" /\ reserved[r] /\ store'[k] = Final(r, "FAILED")
<1> DEFINE Kept    == store'[k] = store[k]
           Deleted == store'[k] = Absent /\ store[k].state = "PROCESSING"
           By(r)   == /\ key[r] = k /\ pc[r] # "new"
                      /\ \/ store[k].state = "ABSENT" /\ store'[k] = Pending(r)
                         \/ pc[r] = "saved" /\ store'[k] = Final(r, "SUCCESS")
                         \/ pc[r] = "fail" /\ reserved[r] /\ store'[k] = Final(r, "FAILED")
<1> USE DEF TypeOK, Put, Record, locals
<1>1. CASE Tick
  BY <1>1 DEF Tick, Expires
<1>2. CASE UNCHANGED vars
  BY <1>2 DEF vars
<1>3. ASSUME NEW r \in Requests, Reserve(r) \/ Finalize(r) \/ SaveFailed(r) PROVE Kept \/ By(r)
  BY <1>3 DEF Reserve, Finalize, SaveFailed
<1>4. ASSUME NEW r \in Requests, CompareAndDelete(r) \/ Release(r) PROVE Kept \/ Deleted
  BY <1>4 DEF CompareAndDelete, DropStale, Release, Holds, HoldsOwn
<1>5. ASSUME NEW r \in Requests, TakesEffect(r) PROVE Kept \/ Deleted \/ By(r)
  BY <1>5 DEF TakesEffect, DropStale, Holds, HoldsOwn
<1>6. ASSUME NEW r \in Requests, Step(r), ~Reserve(r), ~Finalize(r), ~SaveFailed(r),
             ~CompareAndDelete(r), ~Release(r)
      PROVE  Kept
  BY <1>6 DEF Step, BuildPending, Load, Reload, Poll, DeadlineExceeded, BusinessFails, SaveOrder, Answer
<1>7. ASSUME NEW r \in Requests, Failure(r) PROVE Kept \/ TakesEffect(r)
  BY <1>7 DEF Failure, StoreUnavailable, RetryAfterLostReply, SaveOrderFails, LastWriteFails, Abort
<1> QED
  BY <1>1, <1>2, <1>3, <1>4, <1>5, <1>6, <1>7 DEF Next

\* Records stay true.
LEMMA RecordTrueStep == TypeOK /\ Placement /\ RecordTrue /\ [Next]_vars => RecordTrue'
<1> SUFFICES ASSUME TypeOK, Placement, RecordTrue, [Next]_vars,
                    NEW k \in Keys, store'[k].state # "ABSENT"
             PROVE  LET rec == store'[k]
                    IN  /\ rec.owner \in Requests /\ key'[rec.owner] = k /\ fp'[rec.owner] = rec.fp
                        /\ pc'[rec.owner] # "new"
                        /\ rec.state = "SUCCESS" => rec.owner \in orders' \ failures' /\ rec.created = 0
                        /\ rec.state = "FAILED" => rec.owner \in failures' /\ rec.created = 0
  BY DEF RecordTrue
<1>1. CASE store'[k] = store[k]
  BY <1>1, OnlyForward DEF RecordTrue
<1>2. store'[k] # Absent
  BY DEF Absent
<1>3. ASSUME NEW r \in Requests, key[r] = k, pc[r] # "new",
             \/ store'[k] = Pending(r)
             \/ pc[r] = "saved" /\ store'[k] = Final(r, "SUCCESS")
             \/ pc[r] = "fail" /\ store'[k] = Final(r, "FAILED")
      PROVE  /\ store'[k].owner = r /\ store'[k].fp = fp[r]
             /\ store'[k].state = "SUCCESS" => r \in orders \ failures /\ store'[k].created = 0
             /\ store'[k].state = "FAILED" => r \in failures /\ store'[k].created = 0
  BY <1>3 DEF Pending, Final, Placement
<1> QED
  BY <1>1, <1>2, <1>3, StoreWritten, OnlyForward

\* What the theorems below need of a state.
OnceInv == TypeOK /\ Placement /\ OwnerHolds /\ RecordTrue

\* The invariant behind them.
LEMMA OnceInvariant == Spec => []OnceInv
<1>1. Init => Placement /\ OwnerHolds /\ RecordTrue
  BY SetsAssumption DEF Init, Placement, OwnerHolds, RecordTrue, Business, BusinessPC, ReservePC, Absent
<1> QED
  BY <1>1, PlacementStep, OwnerHoldsStep, RecordTrueStep, IdempotencyTypeOK, PTL DEF Spec, OnceInv

-----------------------------------------------------------------------------
\* Replays tell the truth, given that records do.
LEMMA ReplayStep ==
  TypeOK /\ Placement /\ RecordTrue /\ ReplayFaithful /\ [Next]_vars => ReplayFaithful'
<1> SUFFICES ASSUME TypeOK, Placement, RecordTrue, ReplayFaithful, [Next]_vars PROVE ReplayFaithful'
  OBVIOUS
<1>0. key' = key /\ fp' = fp /\ orders \subseteq orders'
  BY OnlyForward
<1> USE <1>0 DEF TypeOK, ReplayFaithful, locals, aux
<1>1. CASE replayed' = replayed
  BY <1>1
<1>2. ASSUME NEW r \in Requests, AnswerFrom(r) PROVE ReplayFaithful'
  BY <1>2 DEF AnswerFrom, RecordTrue, Record
<1>3. CASE Tick \/ UNCHANGED vars
  BY <1>1, <1>3 DEF Tick, vars
<1>4. ASSUME NEW r \in Requests, Step(r) PROVE replayed' = replayed \/ AnswerFrom(r)
  BY <1>4 DEF Step, BuildPending, Reserve, Load, CompareAndDelete, Reload, Poll, DeadlineExceeded,
     Release, BusinessFails, SaveOrder, Finalize, SaveFailed, Answer
<1>5. ASSUME NEW r \in Requests, Failure(r) PROVE replayed' = replayed
  BY <1>5 DEF Failure, StoreUnavailable, RetryAfterLostReply, SaveOrderFails,
     LastWriteFails, Abort
<1> QED
  BY <1>1, <1>2, <1>3, <1>4, <1>5 DEF Next

\* A 200 replay names an existing order of the same key and the same body,
\* whatever was lost, overwritten or bypassed before (build_replay_response).
THEOREM IdempotencyReplayFaithful == Spec => []ReplayFaithful
<1>1. Init => ReplayFaithful
  BY DEF Init, ReplayFaithful
<1>2. OnceInv => TypeOK /\ Placement /\ RecordTrue
  BY DEF OnceInv
<1> QED
  BY <1>1, <1>2, ReplayStep, OnceInvariant, PTL DEF Spec

\* While the record of a key was neither forgotten nor bypassed, its verdict is
\* final: finalize and save_failed are unconditional SETEX commands, repeated
\* after a lost reply, but whoever can still run one owns the record and would
\* store the verdict that is there.
THEOREM IdempotencyVerdictStable == Spec => VerdictStable
<1> DEFINE Same(k)   == store'[k] = [store[k] EXCEPT !.exp = store'[k].exp]
           Stable(k) == store[k].state \in {"SUCCESS", "FAILED"} =>
                          Same(k) \/ (now' # now /\ store[k].exp <= now')
           AllStable == \A k \in Keys \ (forgotten \union bypassed) :
                          store[k].state \in {"SUCCESS", "FAILED"} =>
                            \/ store'[k] = [store[k] EXCEPT !.exp = store'[k].exp]
                            \/ now' # now /\ store[k].exp <= now'
<1>1. ASSUME OnceInv, [Next]_vars, NEW k \in Keys \ (forgotten \union bypassed) PROVE Stable(k)
  <2> SUFFICES ASSUME store[k].state \in {"SUCCESS", "FAILED"} PROVE Stable(k)
    OBVIOUS
  <2>0. store[k] \in Records /\ TypeOK
    BY <1>1 DEF OnceInv, TypeOK
  <2>1. CASE store'[k] = store[k]
    BY <2>0, <2>1 DEF Records
  \* Only the owner of the record can write a verdict under its key.
  <2>2. ASSUME NEW r \in Requests, key[r] = k, pc[r] \in {"saved", "fail"}, pc[r] = "fail" => reserved[r]
        PROVE  /\ store[k].owner = r /\ store[k].fp = fp[r] /\ store[k].created = 0
               /\ store[k].state = IF pc[r] = "saved" THEN "SUCCESS" ELSE "FAILED"
    <3>1. r \in orders \/ Business(r)
      BY <1>1, <2>2 DEF OnceInv, Placement, Business, BusinessPC
    <3>2. store[k].owner = r
      BY <1>1, <2>2, <3>1 DEF OnceInv, OwnerHolds, Record
    <3> QED
      BY <1>1, <2>2, <3>2 DEF OnceInv, RecordTrue, Placement
  <2>3. ASSUME NEW r \in Requests, key[r] = k,
               \/ pc[r] = "saved" /\ store'[k] = Final(r, "SUCCESS")
               \/ pc[r] = "fail" /\ reserved[r] /\ store'[k] = Final(r, "FAILED")
        PROVE  Same(k)
    BY <2>0, <2>2, <2>3 DEF Final, Records
  <2> QED
    BY <1>1, <2>0, <2>1, <2>3, StoreWritten
<1>2. OnceInv /\ [Next]_vars => [AllStable]_vars
  BY <1>1
<1> QED
  BY <1>2, OnceInvariant, PTL DEF Spec, VerdictStable

-----------------------------------------------------------------------------
(* OrderIdempotency implements OrderOnce. *)

\* The refinement mapping of begun, answer and loose.
Begun   == {r \in Requests : pc[r] # "new"}
Answers == [r \in Requests |-> AnswerAt(pc[r])]
Loose   == forgotten \union bypassed

\* While the key of r, which is at "ready", is safe, no order was placed under it.
LEMMA ReadyUnplaced ==
  ASSUME OnceInv, NEW r \in Requests, pc[r] = "ready"
  PROVE  key[r] \in Loose \/ Once!Placed(r) = {}
<1> SUFFICES ASSUME key[r] \notin Loose, NEW q \in orders, key[q] = key[r] PROVE FALSE
  BY DEF Once!Placed
<1>1. q \in Requests /\ Record(q).owner = q
  BY DEF OnceInv, OwnerHolds, TypeOK, Loose
<1>2. Record(r).owner = r
  BY DEF OnceInv, Placement, OwnerHolds, Business, BusinessPC, Loose
<1>3. r \notin orders
  BY DEF OnceInv, Placement
<1> QED
  BY <1>1, <1>2, <1>3 DEF Record

\* A step of r to another control point is a change of its answer alone.
LEMMA AnswerMoves ==
  ASSUME TypeOK, NEW r \in Requests, NEW label \in PC, Goto(r, label)
  PROVE  /\ Answers' = [Answers EXCEPT ![r] = AnswerAt(label)]
         /\ label # "new" => Begun' = Begun \union {r}
<1>1. pc' = [pc EXCEPT ![r] = label] /\ pc \in [Requests -> PC]
  BY DEF Goto, TypeOK
<1>2. Begun' = {q \in Requests : pc'[q] # "new"} /\ Answers' = [q \in Requests |-> AnswerAt(pc'[q])]
  BY DEF Begun, Answers, AnswerAt
<1>3. Answers' = [Answers EXCEPT ![r] = AnswerAt(label)]
  BY <1>1, <1>2 DEF Answers
<1>4. label # "new" => Begun' = Begun \union {r}
  BY <1>1, <1>2 DEF Begun
<1> QED
  BY <1>3, <1>4

\* A request under way has begun and has no answer.
LEMMA UnderWay ==
  ASSUME TypeOK, NEW r \in Requests, pc[r] \notin {"new"} \union FinalPC
  PROVE  r \in Begun /\ Answers[r] = "none" /\ AnswerAt(pc[r]) = "none"
BY DEF Begun, Answers, AnswerAt, TypeOK, PC, ReservePC, BusinessPC, AnswerPC, FinalPC

\* A step between two commands is not an answer.
LEMMA NotAnswered ==
  ASSUME TypeOK, NEW r \in Requests, NEW label \in PC \ ({"new"} \union FinalPC),
         pc[r] \notin {"new"} \union FinalPC, Goto(r, label)
  PROVE  Answers' = Answers /\ Begun' = Begun
<1>1. AnswerAt(label) = "none" /\ label \in PC /\ label # "new"
  BY DEF AnswerAt, PC, ReservePC, BusinessPC, AnswerPC, FinalPC
<1>2. Answers' = [Answers EXCEPT ![r] = "none"] /\ Begun' = Begun \union {r}
  BY <1>1, AnswerMoves
<1> QED
  BY <1>2, UnderWay DEF Answers

\* It shows outside at most as a loosened key.
LEMMA QuietStep ==
  ASSUME TypeOK, Answers' = Answers, Begun' = Begun,
         UNCHANGED <<key, fp, orders, failures, replayed>>, Loose \subseteq Loose', Loose' \subseteq Keys
  PROVE  Once!Loosen
BY DEF Once!Loosen, Answers, Begun, Loose

\* A step to a legal answer is a reply.
LEMMA ReplyMade ==
  ASSUME TypeOK, NEW r \in Requests, NEW label \in FinalPC \ {"replay"},
         pc[r] \notin {"new"} \union FinalPC, Goto(r, label),
         Once!Legal(r, AnswerAt(label)),
         UNCHANGED <<key, fp, orders, replayed, failures, forgotten, bypassed>>
  PROVE  Once!Reply(r)
<1>1. AnswerAt(label) \in {"created", "failed", "conflict", "later", "lost"} /\ label \in PC
  BY DEF AnswerAt, FinalPC, PC
<1>2. Answers' = [Answers EXCEPT ![r] = AnswerAt(label)] /\ Begun' = Begun
  BY <1>1, UnderWay, AnswerMoves DEF Begun, FinalPC
<1> QED
  BY <1>1, <1>2, UnderWay DEF Once!Reply, Once!Pending, Answers, Begun

\* An answer from the stored record is a legal 409 or a faithful replay.
LEMMA AnswerFromMade ==
  ASSUME OnceInv, NEW r \in Requests, pc[r] \in ReservePC, AnswerFrom(r),
         UNCHANGED <<key, fp, orders, failures, forgotten, bypassed>>
  PROVE  Once!Reply(r) \/ Once!Replay(r)
<1>0. TypeOK /\ pc[r] \notin {"new"} \union FinalPC /\ r \notin orders \union failures
  BY DEF OnceInv, Placement, ReservePC, FinalPC
<1>1. CASE Goto(r, "conflict") /\ Record(r).state # "ABSENT" /\ Record(r).fp # fp[r] /\ UNCHANGED replayed
  <2>1. PICK q \in Requests : key[q] = key[r] /\ fp[q] # fp[r] /\ pc[q] # "new"
    BY <1>1 DEF OnceInv, RecordTrue, Record, TypeOK
  <2>2. AnswerAt("conflict") = "conflict"
    BY DEF AnswerAt
  <2>3. Once!Legal(r, "conflict")
    BY <1>0, <2>1 DEF Once!Legal
  <2> QED
    BY <1>0, <1>1, <2>2, <2>3, ReplyMade DEF FinalPC
<1>2. ASSUME Goto(r, "replay"), Record(r).state \in {"SUCCESS", "FAILED"}, Record(r).fp = fp[r],
             replayed' = [replayed EXCEPT ![r] =
               IF Record(r).state = "SUCCESS" THEN Record(r).owner ELSE NoRequest]
      PROVE  Once!Replay(r)
  <2>1. Answers' = [Answers EXCEPT ![r] = "replay"] /\ Begun' = Begun
    <3>1. AnswerAt("replay") = "replay" /\ "replay" \in PC
      BY DEF AnswerAt, PC, FinalPC
    <3> QED
      BY <1>0, <1>2, <3>1, UnderWay, AnswerMoves DEF Begun
  <2>2. Once!Pending(r)
    BY <1>0, UnderWay DEF Once!Pending, Answers, Begun
  <2>3. \/ \E q \in orders : Once!Twin(q, r) /\ replayed' = [replayed EXCEPT ![r] = q]
        \/ /\ \E q \in failures : Once!Twin(q, r)
           /\ key[r] \in Loose \/ Once!Placed(r) \subseteq failures
           /\ replayed' = [replayed EXCEPT ![r] = NoRequest]
    <3>1. CASE Record(r).state = "SUCCESS"
      BY <1>2, <3>1 DEF OnceInv, RecordTrue, Record, TypeOK, Once!Twin
    <3>2. CASE Record(r).state = "FAILED"
      <4>1. PICK q \in Requests : q = Record(r).owner /\ key[q] = key[r] /\ fp[q] = fp[r] /\ q \in failures
        BY <1>2, <3>2 DEF OnceInv, RecordTrue, Record, TypeOK
      <4>2. ASSUME key[r] \notin Loose, NEW x \in orders, key[x] = key[r] PROVE x = q
        BY <1>0, <4>1, <4>2 DEF OnceInv, OwnerHolds, Record, TypeOK, Loose
      <4> QED
        BY <1>2, <3>2, <4>1, <4>2 DEF Once!Twin, Once!Placed
    <3> QED
      BY <1>2, <3>1, <3>2
  <2> QED
    BY <1>0, <2>1, <2>2, <2>3 DEF Once!Replay, Answers, Begun, Loose
<1> QED
  BY <1>1, <1>2 DEF AnswerFrom

\* A request at "ready" places the one order of a safe key, or fails before any
\* was placed.
LEMMA AttemptMade ==
  ASSUME OnceInv, NEW r \in Requests, pc[r] = "ready",
         NEW label \in {"saved", "fail"}, Goto(r, label),
         \/ orders' = orders \union {r} /\ failures' \in {failures, failures \union {r}}
         \/ orders' = orders /\ failures' = failures \union {r},
         UNCHANGED <<key, fp, replayed, forgotten, bypassed>>
  PROVE  Once!Place(r) \/ Once!Fail(r)
<1>0. /\ TypeOK /\ pc[r] \notin {"new"} \union FinalPC /\ r \notin orders \union failures
      /\ label \in PC \ ({"new"} \union FinalPC)
  BY DEF OnceInv, Placement, FinalPC, PC, BusinessPC
<1>1. Answers' = Answers /\ Begun' = Begun
  BY <1>0, NotAnswered
<1> QED
  BY <1>0, <1>1, UnderWay, ReadyUnplaced DEF Once!Place, Once!Fail, Once!Pending, Answers, Begun, Loose

\* The API over records, take-overs, retries, lost replies and crashes implements
\* OrderOnce: one order per key, no answer that hides one, no attempt that fails
\* after it, and no failure replayed beside it, for every key on which the code
\* keeps its promise.
THEOREM IdempotencyImplementsOrderOnce == Spec => ImplementsOrderOnce
<1>1. Init => Once!Init
  BY DEF Init, Once!Init, AnswerAt
<1>2. OnceInv /\ [Next]_vars => [Once!Next]_(Once!vars)
  <2> SUFFICES ASSUME OnceInv, [Next]_vars PROVE [Once!Next]_(Once!vars)
    OBVIOUS
  <2>0. TypeOK /\ forgotten \subseteq Keys /\ bypassed \subseteq Keys /\ \A r \in Requests : key[r] \in Keys
    BY DEF OnceInv, TypeOK
  <2> USE DEF locals, aux
  <2>1. CASE UNCHANGED vars
    BY <2>1 DEF vars, Once!vars
  <2>2. CASE Tick
    BY <2>0, <2>2 DEF Tick, Once!Next, Once!Loosen
  <2>3. ASSUME NEW r \in Requests, pc[r] = "new", BuildPending(r) PROVE Once!Next
    <3>1. AnswerAt("reserve") = "none" /\ "reserve" \in PC /\ Answers[r] = "none" /\ r \notin Begun
      BY <2>3 DEF AnswerAt, PC, ReservePC, Answers, Begun
    <3>2. Goto(r, "reserve")
      BY <2>3 DEF BuildPending
    <3>3. Answers' = Answers /\ Begun' = Begun \union {r}
      BY <2>0, <3>1, <3>2, AnswerMoves DEF Answers
    <3>4. Once!Begin(r)
      BY <2>3, <3>1, <3>3 DEF BuildPending, Once!Begin, Answers, Begun
    <3> QED
      BY <3>4 DEF Once!Next
  <2>4. ASSUME NEW r \in Requests, NEW label \in PC \ ({"new"} \union FinalPC),
               pc[r] \notin {"new"} \union FinalPC, Goto(r, label),
               UNCHANGED <<key, fp, orders, failures, replayed>>,
               forgotten \subseteq forgotten', forgotten' \subseteq Keys,
               bypassed \subseteq bypassed', bypassed' \subseteq Keys
        PROVE  Once!Next
    BY <2>0, <2>4, NotAnswered, QuietStep DEF Loose, Once!Next
  <2> USE DEF PC, ReservePC, BusinessPC, AnswerPC, FinalPC
  <2>5. ASSUME NEW r \in Requests,
               \/ pc[r] # "new" /\ BuildPending(r)
               \/ Reserve(r) \/ CompareAndDelete(r) \/ Release(r) \/ Finalize(r) \/ SaveFailed(r)
        PROVE  Once!Next
    BY <2>0, <2>4, <2>5 DEF BuildPending, Reserve, AfterReserve, CompareAndDelete, DropStale,
       Release, Finalize, SaveFailed
  <2>6. ASSUME NEW r \in Requests, pc[r] \in ReservePC, AnswerFrom(r),
               UNCHANGED <<key, fp, orders, failures, forgotten, bypassed>>
        PROVE  Once!Next
    BY <2>6, AnswerFromMade DEF Once!Next
  <2>7. ASSUME NEW r \in Requests, NEW label \in FinalPC \ {"replay"},
               pc[r] \notin {"new"} \union FinalPC, Goto(r, label),
               Once!Legal(r, AnswerAt(label)),
               UNCHANGED <<key, fp, orders, failures, replayed, forgotten, bypassed>>
        PROVE  Once!Next
    <3>1. Once!Reply(r)
      BY <2>0, <2>7, ReplyMade
    <3> QED
      BY <3>1 DEF Once!Next
  <2>8. ASSUME NEW r \in Requests, pc[r] \in {"ready", "tell_queued"} \union ReservePC,
               NEW label \in {"processing", "queued"}
        PROVE  Once!Legal(r, AnswerAt(label))
    BY <2>8 DEF OnceInv, Placement, AnswerAt, Once!Legal
  <2>9. ASSUME NEW r \in Requests, Load(r) \/ Reload(r) PROVE Once!Next
    BY <2>0, <2>4, <2>6, <2>9 DEF Load, Reload
  <2>10. ASSUME NEW r \in Requests, Poll(r) PROVE Once!Next
    BY <2>6, <2>7, <2>8, <2>10 DEF Poll
  <2>11. ASSUME NEW r \in Requests, DeadlineExceeded(r) PROVE Once!Next
    BY <2>0, <2>4, <2>7, <2>8, <2>11 DEF DeadlineExceeded
  <2>12. ASSUME NEW r \in Requests, BusinessFails(r) \/ SaveOrder(r) \/ SaveOrderFails(r) PROVE Once!Next
    <3>1. Once!Place(r) \/ Once!Fail(r)
      BY <2>12, AttemptMade DEF BusinessFails, SaveOrder, SaveOrderFails
    <3> QED
      BY <3>1 DEF Once!Next
  <2>13. ASSUME NEW r \in Requests, Answer(r) PROVE Once!Next
    <3>1. CASE pc[r] = "tell_created" /\ Goto(r, "created")
      <4>1. Once!Legal(r, AnswerAt("created"))
        BY <3>1 DEF OnceInv, Placement, AnswerAt, Once!Legal
      <4> QED
        BY <2>7, <2>13, <3>1, <4>1 DEF Answer
    <3>2. CASE pc[r] = "tell_failed" /\ Goto(r, "failed")
      <4>1. Once!Legal(r, AnswerAt("failed"))
        BY <3>2 DEF OnceInv, Placement, AnswerAt, Once!Legal
      <4> QED
        BY <2>7, <2>13, <3>2, <4>1 DEF Answer
    <3>3. CASE pc[r] = "tell_queued" /\ Goto(r, "queued")
      BY <2>7, <2>8, <2>13, <3>3 DEF Answer
    <3> QED
      BY <2>13, <3>1, <3>2, <3>3 DEF Answer
  <2>14. ASSUME NEW r \in Requests, Abort(r) PROVE Once!Next
    <3>1. Once!Legal(r, AnswerAt("aborted"))
      BY DEF AnswerAt, Once!Legal
    <3> QED
      BY <2>7, <2>14, <3>1 DEF Abort, Active
  <2>15. ASSUME NEW r \in Requests, TakesEffect(r) \/ UNCHANGED <<store, forgotten>>
         PROVE  forgotten \subseteq forgotten' /\ forgotten' \subseteq Keys
    BY <2>0, <2>15 DEF TakesEffect, DropStale
  <2>16. ASSUME NEW r \in Requests, StoreUnavailable(r) PROVE Once!Next
    BY <2>0, <2>4, <2>15, <2>16 DEF StoreUnavailable
  <2>17. ASSUME NEW r \in Requests, LastWriteFails(r) PROVE Once!Next
    BY <2>0, <2>4, <2>15, <2>17 DEF LastWriteFails
  <2>18. ASSUME NEW r \in Requests, RetryAfterLostReply(r) PROVE Once!Next
    <3>1. forgotten \subseteq forgotten' /\ forgotten' \subseteq Keys
          /\ UNCHANGED <<key, fp, orders, failures, replayed, pc, bypassed>>
      BY <2>15, <2>18 DEF RetryAfterLostReply
    <3>2. Answers' = Answers /\ Begun' = Begun
      BY <3>1 DEF Answers, Begun, AnswerAt
    <3> QED
      BY <2>0, <3>1, <3>2, QuietStep DEF Loose, Once!Next
  <2>19. ASSUME NEW r \in Requests, Step(r) \/ Failure(r) PROVE Once!Next
    BY <2>3, <2>5, <2>9, <2>10, <2>11, <2>12, <2>13, <2>14, <2>16, <2>17, <2>18, <2>19
       DEF Step, Failure
  <2> QED
    BY <2>1, <2>2, <2>19 DEF Next
<1> QED
  BY <1>1, <1>2, OnceInvariant, PTL DEF Spec, ImplementsOrderOnce, Once!Spec
=============================================================================
