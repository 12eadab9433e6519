------------------------------ MODULE OrderOnce ------------------------------
(***************************************************************************)
(* What POST /order promises to callers who share an idempotency key, with *)
(* no records, TTLs, polling or clock: a request begins, places its order  *)
(* or fails, and is answered, if it lives.  OrderIdempotency is shown to   *)
(* implement this.                                                         *)
(*                                                                         *)
(* On a "loose" key the promise is off: its record was dropped under an    *)
(* owner that had placed, or could still place, its order, or a request    *)
(* went on without a reservation.                                          *)
(***************************************************************************)
CONSTANTS
  Requests,
  Keys,
  Fingerprints,
  NoRequest

VARIABLES
  key, fp,  \* the idempotency key and the body of each request
  begun,    \* the requests that have arrived
  orders,   \* the requests whose order was placed
  failed,   \* the requests whose attempt failed, whether or not they were told
  answer,   \* "none" until the request is answered; "lost" if it never is
  replayed, \* the order a replay names (NoRequest: a stored failure)
  loose     \* the keys on which nothing is promised any more

vars == <<key, fp, begun, orders, failed, answer, replayed, loose>>

Twin(q, r)   == key[q] = key[r] /\ fp[q] = fp[r]
Pending(r)   == r \in begun /\ answer[r] = "none"
\* The orders placed under r's key.
Placed(r)    == {q \in orders : key[q] = key[r]}

Init ==
  /\ key \in [Requests -> Keys] /\ fp \in [Requests -> Fingerprints]
  /\ begun = {} /\ orders = {} /\ failed = {} /\ loose = {}
  /\ answer = [r \in Requests |-> "none"]
  /\ replayed = [r \in Requests |-> NoRequest]

Begin(r) ==
  /\ r \notin begun
  /\ begun' = begun \union {r}
  /\ UNCHANGED <<key, fp, orders, failed, answer, replayed, loose>>

\* One order per key.  Its attempt may be told that it failed all the same: the
\* order was stored, the reply was not received.
Place(r) ==
  /\ Pending(r) /\ r \notin orders \union failed
  /\ key[r] \in loose \/ Placed(r) = {}
  /\ orders' = orders \union {r}
  /\ failed' \in {failed, failed \union {r}}
  /\ UNCHANGED <<key, fp, begun, answer, replayed, loose>>

\* No attempt fails on a key whose order was placed.
Fail(r) ==
  /\ Pending(r) /\ r \notin orders \union failed
  /\ key[r] \in loose \/ Placed(r) = {}
  /\ failed' = failed \union {r}
  /\ UNCHANGED <<key, fp, begun, orders, answer, replayed, loose>>

\* Whether a request may be answered a.  A 201 is for an order that was placed,
\* a failure for an attempt that failed; a 202 or 409 hides neither, and a 409
\* has a rival with another body.
Legal(r, a) ==
  \/ a = "created" /\ r \in orders \ failed
  \/ a = "failed" /\ r \in failed
  \/ a = "conflict" /\ r \notin orders \union failed
       /\ \E q \in begun : key[q] = key[r] /\ fp[q] # fp[r]
  \/ a = "later" /\ r \notin orders \union failed
  \/ a = "lost"

Reply(r) ==
  /\ Pending(r)
  /\ \E a \in {"created", "failed", "conflict", "later", "lost"} :
       Legal(r, a) /\ answer' = [answer EXCEPT ![r] = a]
  /\ UNCHANGED <<key, fp, begun, orders, failed, replayed, loose>>

\* A replay answers for a request with the same key and body: with its order,
\* or with its failure, unless the key has an order of an attempt that did not
\* fail.
Replay(r) ==
  /\ Pending(r) /\ r \notin orders \union failed
  /\ \/ \E q \in orders : Twin(q, r) /\ replayed' = [replayed EXCEPT ![r] = q]
     \/ /\ \E q \in failed : Twin(q, r)
        /\ key[r] \in loose \/ Placed(r) \subseteq failed
        /\ replayed' = [replayed EXCEPT ![r] = NoRequest]
  /\ answer' = [answer EXCEPT ![r] = "replay"]
  /\ UNCHANGED <<key, fp, begun, orders, failed, loose>>

Loosen ==
  /\ loose \subseteq loose' /\ loose' \subseteq Keys
  /\ UNCHANGED <<key, fp, begun, orders, failed, answer, replayed>>

Next == Loosen \/ \E r \in Requests : Begin(r) \/ Place(r) \/ Fail(r) \/ Reply(r) \/ Replay(r)

Spec == Init /\ [][Next]_vars
=============================================================================
