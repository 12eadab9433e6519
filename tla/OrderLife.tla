------------------------------- MODULE OrderLife -------------------------------
(***************************************************************************)
(* What the order API promises, with no store commands, retries or clock:  *)
(* a request looks at its order at one instant, writes it at another, and  *)
(* answers accordingly.  A document may disappear at any time (its TTL).   *)
(* OrderService is shown to implement this.                                *)
(***************************************************************************)
CONSTANTS
  Requests,
  Orders

VARIABLES
  status,  \* the document of each order: "none", "created" or "cancelled"
  op,      \* what each request is: "idle", "create", "get" or "cancel"
  target,  \* the order each request is about
  saw,     \* the status each request has looked at, or "unseen"
  wrote,   \* the requests whose write has taken effect
  answer   \* "none" until the request is answered

vars == <<status, op, target, saw, wrote, answer>>

Ops == {"create", "get", "cancel"}

\* The id of an order is known to others once its creation has been answered.
Unknown(o) == \A r \in Requests : op[r] # "idle" => target[r] # o
Known(o)   == \A r \in Requests : op[r] = "create" /\ target[r] = o => answer[r] # "none"

Init ==
  /\ status \in [Orders -> {"none", "created"}]
  /\ op = [r \in Requests |-> "idle"]
  /\ target \in [Requests -> Orders]
  /\ saw = [r \in Requests |-> "unseen"]
  /\ wrote = {}
  /\ answer = [r \in Requests |-> "none"]

Begin(r) ==
  /\ op[r] = "idle"
  /\ \E k \in Ops, o \in Orders :
       /\ IF k = "create" THEN Unknown(o) /\ status[o] = "none" ELSE Known(o)
       /\ op' = [op EXCEPT ![r] = k]
       /\ target' = [target EXCEPT ![r] = o]
  /\ UNCHANGED <<status, saw, wrote, answer>>

Look(r) ==
  /\ op[r] \in {"get", "cancel"} /\ answer[r] = "none"
  /\ saw' = [saw EXCEPT ![r] = status[target[r]]]
  /\ UNCHANGED <<status, op, target, wrote, answer>>

\* A cancel writes only after it has seen an order that was not cancelled.
Write(r) ==
  /\ answer[r] = "none"
  /\ \/ op[r] = "create" /\ status' = [status EXCEPT ![target[r]] = "created"]
     \/ op[r] = "cancel" /\ saw[r] = "created"
          /\ status' = [status EXCEPT ![target[r]] = "cancelled"]
  /\ wrote' = wrote \union {r}
  /\ UNCHANGED <<op, target, saw, answer>>

Answers == {"201", "404", "503", "created", "cancelled", "already"}

\* Whether a request may answer a for what it saw and wrote.  A request that
\* failed answers "503", and may have written all the same.
Legal(r, a) ==
  \/ a = "503"
  \/ a = "201" /\ op[r] = "create" /\ r \in wrote
  \/ a = "cancelled" /\ op[r] = "cancel" /\ r \in wrote
  \/ a = "already" /\ op[r] = "cancel" /\ r \notin wrote /\ saw[r] = "cancelled"
  \/ a = "404" /\ op[r] \in {"get", "cancel"} /\ r \notin wrote /\ saw[r] = "none"
  \/ a = saw[r] /\ op[r] = "get" /\ saw[r] \in {"created", "cancelled"}

Reply(r) ==
  /\ op[r] # "idle" /\ answer[r] = "none"
  /\ \E a \in Answers : Legal(r, a) /\ answer' = [answer EXCEPT ![r] = a]
  /\ UNCHANGED <<status, op, target, saw, wrote>>

Expire(o) ==
  /\ status[o] # "none"
  /\ status' = [status EXCEPT ![o] = "none"]
  /\ UNCHANGED <<op, target, saw, wrote, answer>>

Next ==
  \/ \E r \in Requests : Begin(r) \/ Look(r) \/ Write(r) \/ Reply(r)
  \/ \E o \in Orders : Expire(o)

Spec == Init /\ [][Next]_vars
=============================================================================
