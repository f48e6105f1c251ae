--------------------------- MODULE ReviewLifecycle ---------------------------
(***************************************************************************)
(* What the pipeline promises for every review record, whatever queues,    *)
(* locks and processes lie behind it: the life cycle of review_status and, *)
(* within a reviewed record, of delivery_status.                           *)
(***************************************************************************)
CONSTANTS Records

VARIABLES
    status,   \* review_status, "absent" while there is no record
    delivery  \* delivery_status

vars == <<status, delivery>>

Outcomes == {"delivered", "comment_failed", "notify_failed", "partial_failed"}

Init ==
    /\ status = [r \in Records |-> "absent"]
    /\ delivery = [r \in Records |-> "pending"]

Change(r, from, to) ==
    /\ status[r] = from
    /\ status' = [status EXCEPT ![r] = to]

Create(r)  == Change(r, "absent", "queued") /\ UNCHANGED delivery
Requeue(r) == Change(r, "failed", "queued") /\ UNCHANGED delivery
Start(r)   == Change(r, "queued", "processing") /\ UNCHANGED delivery
Settle(r)  == /\ \E s \in {"reviewed", "skipped", "failed"} :
                    Change(r, "processing", s)
              /\ UNCHANGED delivery
Deliver(r) == /\ status[r] = "reviewed" /\ delivery[r] = "pending"
              /\ \E d \in Outcomes : delivery' = [delivery EXCEPT ![r] = d]
              /\ UNCHANGED status
DeleteAll  == Init'

Next ==
    \/ \E r \in Records :
          Create(r) \/ Requeue(r) \/ Start(r) \/ Settle(r) \/ Deliver(r)
    \/ DeleteAll

Spec == Init /\ [][Next]_vars
=============================================================================
