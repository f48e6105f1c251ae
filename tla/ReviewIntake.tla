---------------------------- MODULE ReviewIntake ----------------------------
(***************************************************************************)
(* The API side of the review pipeline: the webhook handlers, the manual   *)
(* trigger and the deletion of a project.  Handlers of one process share   *)
(* one event loop.  Their database calls are synchronous: the loop is held *)
(* from the first statement of a handler to its next await, and also while *)
(* the database makes the handler wait for a lock.  Only the Redis calls   *)
(* are awaited.                                                            *)
(***************************************************************************)
EXTENDS ReviewStore

CONSTANTS
    Processes,  \* the API processes
    ProcessOf,  \* the process that serves a request
    EventIds,   \* the values of external_event_id
    NoId,       \* a delivery without an event id
    EventId,    \* the external_event_id of the record a request describes
    Subjects,   \* merge request and commit, or branch and commit
    Subject     \* what a request is about

ASSUME IntakeAssumption ==
    /\ ProcessOf \in [Requests -> Processes]
    /\ NoId \notin EventIds
    /\ EventId \in [Records -> EventIds \cup {NoId}]
    /\ Subject \in [Records -> Subjects]

VARIABLES
    pc,      \* where a request is; the last position tells its answer
    target,  \* the record a request writes
    loaded   \* that record as the request's session loaded it

intakeVars == <<pc, target, loaded>>

-----------------------------------------------------------------------------
HoldsLoop(q) == pc[q] \in {"locking", "reading", "writing", "deleting",
                           "cascading"}

(* The loop of q's process runs no other handler.                          *)
LoopFree(q) ==
    \A o \in Requests : ProcessOf[o] = ProcessOf[q] => ~HoldsLoop(o)

(* The key of pg_advisory_xact_lock: the event id, else the subject.       *)
Token(q) == IF EventId[q] # NoId THEN <<"event", EventId[q]>>
                                 ELSE <<"subject", Subject[q]>>

(* Mutant: the lock is given back once the row is written.                 *)
HoldsTokenUntilFlush(q) ==
    /\ q \in Webhooks
    /\ pc[q] \in {"reading", "writing"}

(* The advisory lock belongs to the transaction: only its end frees it.    *)
HoldsToken(q) ==
    /\ q \in Webhooks
    /\ pc[q] \in {"reading", "writing", "sending", "pushed", "unwinding"}

(* An insertion holds a share lock on the row of its project.              *)
Inserting(q) ==
    /\ q \in Records
    /\ pc[q] \in {"sending", "pushed", "unwinding"}
    /\ target[q] = q

SameEvent(q) ==
    {r \in Records : Stored(r) /\ EventId[r] = EventId[q] /\ EventId[q] # NoId}
SameSubject(q) == {r \in Records : Stored(r) /\ Subject[r] = Subject[q]}
Existing(q) == IF SameEvent(q) # {} THEN SameEvent(q) ELSE SameSubject(q)

Goto(q, position) == pc' = [pc EXCEPT ![q] = position]

-----------------------------------------------------------------------------
(* The payload is invalid, no active project matches (or two do, which is  *)
(* a conflict), or the event filter refuses the event.                     *)
SkipWebhook(q) ==
    /\ q \in Webhooks /\ pc[q] = "idle" /\ LoopFree(q)
    /\ \E answer \in {"skipped", "rejected"} : Goto(q, answer)
    /\ UNCHANGED <<storeVars, target, loaded>>

AcceptWebhook(q) ==
    /\ q \in Webhooks /\ pc[q] = "idle" /\ LoopFree(q)
    /\ project # "deleted"
    /\ Goto(q, "locking")
    /\ UNCHANGED <<storeVars, target, loaded>>

AcquireIdempotencyLock(q) ==
    /\ q \in Webhooks /\ pc[q] = "locking"
    /\ \A o \in Webhooks : HoldsToken(o) => Token(o) # Token(q)
    /\ Goto(q, "reading")
    /\ UNCHANGED <<storeVars, target, loaded>>

FindNothing(q) ==
    /\ q \in Webhooks /\ pc[q] = "reading"
    /\ Existing(q) = {}
    /\ Goto(q, "writing")
    /\ target' = [target EXCEPT ![q] = q]
    /\ UNCHANGED <<storeVars, loaded>>

(* Mutant: whatever is found is queued again.                              *)
FindAny(q) ==
    /\ q \in Webhooks /\ pc[q] = "reading"
    /\ \E r \in Existing(q) :
          /\ target' = [target EXCEPT ![q] = r]
          /\ loaded' = [loaded EXCEPT ![q] = rec[r]]
    /\ Goto(q, "writing")
    /\ UNCHANGED storeVars

(* Mutant: a skipped review is worth another try as well.                  *)
FindFailedOrSkipped(q) ==
    /\ q \in Webhooks /\ pc[q] = "reading"
    /\ \E r \in Existing(q) :
          /\ rec[r].status \in {"failed", "skipped"}
          /\ target' = [target EXCEPT ![q] = r]
          /\ loaded' = [loaded EXCEPT ![q] = rec[r]]
    /\ Goto(q, "writing")
    /\ UNCHANGED storeVars

FindFailed(q) ==
    /\ q \in Webhooks /\ pc[q] = "reading"
    /\ \E r \in Existing(q) :
          /\ rec[r].status = "failed"
          /\ target' = [target EXCEPT ![q] = r]
          /\ loaded' = [loaded EXCEPT ![q] = rec[r]]
    /\ Goto(q, "writing")
    /\ UNCHANGED storeVars

FindDuplicate(q) ==
    /\ q \in Webhooks /\ pc[q] = "reading"
    /\ \E r \in Existing(q) : rec[r].status # "failed"
    /\ Goto(q, "duplicate")
    /\ UNCHANGED <<storeVars, target, loaded>>

TriggerManualReview(q) ==
    /\ q \in Manuals /\ pc[q] = "idle" /\ LoopFree(q)
    /\ project # "deleted"
    /\ Goto(q, "writing")
    /\ target' = [target EXCEPT ![q] = q]
    /\ UNCHANGED <<storeVars, loaded>>

(* The project is unknown, inactive, or its head cannot be resolved.       *)
RefuseManualReview(q) ==
    /\ q \in Manuals /\ pc[q] = "idle" /\ LoopFree(q)
    /\ Goto(q, "rejected")
    /\ UNCHANGED <<storeVars, target, loaded>>

FlushInsert(q) ==
    /\ pc[q] = "writing" /\ target[q] = q
    /\ project = "present"
    /\ Goto(q, "sending")
    /\ rowLock' = [rowLock EXCEPT ![q] = q]
    /\ UNCHANGED <<project, rec, queue, target, loaded>>

FlushRequeue(q) ==
    /\ pc[q] = "writing" /\ target[q] # q
    /\ Stored(target[q]) /\ rowLock[target[q]] = Nobody
    /\ Goto(q, "sending")
    /\ rowLock' = [rowLock EXCEPT ![target[q]] = q]
    /\ UNCHANGED <<project, rec, queue, target, loaded>>

(* The project or the record disappeared: the flush raises.                *)
FlushFails(q) ==
    /\ pc[q] = "writing"
    /\ IF target[q] = q THEN project = "deleted" ELSE ~Stored(target[q])
    /\ Goto(q, "rejected")
    /\ UNCHANGED <<storeVars, target, loaded>>

(* RPUSH runs while the handler is suspended.                              *)
PushTask(q) ==
    /\ pc[q] = "sending"
    /\ Enqueue(target[q])
    /\ Goto(q, "pushed")
    /\ UNCHANGED <<project, rec, rowLock, target, loaded>>

(* The call to Redis raises, with or without its effect.                   *)
PushFails(q) ==
    /\ "redis" \in Faults
    /\ pc[q] = "sending"
    /\ Enqueue(target[q]) \/ UNCHANGED queue
    /\ Goto(q, "unwinding")
    /\ UNCHANGED <<project, rec, rowLock, target, loaded>>

(* Mutant: the except clause forgets session.rollback().                   *)
RollbackForgotten(q) ==
    /\ pc[q] = "unwinding" /\ LoopFree(q)
    /\ Goto(q, "rejected")
    /\ UNCHANGED <<storeVars, target, loaded>>

(* Mutant: the transaction is committed although no task was queued.       *)
RollbackCommits(q) ==
    /\ pc[q] = "unwinding" /\ LoopFree(q)
    /\ Goto(q, "rejected")
    /\ rec' = [rec EXCEPT ![target[q]].status = "queued"]
    /\ rowLock' = [rowLock EXCEPT ![target[q]] = Nobody]
    /\ UNCHANGED <<project, queue, target, loaded>>

Rollback(q) ==
    /\ pc[q] = "unwinding" /\ LoopFree(q)
    /\ Goto(q, "rejected")
    /\ rowLock' = [rowLock EXCEPT ![target[q]] = Nobody]
    /\ UNCHANGED <<project, rec, queue, target, loaded>>

(* Mutant: failed_at and error_message survive the requeue.                *)
WrittenRowKeepsError(q) ==
    IF target[q] = q THEN NewRow
    ELSE Flushed(rec[target[q]], loaded[q],
                 [loaded[q] EXCEPT !.status = "queued"])

WrittenRow(q) ==
    IF target[q] = q THEN NewRow
    ELSE Flushed(rec[target[q]], loaded[q],
                 [loaded[q] EXCEPT !.status = "queued", !.failure = FALSE])

CommitTask(q) ==
    /\ pc[q] = "pushed" /\ LoopFree(q)
    /\ rec' = [rec EXCEPT ![target[q]] = WrittenRow(q)]
    /\ rowLock' = [rowLock EXCEPT ![target[q]] = Nobody]
    /\ Goto(q, "accepted")
    /\ UNCHANGED <<project, queue, target, loaded>>

CommitFails(q) ==
    /\ "database" \in Faults
    /\ pc[q] = "pushed" /\ LoopFree(q)
    /\ rowLock' = [rowLock EXCEPT ![target[q]] = Nobody]
    /\ Goto(q, "removing")
    /\ UNCHANGED <<project, rec, queue, target, loaded>>

WithdrawTask(q) ==
    /\ pc[q] = "removing"
    /\ \/ RemoveMessage(target[q])
       \/ "redis" \in Faults /\ UNCHANGED queue
    /\ Goto(q, "rejected")
    /\ UNCHANGED <<project, rec, rowLock, target, loaded>>

RequestDeletion(q) ==
    /\ q \in Deletions /\ pc[q] = "idle" /\ LoopFree(q)
    /\ Goto(q, IF project = "deleted" THEN "rejected" ELSE "deleting")
    /\ UNCHANGED <<storeVars, target, loaded>>

(* DELETE waits for the share locks of uncommitted insertions.             *)
LockProject(q) ==
    /\ q \in Deletions /\ pc[q] = "deleting"
    /\ \/ /\ project = "present"
          /\ \A o \in Requests : ~Inserting(o)
          /\ project' = "locked"
          /\ Goto(q, "cascading")
       \/ /\ project = "deleted"
          /\ Goto(q, "accepted")
          /\ UNCHANGED project
    /\ UNCHANGED <<rec, rowLock, queue, target, loaded>>

(* The cascade waits for the row locks of uncommitted requeues.            *)
DeleteProject(q) ==
    /\ q \in Deletions /\ pc[q] = "cascading"
    /\ \A r \in Records : rowLock[r] = Nobody
    /\ project' = "deleted"
    /\ rec' = [r \in Records |-> NoRow]
    /\ Goto(q, "accepted")
    /\ UNCHANGED <<rowLock, queue, target, loaded>>

-----------------------------------------------------------------------------
Answered == {"skipped", "duplicate", "accepted", "rejected", "aborted"}

(* A process dies: its requests end without an answer, its transactions    *)
(* are rolled back.  Requests that come later find it restarted.           *)
ApiCrash(p) ==
    LET dying == {q \in Requests : /\ ProcessOf[q] = p
                                   /\ pc[q] \notin Answered \cup {"idle"}}
    IN  /\ "api_crash" \in Faults
        /\ dying # {}
        /\ pc' = [q \in Requests |-> IF q \in dying THEN "aborted" ELSE pc[q]]
        /\ rowLock' = [r \in Records |->
                          IF rowLock[r] \in dying THEN Nobody ELSE rowLock[r]]
        /\ project' = IF \E q \in dying : pc[q] = "cascading"
                      THEN "present" ELSE project
        /\ UNCHANGED <<rec, queue, target, loaded>>

-----------------------------------------------------------------------------
IntakeInit ==
    /\ pc = [q \in Requests |-> "idle"]
    /\ target = [q \in Requests |-> q]
    /\ loaded = [q \in Requests |-> NoRow]

RequestStep(q) ==
    \/ AcquireIdempotencyLock(q)
    \/ FindNothing(q) \/ FindFailed(q) \/ FindDuplicate(q)
    \/ FlushInsert(q) \/ FlushRequeue(q) \/ FlushFails(q)
    \/ PushTask(q) \/ PushFails(q) \/ Rollback(q)
    \/ CommitTask(q) \/ CommitFails(q) \/ WithdrawTask(q)
    \/ LockProject(q) \/ DeleteProject(q)

Arrive(q) ==
    \/ SkipWebhook(q) \/ AcceptWebhook(q)
    \/ TriggerManualReview(q) \/ RefuseManualReview(q)
    \/ RequestDeletion(q)

IntakeNext ==
    \/ \E q \in Requests : Arrive(q) \/ RequestStep(q)
    \/ \E p \in Processes : ApiCrash(p)

Positions == {"idle", "locking", "reading", "writing", "sending", "pushed",
              "unwinding", "removing", "deleting", "cascading"} \cup Answered

IntakeTypeOK ==
    /\ pc \in [Requests -> Positions]
    /\ target \in [Requests -> Requests]
    /\ \A q \in Records : target[q] \in Records
    /\ loaded \in [Requests -> Row]
=============================================================================
