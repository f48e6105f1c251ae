--------------------------- MODULE ReviewPipeline ---------------------------
(***************************************************************************)
(* The composition of the API side (ReviewIntake) and of the workers       *)
(* (ReviewWorker) over the store they share (ReviewStore), and what the    *)
(* whole must satisfy.                                                     *)
(***************************************************************************)
EXTENDS ReviewIntake, ReviewWorker

vars == <<storeVars, intakeVars, workerVars>>

Init == StoreInit /\ IntakeInit /\ WorkerInit

Next ==
    \/ IntakeNext /\ UNCHANGED workerVars
    \/ WorkerNext /\ UNCHANGED intakeVars

Spec == Init /\ [][Next]_vars

(***************************************************************************)
(* Redis and the database answer, the event loop runs what is ready, the   *)
(* worker loop goes on, and somebody restarts a worker that ended.         *)
(* Requests need not arrive.                                               *)
(***************************************************************************)
Fairness ==
    /\ \A q \in Requests : WF_vars(RequestStep(q) /\ UNCHANGED workerVars)
    /\ \A w \in Workers :
          /\ WF_vars(WorkerStep(w) /\ UNCHANGED intakeVars)
          /\ WF_vars(Restart(w) /\ UNCHANGED intakeVars)

FairSpec == Spec /\ Fairness

-----------------------------------------------------------------------------
TypeOK == StoreTypeOK /\ IntakeTypeOK /\ WorkerTypeOK

(***************************************************************************)
(* Two stored records of webhooks never carry the same event id: redelivery*)
(* of one event, however the deliveries and the worker interleave and      *)
(* whatever fails, stores it once (_acquire_webhook_idempotency_lock).     *)
(***************************************************************************)
OneRecordPerEvent ==
    \A r, s \in Webhooks :
        /\ Stored(r) /\ Stored(s)
        /\ EventId[r] = EventId[s] /\ EventId[r] # NoId
        => r = s

(***************************************************************************)
(* A record says that its comment was delivered only if the platform shows *)
(* a comment of it (_deliver_review_result), also when two workers write   *)
(* the same record.                                                        *)
(***************************************************************************)
DeliveredMeansPublished ==
    \A r \in Records :
        rec[r].delivery \in {"delivered", "notify_failed"} => comments[r] > 0

Executing(w) ==
    wpc[w] \in {"fetching", "skipping", "reviewing", "saved", "commenting",
                "notifying", "settling"}

(***************************************************************************)
(* No two workers execute the same record at once: nothing but the absence *)
(* of a second task for it ensures that, since execute takes no lock.      *)
(***************************************************************************)
NoConcurrentExecution ==
    \A v, w \in Workers :
        Executing(v) /\ Executing(w) /\ job[v] = job[w] => v = w

(***************************************************************************)
(* The columns of a row agree: a reviewed row has a result and no error, a *)
(* failed one an error, no result and a counted attempt, and only reviewed *)
(* rows have a delivery outcome.                                           *)
(***************************************************************************)
RowsAreConsistent ==
    \A r \in Records :
        LET row == rec[r] IN
        /\ row.status \in {"reviewed", "skipped"} => row.result /\ ~row.failure
        /\ row.status = "failed" => row.failure /\ ~row.result /\ row.retry > 0
        /\ row.status \in {"queued", "processing"} => ~row.result /\ ~row.failure
        /\ row.delivery # "pending" => row.status = "reviewed"

HasTask(r) ==
    \/ r \in ToSet(queue)
    \/ \E w \in Workers : job[w] = r

(***************************************************************************)
(* A queued or processing record without a task in the list or in a worker *)
(* can only be one whose task a worker took and gave up without writing an *)
(* outcome: no other interleaving strands a record.                        *)
(***************************************************************************)
StrandedOnlyIfAbandoned ==
    \A r \in Records :
        rec[r].status \in {"queued", "processing"} => HasTask(r) \/ r \in abandoned

-----------------------------------------------------------------------------
(* How the positions of requests and workers, the row locks and the rows   *)
(* hang together: what makes OneRecordPerEvent and DeliveredMeansPublished *)
(* inductive.                                                              *)

(* Deletions go their own way; a worker holds a task unless it is at rest. *)
PositionsFit ==
    /\ \A q \in Deletions : pc[q] \in {"idle", "deleting", "cascading"} \cup Answered
    /\ \A w \in Workers : job[w] = NoJob <=> wpc[w] \in {"idle", "down"}

WritesRow(q) == pc[q] \in {"sending", "pushed", "unwinding"}

(* A row is locked by the one request that has an uncommitted write of it. *)
LocksMatch ==
    /\ \A q \in Requests : WritesRow(q) => rowLock[target[q]] = q
    /\ \A r \in Records :
          rowLock[r] # Nobody => /\ WritesRow(rowLock[r])
                                 /\ target[rowLock[r]] = r

(* A row exists only once its creator was answered, and a row that is      *)
(* queued again cannot be deleted before that is committed.                *)
RowsMatch ==
    /\ \A r \in Records : Stored(r) => pc[r] = "accepted"
    /\ \A q \in Requests : WritesRow(q) /\ target[q] # q => Stored(target[q])

TokensAreExclusive ==
    \A q, o \in Webhooks :
        HoldsToken(q) /\ HoldsToken(o) /\ Token(q) = Token(o) => q = o

AboutToInsert(q) ==
    pc[q] \in {"writing", "sending", "pushed"} /\ target[q] = q

(* What a webhook is about to insert is in no stored row yet.              *)
InsertionsAreNew ==
    \A q, r \in Webhooks :
        AboutToInsert(q) /\ EventId[q] # NoId /\ Stored(r)
            => EventId[r] # EventId[q]

(* A comment attempt that did not raise left a comment.                    *)
AttemptsPublish ==
    \A w \in Workers :
        wpc[w] \in {"notifying", "settling"} /\ "comment" \notin undelivered[w]
            => comments[job[w]] > 0

(***************************************************************************)
(* The inductive invariant.  The token that a handler holds from its       *)
(* lookup to its commit keeps InsertionsAreNew true, and that the lock of a*)
(* row has one owner keeps a requeue from creating a row.                  *)
(***************************************************************************)
PipelineInvariant ==
    /\ TypeOK
    /\ PositionsFit
    /\ LocksMatch
    /\ RowsMatch
    /\ TokensAreExclusive
    /\ InsertionsAreNew
    /\ AttemptsPublish
    /\ OneRecordPerEvent
    /\ DeliveredMeansPublished

-----------------------------------------------------------------------------
(* Where the pipeline keeps its promise about records.  Redis, database and*)
(* API processes work, and events that find each other's records take the  *)
(* same lock; workers may die and projects may be deleted.                 *)

MayFind(q, r) ==
    \/ Subject[r] = Subject[q]
    \/ EventId[r] = EventId[q] /\ EventId[q] # NoId

Undisturbed ==
    /\ Faults \subseteq {"worker_crash"}
    /\ \A q, o \in Webhooks, r \in Records :
          MayFind(q, r) /\ MayFind(o, r) => Token(q) = Token(o)

(* There is one task of a record at most.                                  *)
TasksAreUnique ==
    /\ \A i, j \in 1 .. Len(queue) : queue[i] = queue[j] => i = j
    /\ \A w \in Workers : \A i \in 1 .. Len(queue) : job[w] # queue[i]
    /\ \A v, w \in Workers : job[v] = job[w] /\ job[v] # NoJob => v = w

(* A task is pushed by a request that has, or will have, its row.          *)
TasksHaveRequests ==
    /\ \A r \in Records : HasTask(r) => pc[r] \in {"pushed", "accepted"}
    /\ \A r \in Records :
          HasTask(r) /\ rec[r].status = "failed" => rowLock[r] # Nobody
    /\ \A i \in 1 .. Len(queue) :
          rec[queue[i]].status \in {"absent", "queued", "failed"}

(* A request that is about to push has found no task; a row that it queues *)
(* again has failed and stays so until it commits.                         *)
ClaimsFit ==
    /\ \A q \in Requests : pc[q] \notin {"unwinding", "removing", "aborted"}
    /\ \A q \in Requests : pc[q] \in {"writing", "sending"} => ~HasTask(target[q])
    /\ \A q \in Requests :
          pc[q] \in {"writing", "sending", "pushed"} /\ target[q] # q =>
              /\ q \in Webhooks /\ MayFind(q, target[q]) /\ pc[target[q]] = "accepted"
              /\ rec[target[q]].status \in {"absent", "failed"}
              /\ loaded[q].status = "failed" /\ loaded[q].failure

(* A worker finds the row of its task as it left it, or deleted.           *)
LeftAs ==
    [popped   |-> {"queued", "failed"},  loaded     |-> {"queued", "failed"},
     fetching |-> {"processing"},        skipping   |-> {"processing"},
     reviewing |-> {"processing"},       failing    |-> {"processing"},
     marking  |-> {"processing"},        saved      |-> {"reviewed"},
     commenting |-> {"reviewed"},        notifying  |-> {"reviewed"},
     settling |-> {"reviewed"}]

WorkersFit ==
    \A w \in Workers : wpc[w] \notin {"idle", "down"} =>
        /\ rec[job[w]].status \in LeftAs[wpc[w]] \cup {"absent"}
        /\ wpc[w] # "popped" => pc[job[w]] = "accepted"
        /\ rec[job[w]].delivery = "pending"
        /\ wpc[w] = "loaded" => seen[w].status # "processing"
        /\ wpc[w] = "marking" => seen[w].status # "failed"
        /\ wpc[w] \in {"commenting", "notifying", "settling"} =>
               seen[w].delivery = "pending"

(***************************************************************************)
(* The inductive invariant behind the life cycle, on top of the other one. *)
(***************************************************************************)
TaskInvariant ==
    /\ TasksAreUnique
    /\ TasksHaveRequests
    /\ ClaimsFit
    /\ WorkersFit
    /\ RowsAreConsistent

-----------------------------------------------------------------------------
(* Why no record is stranded while the database commits what it is asked   *)
(* to, so that no task is withdrawn again: a worker that has begun with a  *)
(* task writes an outcome or abandons it, and a task that was pushed is    *)
(* not lost while its request still holds the lock of the row.             *)

(* These will write the status of their record before they let it go.      *)
WillWrite(w) ==
    \/ wpc[w] \in {"popped", "loaded", "fetching", "skipping", "reviewing", "failing"}
    \/ wpc[w] = "marking" /\ seen[w].status # "failed"

RecordsAreKept ==
    /\ \A q \in Requests : pc[q] # "removing"
    /\ \A w \in Workers :
          wpc[w] \notin {"idle", "down", "popped"} => pc[job[w]] = "accepted"
    /\ \A q \in Requests : pc[q] = "pushed" =>
          \/ target[q] \in ToSet(queue) \cup abandoned
          \/ \E w \in Workers : job[w] = target[q] /\ wpc[w] \in {"popped", "loaded"}
    /\ \A r \in Records : rec[r].status \in {"queued", "processing"} =>
          \/ r \in ToSet(queue) \cup abandoned
          \/ \E w \in Workers : job[w] = r /\ WillWrite(w)

-----------------------------------------------------------------------------
(***************************************************************************)
(* A row becomes queued only when it is created or when it had failed: a   *)
(* webhook never throws back a record that is queued, in work or done      *)
(* (ingest_webhook_event).                                                 *)
(***************************************************************************)
OnlyFailedIsRequeued ==
    [][\A r \in Records :
          rec'[r].status = "queued"
             => rec[r].status \in {"absent", "failed", "queued"}]_vars

(***************************************************************************)
(* The pipeline implements the life cycle of ReviewLifecycle.              *)
(***************************************************************************)
Lifecycle == INSTANCE ReviewLifecycle
             WITH status   <- [r \in Records |-> rec[r].status],
                  delivery <- [r \in Records |-> rec[r].delivery]

ImplementsLifecycle == Lifecycle!Spec

(***************************************************************************)
(* Every request is answered: no handler waits forever for a lock.         *)
(***************************************************************************)
EveryRequestAnswered ==
    \A q \in Requests : pc[q] # "idle" ~> pc[q] \in Answered

(***************************************************************************)
(* A record that is queued or in work reaches a final status or disappears *)
(* with its project, unless its task was abandoned.                        *)
(***************************************************************************)
Settled(r) == rec[r].status \in {"absent", "reviewed", "skipped", "failed"}

EveryTaskSettlesUnlessAbandoned ==
    \A r \in Records : ~Settled(r) ~> Settled(r) \/ r \in abandoned

-----------------------------------------------------------------------------
(* What the design documents say and the code does not do.                 *)

(***************************************************************************)
(* Every task ends as reviewed, skipped or failed (design 18.3).           *)
(***************************************************************************)
EveryTaskSettles == \A r \in Records : ~Settled(r) ~> Settled(r)
=============================================================================
