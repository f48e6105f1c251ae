---------------------------- MODULE ReviewWorker ----------------------------
(***************************************************************************)
(* The worker processes: each pops a task from the Redis list and runs     *)
(* ReviewExecutionService.execute on it, one database transaction at a     *)
(* time.  A pop is final, nothing acknowledges a task.  Any exception but  *)
(* a 404 leaves main() and ends the process.                               *)
(***************************************************************************)
EXTENDS ReviewStore

CONSTANTS
    Workers,  \* the worker processes
    NoJob     \* a worker without a task

ASSUME WorkerAssumption == NoJob \notin Records

VARIABLES
    wpc,          \* where a worker is
    job,          \* the record of the task it popped
    seen,         \* that record as the worker's session loaded it
    undelivered,  \* the deliveries of the current result that raised
    comments,     \* how many comments the git platform shows for a record
    abandoned     \* records whose task ended with no outcome (a history)

workerVars == <<wpc, job, seen, undelivered, comments, abandoned>>

-----------------------------------------------------------------------------
Move(w, from, to) ==
    /\ wpc[w] = from
    /\ wpc' = [wpc EXCEPT ![w] = to]

Alive(w) == Stored(job[w])

(* An UPDATE of the record waits for the transaction that locked its row.  *)
CanWrite(w) == Alive(w) /\ rowLock[job[w]] = Nobody

Load(w)       == seen' = [seen EXCEPT ![w] = rec[job[w]]]
Write(w, row) == rec' = [rec EXCEPT ![job[w]] = row]
GiveUp(w)     == /\ job' = [job EXCEPT ![w] = NoJob]
                 /\ abandoned' = abandoned \cup {job[w]}
Finish(w)     == job' = [job EXCEPT ![w] = NoJob]

-----------------------------------------------------------------------------
PopTask(w) ==
    /\ Move(w, "idle", "popped")
    /\ Dequeue
    /\ job' = [job EXCEPT ![w] = Head(queue)]
    /\ UNCHANGED <<project, rec, rowLock, seen, undelivered, comments,
                   abandoned>>

(* The record is unknown: the 404 is swallowed and the task is gone.       *)
DropTask(w) ==
    /\ Move(w, "popped", "idle")
    /\ ~Alive(w)
    /\ GiveUp(w)
    /\ UNCHANGED <<storeVars, seen, undelivered, comments>>

LoadRecord(w) ==
    /\ Move(w, "popped", "loaded")
    /\ Alive(w)
    /\ Load(w)
    /\ UNCHANGED <<storeVars, job, undelivered, comments, abandoned>>

ResetRow(row) == [row EXCEPT !.status = "processing", !.result = FALSE,
                             !.failure = FALSE, !.delivery = "pending"]

(* Mutant: the change to "processing" is not committed before the work.    *)
StartUncommitted(w) ==
    /\ Move(w, "loaded", "fetching")
    /\ CanWrite(w)
    /\ UNCHANGED <<storeVars, job, seen, undelivered, comments, abandoned>>

StartProcessing(w) ==
    /\ Move(w, "loaded", "fetching")
    /\ CanWrite(w)
    /\ Write(w, Flushed(rec[job[w]], seen[w], ResetRow(seen[w])))
    /\ UNCHANGED <<project, rowLock, queue, job, seen, undelivered, comments,
                   abandoned>>

(* Changes and commits are fetched and stored; some files are of interest. *)
FetchChanges(w) ==
    /\ Move(w, "fetching", "reviewing")
    /\ CanWrite(w)
    /\ UNCHANGED <<storeVars, job, seen, undelivered, comments, abandoned>>

FetchNothingRelevant(w) ==
    /\ Move(w, "fetching", "skipping")
    /\ CanWrite(w)
    /\ UNCHANGED <<storeVars, job, seen, undelivered, comments, abandoned>>

(* The attributes set here were expired by the last commit: every one of   *)
(* them is part of the UPDATE.  failed_at and error_message are not.       *)
MarkSkipped(w) ==
    /\ Move(w, "skipping", "idle")
    /\ CanWrite(w)
    /\ Write(w, [rec[job[w]] EXCEPT !.status = "skipped", !.result = TRUE])
    /\ Finish(w)
    /\ UNCHANGED <<project, rowLock, queue, seen, undelivered, comments,
                   abandoned>>

SaveReview(w) ==
    /\ Move(w, "reviewing", "saved")
    /\ CanWrite(w)
    /\ Write(w, [rec[job[w]] EXCEPT !.status = "reviewed", !.result = TRUE,
                                    !.failure = FALSE])
    /\ undelivered' = [undelivered EXCEPT ![w] = {}]
    /\ UNCHANGED <<project, rowLock, queue, job, seen, comments, abandoned>>

LoadSaved(w) ==
    /\ Move(w, "saved", "commenting")
    /\ Alive(w)
    /\ Load(w)
    /\ UNCHANGED <<storeVars, job, undelivered, comments, abandoned>>

Published(w) == comments' = [comments EXCEPT ![job[w]] = @ + 1]
Missed(w, what) ==
    undelivered' = [undelivered EXCEPT ![w] = @ \cup {what}]

PublishComment(w) ==
    /\ Move(w, "commenting", "notifying")
    /\ Published(w)
    /\ UNCHANGED <<storeVars, job, seen, undelivered, abandoned>>

(* The request to the platform raises; the comment may be there all the    *)
(* same.                                                                   *)
CommentFails(w) ==
    /\ Move(w, "commenting", "notifying")
    /\ Published(w) \/ UNCHANGED comments
    /\ Missed(w, "comment")
    /\ UNCHANGED <<storeVars, job, seen, abandoned>>

Notify(w) ==
    /\ Move(w, "notifying", "settling")
    /\ UNCHANGED <<storeVars, job, seen, undelivered, comments, abandoned>>

NotifyFails(w) ==
    /\ Move(w, "notifying", "settling")
    /\ Missed(w, "notify")
    /\ UNCHANGED <<storeVars, job, seen, comments, abandoned>>

(* Mutant: the two single failures are mixed up.                           *)
DeliveryOutcomeSwapped(missed) ==
    CASE missed = {}          -> "delivered"
      [] missed = {"comment"} -> "notify_failed"
      [] missed = {"notify"}  -> "comment_failed"
      [] OTHER                -> "partial_failed"

DeliveryOutcome(missed) ==
    CASE missed = {}          -> "delivered"
      [] missed = {"comment"} -> "comment_failed"
      [] missed = {"notify"}  -> "notify_failed"
      [] OTHER                -> "partial_failed"

SettleDelivery(w) ==
    /\ Move(w, "settling", "idle")
    /\ CanWrite(w)
    /\ Write(w, Flushed(rec[job[w]], seen[w],
                        [seen[w] EXCEPT
                            !.delivery = DeliveryOutcome(undelivered[w])]))
    /\ Finish(w)
    /\ UNCHANGED <<project, rowLock, queue, seen, undelivered, comments,
                   abandoned>>

-----------------------------------------------------------------------------
(* What ends in the except clause: the platform or the model raises, the   *)
(* record was deleted under the worker, or the database refuses a commit.  *)
PlatformOrModelFails(w) ==
    /\ wpc[w] \in {"fetching", "reviewing"}
    /\ wpc' = [wpc EXCEPT ![w] = "failing"]
    /\ UNCHANGED <<storeVars, job, seen, undelivered, comments, abandoned>>

Writing == {"loaded", "fetching", "skipping", "reviewing", "settling"}

RecordVanished(w) ==
    /\ wpc[w] \in Writing \cup {"saved"}
    /\ ~Alive(w)
    /\ wpc' = [wpc EXCEPT ![w] = "failing"]
    /\ UNCHANGED <<storeVars, job, seen, undelivered, comments, abandoned>>

WriteFails(w) ==
    /\ "database" \in Faults
    /\ wpc[w] \in Writing
    /\ wpc' = [wpc EXCEPT ![w] = "failing"]
    /\ UNCHANGED <<storeVars, job, seen, undelivered, comments, abandoned>>

LoadForFailure(w) ==
    /\ Move(w, "failing", "marking")
    /\ Alive(w)
    /\ Load(w)
    /\ UNCHANGED <<storeVars, job, undelivered, comments, abandoned>>

(* _mark_failed finds no record: its 404 replaces the error.               *)
NothingToMark(w) ==
    /\ Move(w, "failing", "idle")
    /\ ~Alive(w)
    /\ GiveUp(w)
    /\ UNCHANGED <<storeVars, seen, undelivered, comments>>

FailedRow(row) == [row EXCEPT !.status = "failed", !.result = FALSE,
                              !.failure = TRUE, !.delivery = "pending",
                              !.retry = @ + 1]

(* Mutant: the exception is swallowed without a note in the record.        *)
MarkFailedForgotten(w) ==
    /\ Move(w, "marking", "down")
    /\ CanWrite(w)
    /\ Finish(w)
    /\ UNCHANGED <<storeVars, seen, undelivered, comments, abandoned>>

(* failed_at always changes.  The error is raised again: the process ends. *)
MarkFailed(w) ==
    /\ Move(w, "marking", "down")
    /\ CanWrite(w)
    /\ Write(w, [Flushed(rec[job[w]], seen[w], FailedRow(seen[w]))
                    EXCEPT !.failure = TRUE])
    /\ Finish(w)
    /\ UNCHANGED <<project, rowLock, queue, seen, undelivered, comments,
                   abandoned>>

MarkFails(w) ==
    /\ \/ wpc[w] = "marking" /\ ~Alive(w)
       \/ wpc[w] \in {"failing", "marking"} /\ "database" \in Faults
    /\ wpc' = [wpc EXCEPT ![w] = "down"]
    /\ GiveUp(w)
    /\ UNCHANGED <<storeVars, seen, undelivered, comments>>

WorkerCrash(w) ==
    /\ "worker_crash" \in Faults
    /\ wpc[w] # "down"
    /\ wpc' = [wpc EXCEPT ![w] = "down"]
    /\ IF job[w] = NoJob THEN UNCHANGED <<job, abandoned>> ELSE GiveUp(w)
    /\ UNCHANGED <<storeVars, seen, undelivered, comments>>

(* Somebody starts the process again: nothing in the code does.            *)
Restart(w) ==
    /\ Move(w, "down", "idle")
    /\ UNCHANGED <<storeVars, job, seen, undelivered, comments, abandoned>>

-----------------------------------------------------------------------------
WorkerInit ==
    /\ wpc = [w \in Workers |-> "idle"]
    /\ job = [w \in Workers |-> NoJob]
    /\ seen = [w \in Workers |-> NoRow]
    /\ undelivered = [w \in Workers |-> {}]
    /\ comments = [r \in Records |-> 0]
    /\ abandoned = {}

WorkerStep(w) ==
    \/ PopTask(w) \/ DropTask(w) \/ LoadRecord(w) \/ StartProcessing(w)
    \/ FetchChanges(w) \/ FetchNothingRelevant(w) \/ MarkSkipped(w)
    \/ SaveReview(w) \/ LoadSaved(w)
    \/ PublishComment(w) \/ CommentFails(w) \/ Notify(w) \/ NotifyFails(w)
    \/ SettleDelivery(w)
    \/ PlatformOrModelFails(w) \/ RecordVanished(w) \/ WriteFails(w)
    \/ LoadForFailure(w) \/ NothingToMark(w) \/ MarkFailed(w) \/ MarkFails(w)

WorkerNext == \E w \in Workers : WorkerStep(w) \/ WorkerCrash(w) \/ Restart(w)

WorkerPositions ==
    Writing \cup {"idle", "popped", "saved", "commenting", "notifying",
                  "failing", "marking", "down"}

WorkerTypeOK ==
    /\ wpc \in [Workers -> WorkerPositions]
    /\ job \in [Workers -> Records \cup {NoJob}]
    /\ seen \in [Workers -> Row]
    /\ undelivered \in [Workers -> SUBSET {"comment", "notify"}]
    /\ comments \in [Records -> Nat]
    /\ abandoned \subseteq Records
=============================================================================
