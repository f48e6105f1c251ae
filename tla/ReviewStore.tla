---------------------------- MODULE ReviewStore ----------------------------
(***************************************************************************)
(* The state that the API process and the review worker share: the         *)
(* project, the review_records table of PostgreSQL with its row locks      *)
(* (transactions run at READ COMMITTED) and the Redis list of review       *)
(* tasks.  A record is named by the request that creates it.               *)
(***************************************************************************)
EXTENDS Naturals, Sequences, SequencesExt

CONSTANTS
    Webhooks,   \* deliveries of platform webhooks, redeliveries included
    Manuals,    \* clicks on "trigger review"
    Deletions,  \* requests to delete the project
    Faults,     \* the faults the environment may produce
    Nobody      \* the holder of a free row lock

FaultKinds == {"api_crash", "worker_crash", "database", "redis"}

ASSUME StoreAssumption ==
    /\ Webhooks \cap Manuals = {}
    /\ (Webhooks \cup Manuals) \cap Deletions = {}
    /\ Faults \subseteq FaultKinds
    /\ Nobody \notin Webhooks \cup Manuals \cup Deletions

Records  == Webhooks \cup Manuals
Requests == Records \cup Deletions

VARIABLES
    project,  \* the row of the projects table
    rec,      \* the committed rows of review_records
    rowLock,  \* who holds an uncommitted write of a row
    queue     \* the Redis list

storeVars == <<project, rec, rowLock, queue>>

-----------------------------------------------------------------------------
Status   == {"absent", "queued", "processing", "reviewed", "skipped", "failed"}
Delivery == {"pending", "delivered", "comment_failed", "notify_failed",
             "partial_failed"}

(***************************************************************************)
(* The columns the pipeline writes.  "result" stands for score and         *)
(* review_result being set, "failure" for failed_at and error_message.     *)
(***************************************************************************)
Row == [status: Status, result: BOOLEAN, failure: BOOLEAN,
        delivery: Delivery, retry: Nat]

NoRow  == [status |-> "absent", result |-> FALSE, failure |-> FALSE,
           delivery |-> "pending", retry |-> 0]
NewRow == [NoRow EXCEPT !.status = "queued"]

Stored(r) == rec[r].status # "absent"

(***************************************************************************)
(* The unit of work of the ORM: an UPDATE names only the columns whose     *)
(* value differs from the one loaded, so what other transactions wrote to  *)
(* the remaining columns since then stays.                                 *)
(***************************************************************************)
Flushed(current, loaded, new) ==
    [status   |-> IF new.status   # loaded.status   THEN new.status
                                                    ELSE current.status,
     result   |-> IF new.result   # loaded.result   THEN new.result
                                                    ELSE current.result,
     failure  |-> IF new.failure  # loaded.failure  THEN new.failure
                                                    ELSE current.failure,
     delivery |-> IF new.delivery # loaded.delivery THEN new.delivery
                                                    ELSE current.delivery,
     retry    |-> IF new.retry    # loaded.retry    THEN new.retry
                                                    ELSE current.retry]

-----------------------------------------------------------------------------
(* ReviewQueueService: RPUSH, LPOP and LREM with count 1.                  *)
Enqueue(r)       == queue' = Append(queue, r)
RemoveMessage(r) == queue' = RemoveFirst(queue, r)
Dequeue          == /\ queue # <<>>
                    /\ queue' = Tail(queue)

-----------------------------------------------------------------------------
StoreInit ==
    /\ project = "present"
    /\ rec = [r \in Records |-> NoRow]
    /\ rowLock = [r \in Records |-> Nobody]
    /\ queue = <<>>

StoreTypeOK ==
    /\ project \in {"present", "locked", "deleted"}
    /\ rec \in [Records -> Row]
    /\ rowLock \in [Records -> Requests \cup {Nobody}]
    /\ queue \in Seq(Records)
=============================================================================
