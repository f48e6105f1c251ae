------------------------ MODULE ReviewPipelineProofs ------------------------
(***************************************************************************)
(* Proofs about ReviewPipeline: for any sets of requests, event ids,       *)
(* processes, workers and faults.                                          *)
(***************************************************************************)
EXTENDS ReviewPipeline, TLAPS, SequenceTheorems, WellFoundedInduction

-----------------------------------------------------------------------------
(* The store.                                                              *)

(* LREM leaves a list of tasks.                                            *)
LEMMA RemoveFirstType ==
    ASSUME NEW S, NEW s \in Seq(S), NEW e
    PROVE  RemoveFirst(s, e) \in Seq(S)
<1> DEFINE I == {i \in 1 .. Len(s) : s[i] = e}
<1>1. CASE I = {}
  BY <1>1 DEF RemoveFirst
<1>2. CASE I # {}
  <2> DEFINE R == OpToRel(<, Nat)
  <2>1. \E x \in I : \A y \in I : ~ (<<y, x>> \in R)
    <3>1. IsWellFoundedOn(R, Nat)
      BY NatLessThanWellFounded
    <3>2. I \subseteq Nat
      OBVIOUS
    <3> HIDE DEF R, I
    <3> QED BY <1>2, <3>1, <3>2, WFMin
  <2>2. PICK x \in I : \A y \in I : x <= y
    <3>1. \A x, y \in Nat : y < x => <<y, x>> \in R
      BY DEF OpToRel
    <3>2. I \subseteq Nat
      OBVIOUS
    <3> HIDE DEF R, I
    <3>3. PICK x \in I : \A y \in I : ~ (<<y, x>> \in R)
      BY <2>1
    <3>4. \A y \in I : ~ (y < x)
      BY <3>1, <3>2, <3>3
    <3> QED BY <3>2, <3>4
  <2>3. Min(I) \in I
    BY <2>2 DEF Min
  <2>4. SelectInSeq(s, LAMBDA v : v = e) = Min(I)
    BY <1>2 DEF SelectInSeq
  <2>5. PICK k \in 1 .. Len(s) : k = Min(I)
    BY <2>3
  <2>6. SubSeq(s, 1, k - 1) \in Seq(S) /\ SubSeq(s, k + 1, Len(s)) \in Seq(S)
    <3> HIDE DEF I, R
    <3>1. \A i \in 1 .. Len(s) : s[i] \in S
      OBVIOUS
    <3> QED BY <2>5, <3>1, SubSeqProperties
  <2>7. RemoveFirst(s, e) = SubSeq(s, 1, k - 1) \o SubSeq(s, k + 1, Len(s))
    BY <1>2, <2>4, <2>5 DEF RemoveFirst, RemoveAt
  <2> QED BY <2>6, <2>7, ConcatProperties
<1> QED BY <1>1, <1>2

(* What a flush leaves in the table is a row.                              *)
LEMMA FlushedType ==
    ASSUME NEW current \in Row, NEW old \in Row, NEW new \in Row
    PROVE  /\ Flushed(current, old, new) \in Row
           /\ Flushed(current, old, new).delivery \in {current.delivery, new.delivery}
           /\ new.delivery = old.delivery
                 => Flushed(current, old, new).delivery = current.delivery
  BY DEF Flushed, Row

(* The rows that the handlers and the workers compute.                     *)
LEMMA RowTypes ==
    ASSUME NEW row \in Row
    PROVE  /\ NoRow \in Row /\ NewRow \in Row
           /\ ResetRow(row) \in Row /\ FailedRow(row) \in Row
           /\ \A m \in SUBSET {"comment", "notify"} :
                 [row EXCEPT !.delivery = DeliveryOutcome(m)] \in Row
<1>1. NoRow \in Row
  BY DEF Row, NoRow, Status, Delivery
<1>2. NewRow \in Row
  BY DEF Row, NewRow, NoRow, Status, Delivery
<1>3. ResetRow(row) \in Row
  BY DEF Row, ResetRow, Status, Delivery
<1>4. FailedRow(row) \in Row
  <2>1. row.retry + 1 \in Nat
    BY DEF Row
  <2> QED BY <2>1 DEF Row, FailedRow, Status, Delivery
<1>5. ASSUME NEW m \in SUBSET {"comment", "notify"}
      PROVE  [row EXCEPT !.delivery = DeliveryOutcome(m)] \in Row
  <2>1. DeliveryOutcome(m) \in Delivery
    BY DEF DeliveryOutcome, Delivery
  <2> QED BY <2>1 DEF Row
<1> QED BY <1>1, <1>2, <1>3, <1>4, <1>5


-----------------------------------------------------------------------------
(* Types and positions.                                                    *)

(* A step of a handler keeps the types and leaves every request in a       *)
(* position of its kind.                                                   *)
LEMMA RequestStepTypes ==
    ASSUME TypeOK, PositionsFit, NEW q \in Requests, UNCHANGED workerVars,
           Arrive(q) \/ RequestStep(q)
    PROVE  TypeOK' /\ PositionsFit'
<1> USE StoreAssumption
    DEF TypeOK, StoreTypeOK, IntakeTypeOK, WorkerTypeOK, PositionsFit, Requests,
        Records, Positions, Answered, Goto, storeVars, workerVars
<1>1. CASE SkipWebhook(q)
  BY <1>1 DEF SkipWebhook
<1>2. CASE AcceptWebhook(q)
  BY <1>2 DEF AcceptWebhook
<1>3. CASE AcquireIdempotencyLock(q)
  BY <1>3 DEF AcquireIdempotencyLock
<1>4. CASE FindNothing(q)
  BY <1>4 DEF FindNothing
<1>5. CASE FindFailed(q)
  BY <1>5 DEF FindFailed, Existing, SameEvent, SameSubject
<1>6. CASE FindDuplicate(q)
  BY <1>6 DEF FindDuplicate
<1>7. CASE TriggerManualReview(q)
  BY <1>7 DEF TriggerManualReview
<1>8. CASE RefuseManualReview(q)
  BY <1>8 DEF RefuseManualReview
<1>9. CASE FlushInsert(q)
  BY <1>9 DEF FlushInsert
<1>10. CASE FlushRequeue(q)
  BY <1>10 DEF FlushRequeue
<1>11. CASE FlushFails(q)
  BY <1>11 DEF FlushFails
<1>12. CASE PushTask(q)
  <2>1. target[q] \in Records
    BY <1>12 DEF PushTask
  <2>2. queue' \in Seq(Records)
    BY <1>12, <2>1 DEF PushTask, Enqueue
  <2> QED BY <1>12, <2>2 DEF PushTask
<1>13. CASE PushFails(q)
  <2>1. target[q] \in Records
    BY <1>13 DEF PushFails
  <2>2. Append(queue, target[q]) \in Seq(Records) /\ queue \in Seq(Records)
    BY <2>1
  <2>3. queue' = Append(queue, target[q]) \/ queue' = queue
    BY <1>13 DEF PushFails, Enqueue
  <2>4. queue' \in Seq(Records)
    <3> HIDE DEF TypeOK, PositionsFit, Records
    <3> QED BY <2>2, <2>3
  <2> QED BY <1>13, <2>4 DEF PushFails
<1>14. CASE Rollback(q)
  BY <1>14 DEF Rollback
<1>15. CASE CommitTask(q)
  <2>1. WrittenRow(q) \in Row
    <3>1. CASE target[q] = q
      BY <3>1, RowTypes, loaded[q] \in Row DEF WrittenRow
    <3>2. CASE target[q] # q
      <4> DEFINE new == [loaded[q] EXCEPT !.status = "queued", !.failure = FALSE]
      <4>1. new \in Row
        <5>1. loaded[q] \in Row
          OBVIOUS
        <5> QED BY <5>1 DEF Row, Status
      <4>2. rec[target[q]] \in Row
        BY <1>15 DEF CommitTask
      <4> QED BY <3>2, <4>1, <4>2, FlushedType DEF WrittenRow
    <3> QED BY <3>1, <3>2
  <2> QED BY <1>15, <2>1 DEF CommitTask
<1>16. CASE CommitFails(q)
  BY <1>16 DEF CommitFails
<1>17. CASE WithdrawTask(q)
  <2>1. queue' \in Seq(Records)
    BY <1>17, RemoveFirstType DEF WithdrawTask, RemoveMessage
  <2> QED BY <1>17, <2>1 DEF WithdrawTask
<1>18. CASE RequestDeletion(q)
  BY <1>18 DEF RequestDeletion
<1>19. CASE LockProject(q)
  <2>1. CASE Goto(q, "cascading") /\ project' = "locked"
    BY <1>19, <2>1 DEF LockProject
  <2>2. CASE Goto(q, "accepted") /\ UNCHANGED project
    BY <1>19, <2>2 DEF LockProject
  <2> QED BY <1>19, <2>1, <2>2 DEF LockProject
<1>20. CASE DeleteProject(q)
  <2>1. rec' \in [Records -> Row]
    BY <1>20, RowTypes, loaded[q] \in Row DEF DeleteProject
  <2> QED BY <1>20, <2>1 DEF DeleteProject
<1> QED
  BY <1>1, <1>2, <1>3, <1>4, <1>5, <1>6, <1>7, <1>8, <1>9, <1>10, <1>11, <1>12, <1>13, <1>14, <1>15, <1>16, <1>17, <1>18, <1>19, <1>20 DEF Arrive, RequestStep
(* The death of an API process.                                            *)
LEMMA ApiCrashTypes ==
    ASSUME TypeOK, PositionsFit, NEW p \in Processes, UNCHANGED workerVars,
           ApiCrash(p)
    PROVE  TypeOK' /\ PositionsFit'
  BY StoreAssumption
  DEF TypeOK, StoreTypeOK, IntakeTypeOK, WorkerTypeOK, PositionsFit, Requests,
      Records, Positions, Answered, ApiCrash, storeVars, workerVars

(* Comments are only ever added.                                           *)
LEMMA PublishedOnce ==
    ASSUME NEW w \in Workers, job[w] \in Records,
           comments \in [Records -> Nat], Published(w)
    PROVE  /\ comments' \in [Records -> Nat]
           /\ \A r \in Records : comments'[r] >= comments[r]
           /\ comments'[job[w]] > 0
<1>1. comments[job[w]] + 1 \in Nat /\ comments[job[w]] + 1 > 0
  OBVIOUS
<1>2. comments' = [comments EXCEPT ![job[w]] = comments[job[w]] + 1]
  BY DEF Published
<1> QED BY <1>1, <1>2

(* A step of a worker keeps the types, and it holds a task unless it is at *)
(* rest.                                                                   *)
LEMMA WorkerStepTypes ==
    ASSUME TypeOK, PositionsFit, NEW w \in Workers, UNCHANGED intakeVars,
           WorkerStep(w) \/ WorkerCrash(w) \/ Restart(w)
    PROVE  TypeOK' /\ PositionsFit'
<1> USE WorkerAssumption
    DEF TypeOK, StoreTypeOK, IntakeTypeOK, WorkerTypeOK, PositionsFit, Move,
        WorkerPositions, Writing, storeVars, intakeVars
<1>1. CASE PopTask(w)
  BY <1>1 DEF PopTask, Dequeue
<1>2. CASE DropTask(w)
  BY <1>2 DEF DropTask, GiveUp
<1>3. CASE LoadRecord(w)
  BY <1>3 DEF LoadRecord, Load
<1>4. CASE StartProcessing(w)
  <2>1. job[w] \in Records /\ rec[job[w]] \in Row /\ seen[w] \in Row
    BY <1>4 DEF StartProcessing
  <2>2. Flushed(rec[job[w]], seen[w], ResetRow(seen[w])) \in Row
    BY <2>1, RowTypes, FlushedType
  <2>3. rec' \in [Records -> Row]
    BY <1>4, <2>1, <2>2 DEF StartProcessing, Write
  <2> QED BY <1>4, <2>3 DEF StartProcessing
<1>5. CASE FetchChanges(w)
  BY <1>5 DEF FetchChanges
<1>6. CASE FetchNothingRelevant(w)
  BY <1>6 DEF FetchNothingRelevant
<1>7. CASE MarkSkipped(w)
  <2>1. job[w] \in Records /\ rec[job[w]] \in Row /\ seen[w] \in Row
    BY <1>7 DEF MarkSkipped
  <2>2. [rec[job[w]] EXCEPT !.status = "skipped", !.result = TRUE] \in Row
    BY <2>1 DEF Row, Status
  <2>3. rec' \in [Records -> Row]
    BY <1>7, <2>1, <2>2 DEF MarkSkipped, Write
  <2> QED BY <1>7, <2>3 DEF MarkSkipped, Finish
<1>8. CASE SaveReview(w)
  <2>1. job[w] \in Records /\ rec[job[w]] \in Row /\ seen[w] \in Row
    BY <1>8 DEF SaveReview
  <2>2. [rec[job[w]] EXCEPT !.status = "reviewed", !.result = TRUE,
                             !.failure = FALSE] \in Row
    BY <2>1 DEF Row, Status
  <2>3. rec' \in [Records -> Row]
    BY <1>8, <2>1, <2>2 DEF SaveReview, Write
  <2> QED BY <1>8, <2>3 DEF SaveReview
<1>9. CASE LoadSaved(w)
  BY <1>9 DEF LoadSaved, Load
<1>10. CASE PublishComment(w)
  <2>1. comments' \in [Records -> Nat]
    BY <1>10, PublishedOnce DEF PublishComment
  <2> QED BY <1>10, <2>1 DEF PublishComment
<1>11. CASE CommentFails(w)
  <2>1. comments' \in [Records -> Nat]
    <3>1. CASE UNCHANGED comments
      BY <3>1
    <3>2. CASE Published(w)
      BY <1>11, <3>2, PublishedOnce DEF CommentFails
    <3> QED BY <1>11, <3>1, <3>2 DEF CommentFails
  <2>2. undelivered' \in [Workers -> SUBSET {"comment", "notify"}]
    BY <1>11 DEF CommentFails, Missed
  <2> QED BY <1>11, <2>1, <2>2 DEF CommentFails
<1>12. CASE Notify(w)
  BY <1>12 DEF Notify
<1>13. CASE NotifyFails(w)
  BY <1>13 DEF NotifyFails, Missed
<1>14. CASE SettleDelivery(w)
  <2>1. job[w] \in Records /\ rec[job[w]] \in Row /\ seen[w] \in Row
    BY <1>14 DEF SettleDelivery
  <2>2. Flushed(rec[job[w]], seen[w],
                [seen[w] EXCEPT !.delivery = DeliveryOutcome(undelivered[w])]) \in Row
    <3>1. undelivered[w] \in SUBSET {"comment", "notify"}
      OBVIOUS
    <3> QED BY <2>1, <3>1, RowTypes, FlushedType
  <2>3. rec' \in [Records -> Row]
    BY <1>14, <2>1, <2>2 DEF SettleDelivery, Write
  <2> QED BY <1>14, <2>3 DEF SettleDelivery, Finish
<1>15. CASE PlatformOrModelFails(w)
  BY <1>15 DEF PlatformOrModelFails
<1>16. CASE RecordVanished(w)
  BY <1>16 DEF RecordVanished
<1>17. CASE WriteFails(w)
  BY <1>17 DEF WriteFails
<1>18. CASE LoadForFailure(w)
  BY <1>18 DEF LoadForFailure, Load
<1>19. CASE NothingToMark(w)
  BY <1>19 DEF NothingToMark, GiveUp
<1>20. CASE MarkFailed(w)
  <2>1. job[w] \in Records /\ rec[job[w]] \in Row /\ seen[w] \in Row
    BY <1>20 DEF MarkFailed
  <2>2. [Flushed(rec[job[w]], seen[w], FailedRow(seen[w])) EXCEPT !.failure = TRUE] \in Row
    <3>1. Flushed(rec[job[w]], seen[w], FailedRow(seen[w])) \in Row
      BY <2>1, RowTypes, FlushedType
    <3> QED BY <3>1 DEF Row
  <2>3. rec' \in [Records -> Row]
    BY <1>20, <2>1, <2>2 DEF MarkFailed, Write
  <2> QED BY <1>20, <2>3 DEF MarkFailed, Finish
<1>21. CASE MarkFails(w)
  BY <1>21 DEF MarkFails, GiveUp
<1>22. CASE WorkerCrash(w)
  <2>1. CASE job[w] = NoJob
    BY <1>22, <2>1 DEF WorkerCrash
  <2>2. CASE job[w] # NoJob
    <3>1. /\ job' = [job EXCEPT ![w] = NoJob]
          /\ abandoned' = abandoned \cup {job[w]}
      BY <1>22, <2>2 DEF WorkerCrash, GiveUp
    <3>2. job[w] \in Records
      BY <2>2
    <3> QED BY <1>22, <3>1, <3>2 DEF WorkerCrash
  <2> QED BY <2>1, <2>2
<1>23. CASE Restart(w)
  BY <1>23 DEF Restart
<1> QED
  BY <1>1, <1>2, <1>3, <1>4, <1>5, <1>6, <1>7, <1>8, <1>9, <1>10, <1>11, <1>12, <1>13, <1>14, <1>15, <1>16, <1>17, <1>18, <1>19, <1>20, <1>21, <1>22, <1>23 DEF WorkerStep

-----------------------------------------------------------------------------
(* Row locks and rows.                                                     *)

(* Only handlers of webhooks and manual triggers write rows.               *)
LEMMA WriterTarget ==
    ASSUME TypeOK, PositionsFit, NEW q \in Requests, WritesRow(q)
    PROVE  q \in Records /\ target[q] \in Records
  BY StoreAssumption
  DEF TypeOK, IntakeTypeOK, PositionsFit, WritesRow, Requests, Answered

(* A step of a handler keeps locks, positions and rows together.           *)
LEMMA RequestStepLocks ==
    ASSUME TypeOK, PositionsFit, LocksMatch, RowsMatch, NEW q \in Requests,
           UNCHANGED workerVars, Arrive(q) \/ RequestStep(q)
    PROVE  LocksMatch' /\ RowsMatch'
<1> USE StoreAssumption
    DEF TypeOK, StoreTypeOK, IntakeTypeOK, PositionsFit, LocksMatch, RowsMatch,
        WritesRow, Stored, Requests, Records, Answered, Goto, storeVars
<1>1. CASE SkipWebhook(q)
  BY <1>1 DEF SkipWebhook
<1>2. CASE AcceptWebhook(q)
  BY <1>2 DEF AcceptWebhook
<1>3. CASE AcquireIdempotencyLock(q)
  BY <1>3 DEF AcquireIdempotencyLock
<1>4. CASE FindNothing(q)
  BY <1>4 DEF FindNothing
<1>5. CASE FindFailed(q)
  BY <1>5 DEF FindFailed, Existing, SameEvent, SameSubject
<1>6. CASE FindDuplicate(q)
  BY <1>6 DEF FindDuplicate
<1>7. CASE TriggerManualReview(q)
  BY <1>7 DEF TriggerManualReview
<1>8. CASE RefuseManualReview(q)
  BY <1>8 DEF RefuseManualReview
<1>9. CASE FlushInsert(q)
  BY <1>9 DEF FlushInsert
<1>10. CASE FlushRequeue(q)
  BY <1>10 DEF FlushRequeue
<1>11. CASE FlushFails(q)
  BY <1>11 DEF FlushFails
<1>12. CASE PushTask(q)
  BY <1>12 DEF PushTask
<1>13. CASE PushFails(q)
  BY <1>13 DEF PushFails
<1>14. CASE Rollback(q)
  BY <1>14 DEF Rollback
<1>15. CASE CommitTask(q)
  BY <1>15 DEF CommitTask
<1>16. CASE CommitFails(q)
  BY <1>16 DEF CommitFails
<1>17. CASE WithdrawTask(q)
  BY <1>17 DEF WithdrawTask
<1>18. CASE RequestDeletion(q)
  BY <1>18 DEF RequestDeletion
<1>19. CASE LockProject(q)
  BY <1>19 DEF LockProject
<1>20. CASE DeleteProject(q)
  <2>1. \A o \in Requests : ~ WritesRow(o)
    BY <1>20 DEF DeleteProject
  <2>2. UNCHANGED <<rowLock, target>> /\ rec' = [r \in Records |-> NoRow]
        /\ pc' = [pc EXCEPT ![q] = "accepted"]
    BY <1>20 DEF DeleteProject
  <2>3. \A r \in Records : ~ (rec'[r].status # "absent")
    BY <2>2 DEF NoRow
  <2>4. \A o \in Requests : pc'[o] \notin {"sending", "pushed", "unwinding"}
    BY <2>1, <2>2
  <2>5. \A r \in Records : rowLock'[r] = Nobody
    BY <1>20, <2>2 DEF DeleteProject
  <2> QED BY <2>3, <2>4, <2>5
<1> QED
  BY <1>1, <1>2, <1>3, <1>4, <1>5, <1>6, <1>7, <1>8, <1>9, <1>10, <1>11, <1>12, <1>13, <1>14, <1>15, <1>16, <1>17, <1>18, <1>19, <1>20 DEF Arrive, RequestStep

(* The death of an API process frees exactly the locks of its requests.    *)
LEMMA ApiCrashLocks ==
    ASSUME TypeOK, PositionsFit, LocksMatch, RowsMatch, NEW p \in Processes,
           UNCHANGED workerVars, ApiCrash(p)
    PROVE  LocksMatch' /\ RowsMatch'
<1> DEFINE dying == {q \in Requests : /\ ProcessOf[q] = p
                                      /\ pc[q] \notin Answered \cup {"idle"}}
<1>1. /\ pc' = [q \in Requests |-> IF q \in dying THEN "aborted" ELSE pc[q]]
      /\ rowLock' = [r \in Records |->
                        IF rowLock[r] \in dying THEN Nobody ELSE rowLock[r]]
      /\ UNCHANGED <<rec, target>>
  BY DEF ApiCrash
<1>2. \A q \in Requests : WritesRow(q)' => q \notin dying /\ WritesRow(q)
  BY <1>1 DEF WritesRow
<1>3. \A q \in Requests : q \notin dying => pc'[q] = pc[q]
  BY <1>1
<1>4. \A r \in Records : pc[r] = "accepted" => pc'[r] = "accepted"
  BY <1>1 DEF Answered, Requests
<1> HIDE DEF dying
<1>5. \A q \in Requests : WritesRow(q) => target[q] \in Records
  BY WriterTarget
<1>6. LocksMatch'
  <2>1. ASSUME NEW q \in Requests, WritesRow(q)'
        PROVE  rowLock'[target'[q]] = q
    BY <1>1, <1>2, <1>5, <2>1 DEF LocksMatch
  <2>2. ASSUME NEW r \in Records, rowLock'[r] # Nobody
        PROVE  WritesRow(rowLock[r])' /\ target'[rowLock'[r]] = r
               /\ rowLock'[r] = rowLock[r]
    <3>1. rowLock'[r] = rowLock[r] /\ rowLock[r] \notin dying
      BY <1>1, <2>2
    <3>2. rowLock[r] \in Requests
      BY <2>2, <3>1 DEF TypeOK, StoreTypeOK
    <3>3. pc'[rowLock[r]] = pc[rowLock[r]]
      BY <1>3, <3>1, <3>2
    <3> QED BY <1>1, <2>2, <3>1, <3>3 DEF LocksMatch, WritesRow
  <2> QED BY <2>1, <2>2 DEF LocksMatch, WritesRow
<1>7. RowsMatch'
  BY <1>1, <1>2, <1>4 DEF RowsMatch, Stored
<1> QED BY <1>6, <1>7

(* A step of a worker leaves the handlers alone, and creates no row.       *)
LEMMA WorkerStepRows ==
    ASSUME TypeOK, NEW w \in Workers,
           WorkerStep(w) \/ WorkerCrash(w) \/ Restart(w)
    PROVE  /\ UNCHANGED <<rowLock, project>>
           /\ \/ UNCHANGED rec
              \/ CanWrite(w) /\ (\E row : Write(w, row))
           /\ \A r \in Records : Stored(r)' => Stored(r)
<1>1. UNCHANGED <<rowLock, project>>
  BY DEF WorkerStep, WorkerCrash, Restart, storeVars, PopTask,
      DropTask, LoadRecord, StartProcessing, FetchChanges,
      FetchNothingRelevant, MarkSkipped, SaveReview, LoadSaved,
      PublishComment, CommentFails, Notify, NotifyFails,
      SettleDelivery, PlatformOrModelFails, RecordVanished,
      WriteFails, LoadForFailure, NothingToMark, MarkFailed, MarkFails
<1>2. \/ UNCHANGED rec
      \/ CanWrite(w) /\ (\E row : Write(w, row))
  BY DEF WorkerStep, WorkerCrash, Restart, storeVars, PopTask,
      DropTask, LoadRecord, StartProcessing, FetchChanges,
      FetchNothingRelevant, MarkSkipped, SaveReview, LoadSaved,
      PublishComment, CommentFails, Notify, NotifyFails,
      SettleDelivery, PlatformOrModelFails, RecordVanished,
      WriteFails, LoadForFailure, NothingToMark, MarkFailed, MarkFails
<1>3. ASSUME NEW row, CanWrite(w), Write(w, row)
      PROVE  \A r \in Records : Stored(r)' => Stored(r)
  BY <1>3 DEF CanWrite, Alive, Write, Stored, TypeOK, StoreTypeOK
<1> QED BY <1>1, <1>2, <1>3 DEF Stored

(* A worker writes stored rows that nobody has locked, and nothing else.   *)
LEMMA WorkerStepLocks ==
    ASSUME TypeOK, PositionsFit, LocksMatch, RowsMatch, NEW w \in Workers,
           UNCHANGED intakeVars, WorkerStep(w) \/ WorkerCrash(w) \/ Restart(w)
    PROVE  LocksMatch' /\ RowsMatch'
<1>1. UNCHANGED <<pc, target, rowLock, project>>
  BY WorkerStepRows DEF intakeVars
<1>2. UNCHANGED rec \/ (CanWrite(w) /\ \E row : Write(w, row))
  BY WorkerStepRows
<1>3. LocksMatch'
  BY <1>1 DEF LocksMatch, WritesRow
<1>4. CASE UNCHANGED rec
  BY <1>1, <1>3, <1>4 DEF RowsMatch, WritesRow, Stored
<1>5. ASSUME NEW row, CanWrite(w), Write(w, row)
      PROVE  RowsMatch'
  <2>1. \A r \in Records : Stored(r)' => Stored(r)
    BY WorkerStepRows
  <2>2. ASSUME NEW q \in Requests, WritesRow(q)
        PROVE  target[q] # job[w]
    <3>1. rowLock[target[q]] = q
      BY <2>2 DEF LocksMatch
    <3> QED BY <1>5, <3>1, StoreAssumption DEF CanWrite, Requests, Records
  <2>3. \A r \in Records : r # job[w] => rec'[r] = rec[r]
    BY <1>5 DEF Write, TypeOK, StoreTypeOK
  <2>4. \A q \in Requests : WritesRow(q) => target[q] \in Records
    BY WriterTarget
  <2>5. ASSUME NEW q \in Requests, WritesRow(q)', target'[q] # q
        PROVE  Stored(target[q])'
    <3>1. WritesRow(q) /\ target[q] # q
      BY <1>1, <2>5 DEF WritesRow
    <3>2. Stored(target[q]) /\ rec'[target[q]] = rec[target[q]]
      BY <2>2, <2>3, <2>4, <3>1 DEF RowsMatch
    <3> QED BY <1>1, <3>2 DEF Stored
  <2> QED BY <1>1, <2>1, <2>5 DEF RowsMatch, Stored
<1> QED BY <1>2, <1>3, <1>4, <1>5

-----------------------------------------------------------------------------
(* Event ids.                                                              *)

EventsOK == TokensAreExclusive /\ InsertionsAreNew /\ OneRecordPerEvent

(* What one step of a handler may change: its own position and target, and *)
(* it creates a row only by committing its insertion.                      *)
LEMMA RequestStepFrame ==
    ASSUME TypeOK, PositionsFit, LocksMatch, RowsMatch,
           NEW q \in Requests, Arrive(q) \/ RequestStep(q)
    PROVE  /\ \A o \in Requests \ {q} : pc'[o] = pc[o] /\ target'[o] = target[o]
           /\ HoldsToken(q)' => HoldsToken(q) \/ AcquireIdempotencyLock(q)
           /\ AboutToInsert(q)' =>
                 AboutToInsert(q) \/ FindNothing(q) \/ TriggerManualReview(q)
           /\ \A r \in Records :
                 Stored(r)' => Stored(r) \/ (CommitTask(q) /\ AboutToInsert(q) /\ r = q)
<1> USE DEF TypeOK, StoreTypeOK, IntakeTypeOK
<1>1. /\ \A o \in Requests \ {q} : pc'[o] = pc[o] /\ target'[o] = target[o]
      /\ HoldsToken(q)' => HoldsToken(q) \/ AcquireIdempotencyLock(q)
      /\ AboutToInsert(q)' =>
            AboutToInsert(q) \/ FindNothing(q) \/ TriggerManualReview(q)
  <2> USE DEF HoldsToken, AboutToInsert, Goto
  <2>1. CASE SkipWebhook(q)
    BY <2>1 DEF SkipWebhook
  <2>2. CASE AcceptWebhook(q)
    BY <2>2 DEF AcceptWebhook
  <2>3. CASE AcquireIdempotencyLock(q)
    BY <2>3 DEF AcquireIdempotencyLock
  <2>4. CASE FindNothing(q)
    BY <2>4 DEF FindNothing
  <2>5. CASE FindFailed(q)
    <3>1. PICK r \in Records : Stored(r) /\ target' = [target EXCEPT ![q] = r]
      BY <2>5 DEF FindFailed, Existing, SameEvent, SameSubject
    <3>2. r # q
      BY <2>5, <3>1 DEF FindFailed, RowsMatch
    <3>3. pc[q] = "reading" /\ pc' = [pc EXCEPT ![q] = "writing"] /\ q \in Webhooks
      BY <2>5 DEF FindFailed
    <3>4. \A o \in Requests \ {q} : pc'[o] = pc[o] /\ target'[o] = target[o]
      BY <3>1, <3>3
    <3>5. HoldsToken(q)
      BY <3>3
    <3>6. ~ AboutToInsert(q)'
      BY <3>1, <3>2
    <3> QED BY <3>4, <3>5, <3>6
  <2>6. CASE FindDuplicate(q)
    BY <2>6 DEF FindDuplicate
  <2>7. CASE TriggerManualReview(q)
    <3>1. q \in Manuals /\ pc[q] = "idle" /\ pc' = [pc EXCEPT ![q] = "writing"]
          /\ target' = [target EXCEPT ![q] = q]
      BY <2>7 DEF TriggerManualReview
    <3>2. \A o \in Requests \ {q} : pc'[o] = pc[o] /\ target'[o] = target[o]
      BY <3>1
    <3>3. ~ HoldsToken(q)'
      BY <3>1, StoreAssumption
    <3> QED BY <2>7, <3>2, <3>3
  <2>8. CASE RefuseManualReview(q)
    BY <2>8 DEF RefuseManualReview
  <2>9. CASE FlushInsert(q)
    BY <2>9 DEF FlushInsert
  <2>10. CASE FlushRequeue(q)
    BY <2>10 DEF FlushRequeue
  <2>11. CASE FlushFails(q)
    BY <2>11 DEF FlushFails
  <2>12. CASE PushTask(q)
    BY <2>12 DEF PushTask
  <2>13. CASE PushFails(q)
    BY <2>13 DEF PushFails
  <2>14. CASE Rollback(q)
    BY <2>14 DEF Rollback
  <2>15. CASE CommitTask(q)
    BY <2>15 DEF CommitTask
  <2>16. CASE CommitFails(q)
    BY <2>16 DEF CommitFails
  <2>17. CASE WithdrawTask(q)
    BY <2>17 DEF WithdrawTask
  <2>18. CASE RequestDeletion(q)
    BY <2>18 DEF RequestDeletion
  <2>19. CASE LockProject(q)
    BY <2>19 DEF LockProject
  <2>20. CASE DeleteProject(q)
    BY <2>20 DEF DeleteProject
  <2> QED
    BY <2>1, <2>2, <2>3, <2>4, <2>5, <2>6, <2>7, <2>8, <2>9, <2>10, <2>11, <2>12, <2>13, <2>14, <2>15, <2>16, <2>17, <2>18, <2>19, <2>20 DEF Arrive, RequestStep
<1>2. ASSUME CommitTask(q), NEW r \in Records, Stored(r)', ~ Stored(r)
      PROVE  AboutToInsert(q) /\ r = q
  <2>1. r = target[q] /\ pc[q] = "pushed"
    BY <1>2 DEF CommitTask, Stored
  <2>2. target[q] = q
    BY <1>2, <2>1 DEF RowsMatch, WritesRow
  <2> QED BY <2>1, <2>2 DEF AboutToInsert
<1>3. ASSUME ~ CommitTask(q), NEW r \in Records, Stored(r)'
      PROVE  Stored(r)
  <2>1. UNCHANGED rec \/ rec' = [x \in Records |-> NoRow]
    BY <1>3 DEF Arrive, RequestStep, storeVars, SkipWebhook, AcceptWebhook,
           AcquireIdempotencyLock, FindNothing, FindFailed, FindDuplicate,
           TriggerManualReview, RefuseManualReview, FlushInsert,
           FlushRequeue, FlushFails, PushTask, PushFails, Rollback,
           CommitFails, WithdrawTask, RequestDeletion, LockProject,
           DeleteProject
  <2> QED BY <1>3, <2>1 DEF Stored, NoRow
<1> QED BY <1>1, <1>2, <1>3

(* A step of a handler inserts no event id that is stored already.         *)
LEMMA RequestStepEvents ==
    ASSUME TypeOK, PositionsFit, LocksMatch, RowsMatch, EventsOK,
           NEW q \in Requests, Arrive(q) \/ RequestStep(q)
    PROVE  EventsOK'
<1>1. TokensAreExclusive'
  <2> SUFFICES ASSUME NEW o \in Webhooks, NEW v \in Webhooks,
                      HoldsToken(o)', HoldsToken(v)', Token(o) = Token(v), o # v
               PROVE  FALSE
    BY DEF TokensAreExclusive, Token
  <2>1. \A x \in Webhooks \ {q} : HoldsToken(x)' => HoldsToken(x)
    BY RequestStepFrame DEF HoldsToken, Requests, Records
  <2>2. CASE HoldsToken(o) /\ HoldsToken(v)
    BY <2>2 DEF EventsOK, TokensAreExclusive
  <2>3. CASE ~ HoldsToken(o)
    BY <2>1, <2>3, RequestStepFrame DEF AcquireIdempotencyLock
  <2>4. CASE ~ HoldsToken(v)
    BY <2>1, <2>4, RequestStepFrame DEF AcquireIdempotencyLock
  <2> QED BY <2>2, <2>3, <2>4
<1>2. CASE CommitTask(q) /\ AboutToInsert(q)
  <2>1. \A r \in Webhooks :
           r # q /\ q \in Webhooks /\ EventId[q] # NoId /\ Stored(r)
               => EventId[r] # EventId[q]
    BY <1>2 DEF EventsOK, InsertionsAreNew
  <2>2. OneRecordPerEvent'
    BY <2>1, RequestStepFrame
    DEF EventsOK, OneRecordPerEvent, Records
  <2>3. InsertionsAreNew'
    <3> SUFFICES ASSUME NEW o \in Webhooks, NEW r \in Webhooks,
                        AboutToInsert(o)', EventId[o] # NoId, Stored(r)'
                 PROVE  EventId[r] # EventId[o]
      BY DEF InsertionsAreNew
    <3>1. o # q /\ AboutToInsert(o)
      BY <1>2, RequestStepFrame
      DEF CommitTask, Goto, AboutToInsert, Requests, Records, TypeOK, IntakeTypeOK
    <3>2. CASE r # q
      BY <3>1, <3>2, RequestStepFrame DEF EventsOK, InsertionsAreNew, Records
    <3>3. CASE r = q
      <4>1. HoldsToken(o) /\ HoldsToken(q)
        BY <1>2, <3>1, <3>3 DEF AboutToInsert, HoldsToken, CommitTask
      <4> QED
        BY <3>1, <3>3, <4>1 DEF EventsOK, TokensAreExclusive, Token
    <3> QED BY <3>2, <3>3
  <2> QED BY <1>1, <2>2, <2>3 DEF EventsOK
<1>3. CASE ~ (CommitTask(q) /\ AboutToInsert(q))
  <2>1. \A r \in Records : Stored(r)' => Stored(r)
    BY <1>3, RequestStepFrame
  <2>2. OneRecordPerEvent'
    BY <2>1 DEF EventsOK, OneRecordPerEvent, Records
  <2>3. InsertionsAreNew'
    <3> SUFFICES ASSUME NEW o \in Webhooks, NEW r \in Webhooks,
                        AboutToInsert(o)', EventId[o] # NoId, Stored(r)'
                 PROVE  EventId[r] # EventId[o]
      BY DEF InsertionsAreNew
    <3>1. CASE AboutToInsert(o)
      BY <2>1, <3>1 DEF EventsOK, InsertionsAreNew, Records
    <3>2. CASE ~ AboutToInsert(o)
      <4>1. o = q /\ FindNothing(q)
        BY <3>2, RequestStepFrame, StoreAssumption
        DEF AboutToInsert, TriggerManualReview, Requests, Records
      <4> QED
        BY <2>1, <4>1 DEF FindNothing, Existing, SameEvent, Records
    <3> QED BY <3>1, <3>2
  <2> QED BY <1>1, <2>2, <2>3 DEF EventsOK
<1> QED BY <1>2, <1>3

(* The death of an API process.                                            *)
LEMMA ApiCrashEvents ==
    ASSUME EventsOK, NEW p \in Processes, ApiCrash(p)
    PROVE  EventsOK'
  BY DEF EventsOK, TokensAreExclusive, InsertionsAreNew, OneRecordPerEvent,
         AboutToInsert, HoldsToken, Token, Stored, Requests, Records, ApiCrash, storeVars

(* A step of a worker.                                                     *)
LEMMA WorkerStepEvents ==
    ASSUME TypeOK, EventsOK, NEW w \in Workers, UNCHANGED intakeVars,
           WorkerStep(w) \/ WorkerCrash(w) \/ Restart(w)
    PROVE  EventsOK'
<1>1. \A r \in Records : Stored(r)' => Stored(r)
  BY WorkerStepRows
<1> QED
  BY <1>1
  DEF EventsOK, TokensAreExclusive, InsertionsAreNew, OneRecordPerEvent,
      AboutToInsert, HoldsToken, Token, Records, intakeVars

-----------------------------------------------------------------------------
(* Deliveries.                                                             *)

DeliveriesOK == AttemptsPublish /\ DeliveredMeansPublished

(* Handlers never write a delivery outcome.                                *)
LEMMA RequestStepDeliveries ==
    ASSUME TypeOK, PositionsFit, DeliveriesOK, UNCHANGED workerVars,
           NEW q \in Requests, Arrive(q) \/ RequestStep(q)
    PROVE  DeliveriesOK'
<1>1. AttemptsPublish'
  BY DEF DeliveriesOK, AttemptsPublish, workerVars
<1>2. ASSUME CommitTask(q), NEW r \in Records
      PROVE  rec'[r].delivery \in {"pending", rec[r].delivery}
  <2> USE DEF TypeOK, StoreTypeOK, IntakeTypeOK
  <2>1. CASE r # target[q]
    BY <1>2, <2>1 DEF CommitTask
  <2>2. CASE r = target[q] /\ target[q] = q
    BY <1>2, <2>2 DEF CommitTask, WrittenRow, NewRow, NoRow
  <2>3. CASE r = target[q] /\ target[q] # q
    <3> DEFINE new == [loaded[q] EXCEPT !.status = "queued", !.failure = FALSE]
    <3>1. loaded[q] \in Row /\ rec[r] \in Row
      OBVIOUS
    <3>2. new \in Row /\ new.delivery = loaded[q].delivery
      BY <3>1 DEF Row, Status
    <3>3. rec'[r] = Flushed(rec[r], loaded[q], new)
      BY <1>2, <2>3 DEF CommitTask, WrittenRow
    <3> HIDE DEF new
    <3> QED BY <3>1, <3>2, <3>3, FlushedType
  <2> QED BY <2>1, <2>2, <2>3
<1>3. ASSUME ~ CommitTask(q), NEW r \in Records
      PROVE  rec'[r].delivery \in {"pending", rec[r].delivery}
  <2>1. UNCHANGED rec \/ rec' = [x \in Records |-> NoRow]
    BY <1>3 DEF Arrive, RequestStep, storeVars, SkipWebhook, AcceptWebhook,
           AcquireIdempotencyLock, FindNothing, FindFailed, FindDuplicate,
           TriggerManualReview, RefuseManualReview, FlushInsert,
           FlushRequeue, FlushFails, PushTask, PushFails, Rollback,
           CommitFails, WithdrawTask, RequestDeletion, LockProject,
           DeleteProject
  <2> QED BY <2>1 DEF NoRow
<1>4. DeliveredMeansPublished'
  BY <1>2, <1>3 DEF DeliveriesOK, DeliveredMeansPublished, workerVars
<1> QED BY <1>1, <1>4 DEF DeliveriesOK

(* The death of an API process.                                            *)
LEMMA ApiCrashDeliveries ==
    ASSUME DeliveriesOK, NEW p \in Processes, ApiCrash(p), UNCHANGED workerVars
    PROVE  DeliveriesOK'
  BY DEF DeliveriesOK, AttemptsPublish, DeliveredMeansPublished, ApiCrash,
         workerVars

(* A worker writes "delivered" and "notify_failed" only after an attempt   *)
(* that left a comment.                                                    *)
LEMMA WorkerStepDeliveries ==
    ASSUME TypeOK, PositionsFit, DeliveriesOK, NEW w \in Workers,
           WorkerStep(w) \/ WorkerCrash(w) \/ Restart(w)
    PROVE  DeliveriesOK'
<1> USE DEF TypeOK, StoreTypeOK, WorkerTypeOK, PositionsFit, DeliveriesOK,
            AttemptsPublish, DeliveredMeansPublished, Move, storeVars
<1>1. CASE PopTask(w)
  BY <1>1 DEF PopTask
<1>2. CASE DropTask(w)
  BY <1>2 DEF DropTask, GiveUp
<1>3. CASE LoadRecord(w)
  BY <1>3 DEF LoadRecord
<1>4. CASE StartProcessing(w)
  <2>1. job[w] \in Records /\ rec[job[w]] \in Row /\ seen[w] \in Row
    BY <1>4 DEF StartProcessing
  <2>2. ResetRow(seen[w]) \in Row /\ ResetRow(seen[w]).delivery = "pending"
    BY <2>1, RowTypes DEF ResetRow, Row
  <2>3. \A r \in Records : rec'[r].delivery \in {"pending", rec[r].delivery}
    BY <1>4, <2>1, <2>2, FlushedType DEF StartProcessing, Write
  <2>4. UNCHANGED <<comments, job, undelivered>>
        /\ wpc' = [wpc EXCEPT ![w] = "fetching"]
    BY <1>4 DEF StartProcessing
  <2> QED BY <2>3, <2>4
<1>5. CASE FetchChanges(w)
  BY <1>5 DEF FetchChanges
<1>6. CASE FetchNothingRelevant(w)
  BY <1>6 DEF FetchNothingRelevant
<1>7. CASE MarkSkipped(w)
  BY <1>7 DEF MarkSkipped, Write, Finish
<1>8. CASE SaveReview(w)
  BY <1>8 DEF SaveReview, Write
<1>9. CASE LoadSaved(w)
  BY <1>9 DEF LoadSaved, Load
<1>10. CASE PublishComment(w)
  <2>1. job[w] \in Records
    BY <1>10 DEF PublishComment
  <2>2. /\ comments' \in [Records -> Nat]
        /\ \A r \in Records : comments'[r] >= comments[r]
        /\ comments'[job[w]] > 0
    BY <1>10, <2>1, PublishedOnce DEF PublishComment
  <2>3. UNCHANGED <<rec, job, undelivered>>
        /\ wpc' = [wpc EXCEPT ![w] = "notifying"]
    BY <1>10 DEF PublishComment
  <2>4. DeliveredMeansPublished'
    BY <2>2, <2>3
  <2>5. ASSUME NEW v \in Workers, wpc'[v] \in {"notifying", "settling"},
               "comment" \notin undelivered[v]
        PROVE  comments'[job[v]] > 0
    <3>1. CASE v = w
      BY <2>2, <3>1
    <3>2. CASE v # w
      <4>1. job[v] \in Records /\ comments[job[v]] > 0
        BY <2>3, <2>5, <3>2
      <4> QED BY <2>2, <4>1
    <3> QED BY <3>1, <3>2
  <2> QED BY <2>3, <2>4, <2>5
<1>11. CASE CommentFails(w)
  <2>1. job[w] \in Records
    BY <1>11 DEF CommentFails
  <2>2. /\ comments' \in [Records -> Nat]
        /\ \A r \in Records : comments'[r] >= comments[r]
    BY <1>11, <2>1, PublishedOnce DEF CommentFails
  <2>3. /\ UNCHANGED <<rec, job>>
        /\ wpc' = [wpc EXCEPT ![w] = "notifying"]
        /\ undelivered' = [undelivered EXCEPT ![w] = @ \cup {"comment"}]
    BY <1>11 DEF CommentFails, Missed
  <2>4. DeliveredMeansPublished'
    BY <2>2, <2>3
  <2>5. ASSUME NEW v \in Workers, wpc'[v] \in {"notifying", "settling"},
               "comment" \notin undelivered'[v]
        PROVE  comments'[job[v]] > 0
    <3>1. v # w
      BY <2>3, <2>5
    <3>2. job[v] \in Records /\ comments[job[v]] > 0
      BY <2>3, <2>5, <3>1
    <3> QED BY <2>2, <3>2
  <2> QED BY <2>3, <2>4, <2>5
<1>12. CASE Notify(w)
  BY <1>12 DEF Notify
<1>13. CASE NotifyFails(w)
  BY <1>13 DEF NotifyFails, Missed
<1>14. CASE SettleDelivery(w)
  <2> DEFINE new == [seen[w] EXCEPT !.delivery = DeliveryOutcome(undelivered[w])]
  <2>1. job[w] \in Records /\ rec[job[w]] \in Row /\ seen[w] \in Row
    BY <1>14 DEF SettleDelivery
  <2>2. new \in Row /\ new.delivery = DeliveryOutcome(undelivered[w])
    BY <2>1, RowTypes DEF Row
  <2>3. new.delivery \in {"delivered", "notify_failed"} => comments[job[w]] > 0
    BY <1>14, <2>2 DEF SettleDelivery, DeliveryOutcome
  <2>4. rec' = [rec EXCEPT ![job[w]] = Flushed(rec[job[w]], seen[w], new)]
    BY <1>14 DEF SettleDelivery, Write
  <2>5. /\ UNCHANGED <<comments, undelivered>>
        /\ wpc' = [wpc EXCEPT ![w] = "idle"]
        /\ job' = [job EXCEPT ![w] = NoJob]
    BY <1>14 DEF SettleDelivery, Finish
  <2> HIDE DEF new
  <2>6. \A r \in Records :
           \/ rec'[r].delivery = rec[r].delivery
           \/ r = job[w] /\ rec'[r].delivery = new.delivery
    BY <2>1, <2>2, <2>4, FlushedType
  <2> QED BY <2>3, <2>5, <2>6
<1>15. CASE PlatformOrModelFails(w)
  BY <1>15 DEF PlatformOrModelFails
<1>16. CASE RecordVanished(w)
  BY <1>16 DEF RecordVanished
<1>17. CASE WriteFails(w)
  BY <1>17 DEF WriteFails
<1>18. CASE LoadForFailure(w)
  BY <1>18 DEF LoadForFailure, Load
<1>19. CASE NothingToMark(w)
  BY <1>19 DEF NothingToMark, GiveUp
<1>20. CASE MarkFailed(w)
  <2>1. job[w] \in Records /\ rec[job[w]] \in Row /\ seen[w] \in Row
    BY <1>20 DEF MarkFailed
  <2>2. FailedRow(seen[w]) \in Row /\ FailedRow(seen[w]).delivery = "pending"
    BY <2>1, RowTypes DEF FailedRow, Row
  <2> DEFINE new == Flushed(rec[job[w]], seen[w], FailedRow(seen[w]))
  <2>3. new \in Row /\ new.delivery \in {"pending", rec[job[w]].delivery}
    BY <2>1, <2>2, FlushedType
  <2>4. rec' = [rec EXCEPT ![job[w]] = [new EXCEPT !.failure = TRUE]]
    BY <1>20 DEF MarkFailed, Write
  <2>5. /\ UNCHANGED <<comments, undelivered>>
        /\ wpc' = [wpc EXCEPT ![w] = "down"]
        /\ job' = [job EXCEPT ![w] = NoJob]
    BY <1>20 DEF MarkFailed, Finish
  <2> HIDE DEF new
  <2>6. [new EXCEPT !.failure = TRUE].delivery = new.delivery
    BY <2>3 DEF Row
  <2>7. \A r \in Records : rec'[r].delivery \in {"pending", rec[r].delivery}
    BY <2>1, <2>3, <2>4, <2>6
  <2> QED BY <2>5, <2>7
<1>21. CASE MarkFails(w)
  BY <1>21 DEF MarkFails, GiveUp
<1>22. CASE WorkerCrash(w)
  BY <1>22 DEF WorkerCrash, GiveUp
<1>23. CASE Restart(w)
  BY <1>23 DEF Restart
<1> QED
  BY <1>1, <1>2, <1>3, <1>4, <1>5, <1>6, <1>7, <1>8, <1>9, <1>10, <1>11, <1>12, <1>13, <1>14, <1>15, <1>16, <1>17, <1>18, <1>19, <1>20, <1>21, <1>22, <1>23 DEF WorkerStep

-----------------------------------------------------------------------------
(* The invariant and what follows from it.                                 *)

(* It holds before the first request.                                      *)
LEMMA InvariantInit == Init => PipelineInvariant
<1> SUFFICES ASSUME Init PROVE PipelineInvariant
  OBVIOUS
<1> USE StoreAssumption, WorkerAssumption
    DEF Init, StoreInit, IntakeInit, WorkerInit
<1>1. NoRow \in Row /\ NoRow.status = "absent" /\ NoRow.delivery = "pending"
  BY DEF NoRow, Row, Status, Delivery
<1>2. TypeOK
  <2>1. StoreTypeOK
    BY <1>1 DEF StoreTypeOK
  <2>2. IntakeTypeOK
    BY <1>1 DEF IntakeTypeOK, Requests, Positions
  <2>3. WorkerTypeOK
    BY <1>1 DEF WorkerTypeOK, WorkerPositions
  <2> QED BY <2>1, <2>2, <2>3 DEF TypeOK
<1>3. PositionsFit
  BY DEF PositionsFit, Requests
<1>4. LocksMatch /\ RowsMatch
  BY <1>1 DEF LocksMatch, RowsMatch, WritesRow, Stored
<1>5. TokensAreExclusive /\ InsertionsAreNew
  BY <1>1 DEF TokensAreExclusive, InsertionsAreNew, HoldsToken, Stored, Requests,
              Records
<1>6. OneRecordPerEvent /\ DeliveredMeansPublished
  BY <1>1 DEF OneRecordPerEvent, DeliveredMeansPublished, Stored, Records
<1>7. AttemptsPublish
  BY DEF AttemptsPublish
<1> QED BY <1>2, <1>3, <1>4, <1>5, <1>6, <1>7 DEF PipelineInvariant

(* Every step keeps it.                                                    *)
LEMMA InvariantStep == PipelineInvariant /\ [Next]_vars => PipelineInvariant'
<1> SUFFICES ASSUME PipelineInvariant, [Next]_vars PROVE PipelineInvariant'
  OBVIOUS
<1> USE DEF PipelineInvariant, EventsOK, DeliveriesOK
<1>1. ASSUME NEW q \in Requests, Arrive(q) \/ RequestStep(q), UNCHANGED workerVars
      PROVE  PipelineInvariant'
  BY <1>1, RequestStepTypes, RequestStepLocks, RequestStepEvents,
     RequestStepDeliveries
<1>2. ASSUME NEW p \in Processes, ApiCrash(p), UNCHANGED workerVars
      PROVE  PipelineInvariant'
  BY <1>2, ApiCrashTypes, ApiCrashLocks, ApiCrashEvents, ApiCrashDeliveries
<1>3. ASSUME NEW w \in Workers, WorkerStep(w) \/ WorkerCrash(w) \/ Restart(w),
             UNCHANGED intakeVars
      PROVE  PipelineInvariant'
  BY <1>3, WorkerStepTypes, WorkerStepLocks, WorkerStepEvents,
     WorkerStepDeliveries
<1>4. CASE UNCHANGED vars
  <2>1. TypeOK' /\ PositionsFit' /\ LocksMatch' /\ RowsMatch'
    BY <1>4 DEF vars, storeVars, intakeVars, workerVars, TypeOK, StoreTypeOK,
                IntakeTypeOK, WorkerTypeOK, PositionsFit, LocksMatch, RowsMatch,
                WritesRow, Stored
  <2>2. EventsOK' /\ DeliveriesOK'
    BY <1>4 DEF vars, storeVars, intakeVars, workerVars, TokensAreExclusive,
                InsertionsAreNew, OneRecordPerEvent, AttemptsPublish,
                DeliveredMeansPublished, HoldsToken, Token, AboutToInsert, Stored
  <2> QED BY <2>1, <2>2
<1> QED BY <1>1, <1>2, <1>3, <1>4 DEF Next, IntakeNext, WorkerNext

(***************************************************************************)
(* The inductive invariant holds in every reachable state.                 *)
(***************************************************************************)
THEOREM InvariantHolds == Spec => []PipelineInvariant
  BY InvariantInit, InvariantStep, PTL DEF Spec

(***************************************************************************)
(* Type correctness of the whole pipeline, faults and deletions included.  *)
(***************************************************************************)
THEOREM TypeCorrect == Spec => []TypeOK
<1>1. PipelineInvariant => TypeOK
  BY DEF PipelineInvariant
<1> QED BY <1>1, InvariantHolds, PTL

(***************************************************************************)
(* Redeliveries of one platform event are stored once, for any number of   *)
(* deliveries, API processes and workers and under every fault.            *)
(***************************************************************************)
THEOREM EventStoredOnce == Spec => []OneRecordPerEvent
<1>1. PipelineInvariant => OneRecordPerEvent
  BY DEF PipelineInvariant
<1> QED BY <1>1, InvariantHolds, PTL

(***************************************************************************)
(* A record whose delivery is marked delivered (or only its notification   *)
(* failed) has a comment on the platform, whatever the workers do.         *)
(***************************************************************************)
THEOREM DeliveredIsPublished == Spec => []DeliveredMeansPublished
<1>1. PipelineInvariant => DeliveredMeansPublished
  BY DEF PipelineInvariant
<1> QED BY <1>1, InvariantHolds, PTL
=============================================================================
