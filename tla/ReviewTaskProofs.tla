-------------------------- MODULE ReviewTaskProofs --------------------------
(***************************************************************************)
(* Proofs about the tasks of ReviewPipeline.  Where the pipeline keeps its *)
(* promise (Undisturbed): one task per record, one execution per task, and *)
(* the life cycle of ReviewLifecycle.  Where the database commits: no      *)
(* record is stranded unless a worker abandons it.                         *)
(***************************************************************************)
EXTENDS ReviewPipelineProofs

Sound == Undisturbed /\ PipelineInvariant /\ TaskInvariant

(* A request that is about to push the task of a record, or just has.      *)
Claims(q) == pc[q] \in {"writing", "sending", "pushed"}

(* What ClaimsFit asks of one request.                                     *)
ClaimFits(q) ==
    /\ pc[q] \notin {"unwinding", "removing", "aborted"}
    /\ pc[q] \in {"writing", "sending"} => ~HasTask(target[q])
    /\ Claims(q) /\ target[q] # q =>
          /\ q \in Webhooks /\ MayFind(q, target[q]) /\ pc[target[q]] = "accepted"
          /\ rec[target[q]].status \in {"absent", "failed"}
          /\ loaded[q].status = "failed" /\ loaded[q].failure

(* What WorkersFit asks of one worker.                                     *)
WorkerFits(w) ==
    wpc[w] \notin {"idle", "down"} =>
        /\ rec[job[w]].status \in LeftAs[wpc[w]] \cup {"absent"}
        /\ wpc[w] # "popped" => pc[job[w]] = "accepted"
        /\ rec[job[w]].delivery = "pending"
        /\ wpc[w] = "loaded" => seen[w].status # "processing"
        /\ wpc[w] = "marking" => seen[w].status # "failed"
        /\ wpc[w] \in {"commenting", "notifying", "settling"} =>
               seen[w].delivery = "pending"

-----------------------------------------------------------------------------
(* Tasks.                                                                  *)

(* ClaimsFit request by request.                                           *)
LEMMA ClaimsParts == ClaimsFit <=> \A q \in Requests : ClaimFits(q)
  BY DEF ClaimsFit, ClaimFits, Claims

(* WorkersFit worker by worker.                                            *)
LEMMA WorkersParts == WorkersFit <=> \A w \in Workers : WorkerFits(w)
  BY DEF WorkersFit, WorkerFits

(* The tasks of a list are its elements.                                   *)
LEMMA ElementsOf ==
    ASSUME NEW S, NEW s \in Seq(S)
    PROVE  ToSet(s) = {s[i] : i \in 1 .. Len(s)}
  BY DEF ToSet

(* A task is in the list or in the hands of a worker.                      *)
LEMMA TaskPlaces ==
    ASSUME queue \in Seq(Records), NEW r
    PROVE  HasTask(r) <=> \/ \E i \in 1 .. Len(queue) : queue[i] = r
                          \/ \E w \in Workers : job[w] = r
  BY ElementsOf DEF HasTask

(* What hangs on the tokens: a record is claimed by one request at a time. *)
LEMMA OneClaim ==
    ASSUME Sound, NEW q \in Requests, NEW o \in Requests,
           Claims(q), Claims(o), target[q] = target[o]
    PROVE  q = o
<1>1. ClaimFits(q) /\ ClaimFits(o)
  BY ClaimsParts DEF Sound, TaskInvariant
<1>2. CASE target[q] = q
  <2>1. CASE target[o] = o
    BY <1>2, <2>1
  <2>2. CASE target[o] # o
    BY <1>1, <1>2, <2>2 DEF ClaimFits, Claims
  <2> QED BY <2>1, <2>2
<1>3. CASE target[o] = o
  BY <1>1, <1>2, <1>3 DEF ClaimFits, Claims
<1>4. CASE target[q] # q /\ target[o] # o
  <2>1. /\ q \in Webhooks /\ MayFind(q, target[q])
        /\ o \in Webhooks /\ MayFind(o, target[q])
    BY <1>1, <1>4 DEF ClaimFits
  <2>2. target[q] \in Records
    BY <2>1 DEF Sound, PipelineInvariant, TypeOK, IntakeTypeOK, Records
  <2>3. Token(q) = Token(o)
    BY <2>1, <2>2 DEF Sound, Undisturbed
  <2>4. HoldsToken(q) /\ HoldsToken(o)
    BY <2>1 DEF Claims, HoldsToken
  <2> QED BY <2>1, <2>3, <2>4 DEF Sound, PipelineInvariant, TokensAreExclusive
<1> QED BY <1>2, <1>3, <1>4

(* Only webhooks and manual triggers claim records.                        *)
LEMMA ClaimedRecord ==
    ASSUME Sound, NEW q \in Requests, Claims(q)
    PROVE  q \in Records /\ target[q] \in Records
<1>1. q \notin Deletions
  BY DEF Sound, PipelineInvariant, PositionsFit, Claims, Answered
<1> QED BY <1>1 DEF Requests, Sound, PipelineInvariant, TypeOK, IntakeTypeOK

(***************************************************************************)
(* A failed record that some worker or the list has a task for is claimed, *)
(* so another request that could find it is still waiting for its token.   *)
(***************************************************************************)
LEMMA FailedIsFree ==
    ASSUME Sound, NEW q \in Webhooks, pc[q] = "reading",
           NEW r \in Records, rec[r].status = "failed", MayFind(q, r)
    PROVE  ~HasTask(r)
<1> SUFFICES ASSUME HasTask(r) PROVE FALSE
  OBVIOUS
<1>1. rowLock[r] # Nobody
  BY DEF Sound, TaskInvariant, TasksHaveRequests
<1>2. PICK o \in Requests : WritesRow(o) /\ target[o] = r
  BY <1>1 DEF Sound, PipelineInvariant, LocksMatch, TypeOK, StoreTypeOK
<1>3. ClaimFits(o)
  BY ClaimsParts DEF Sound, TaskInvariant
<1>4. pc[r] = "accepted"
  BY DEF Sound, PipelineInvariant, RowsMatch, Stored
<1>5. o # r /\ Claims(o)
  BY <1>2, <1>3, <1>4 DEF WritesRow, ClaimFits, Claims
<1>6. o \in Webhooks /\ MayFind(o, r)
  BY <1>2, <1>3, <1>5 DEF ClaimFits
<1>7. Token(q) = Token(o)
  BY <1>6 DEF Sound, Undisturbed
<1>8. HoldsToken(q) /\ HoldsToken(o)
  BY <1>2, <1>6 DEF HoldsToken, WritesRow
<1>9. q = o
  BY <1>6, <1>7, <1>8 DEF Sound, PipelineInvariant, TokensAreExclusive
<1> QED BY <1>2, <1>9 DEF WritesRow

(* Nobody claims the row that a worker may write: it did not fail, or the  *)
(* claim has it locked.                                                    *)
LEMMA WritableRow ==
    ASSUME Sound, NEW w \in Workers, CanWrite(w), wpc[w] \notin {"idle", "down"}
    PROVE  /\ job[w] \in Records /\ HasTask(job[w])
           /\ pc[job[w]] = "accepted"
           /\ rec[job[w]].status \in LeftAs[wpc[w]] \ {"failed"}
           /\ rec[job[w]].delivery = "pending"
           /\ \A q \in Requests : Claims(q) => target[q] # job[w]
<1>1. job[w] \in Records /\ HasTask(job[w])
  BY DEF Sound, PipelineInvariant, TypeOK, WorkerTypeOK, PositionsFit, HasTask
<1>2. Stored(job[w]) /\ rowLock[job[w]] = Nobody
  BY DEF CanWrite, Alive
<1>3. rec[job[w]].status \notin {"absent", "failed"}
  BY <1>1, <1>2 DEF Sound, TaskInvariant, TasksHaveRequests, Stored
<1>4. pc[job[w]] = "accepted"
  BY <1>1, <1>2 DEF Sound, PipelineInvariant, RowsMatch
<1>5. WorkerFits(w)
  BY WorkersParts DEF Sound, TaskInvariant
<1>6. ASSUME NEW q \in Requests, Claims(q), target[q] = job[w]
      PROVE  FALSE
  <2>1. ClaimFits(q)
    BY ClaimsParts DEF Sound, TaskInvariant
  <2> QED BY <1>3, <1>4, <1>6, <2>1 DEF ClaimFits, Claims
<1> QED BY <1>1, <1>3, <1>4, <1>5, <1>6 DEF WorkerFits

-----------------------------------------------------------------------------
(* Steps of handlers.                                                      *)

(* A handler that moves on without touching rows and tasks disturbs nobody.*)
LEMMA QuietRequest ==
    ASSUME Sound, NEW q \in Requests, UNCHANGED <<rec, queue, workerVars>>,
           pc[q] \notin {"pushed", "accepted"},
           \A o \in Requests \ {q} : /\ pc'[o] = pc[o] /\ target'[o] = target[o]
                                     /\ loaded'[o] = loaded[o],
           \A r \in Records : rowLock[r] # Nobody => rowLock'[r] # Nobody,
           ClaimFits(q)'
    PROVE  TaskInvariant'
<1>1. /\ TasksAreUnique /\ TasksHaveRequests /\ RowsAreConsistent
      /\ \A o \in Requests : ClaimFits(o)
      /\ \A w \in Workers : WorkerFits(w)
  BY ClaimsParts, WorkersParts DEF Sound, TaskInvariant
<1>2. \A r : HasTask(r)' <=> HasTask(r)
  BY DEF HasTask, workerVars
<1>3. \A r \in Records : pc[r] \in {"pushed", "accepted"} => pc'[r] = pc[r]
  BY DEF Requests
<1>4. TasksAreUnique' /\ RowsAreConsistent'
  BY <1>1 DEF TasksAreUnique, RowsAreConsistent, workerVars
<1>5. TasksHaveRequests'
  BY <1>1, <1>2, <1>3 DEF TasksHaveRequests
<1>6. ASSUME NEW o \in Requests \ {q}
      PROVE  ClaimFits(o)'
  <2>1. Claims(o) /\ target[o] # o => target[o] \in Records
    BY <1>1 DEF ClaimFits, Records, Sound, PipelineInvariant, TypeOK, IntakeTypeOK
  <2> QED BY <1>1, <1>2, <1>3, <2>1 DEF ClaimFits, Claims
<1>7. ASSUME NEW w \in Workers
      PROVE  WorkerFits(w)'
  <2>1. wpc[w] \notin {"idle", "down"} => job[w] \in Records
    BY DEF Sound, PipelineInvariant, PositionsFit, TypeOK, WorkerTypeOK
  <2> QED BY <1>1, <1>3, <2>1 DEF WorkerFits, workerVars
<1>8. (\A o \in Requests : ClaimFits(o))' /\ (\A w \in Workers : WorkerFits(w))'
  BY <1>6, <1>7
<1> QED
  BY <1>4, <1>5, <1>8, ClaimsParts, WorkersParts DEF TaskInvariant, ClaimsFit, ClaimFits,
     WorkersFit, WorkerFits, Claims

(* What a flush leaves in each column.                                     *)
LEMMA FlushedColumns ==
    ASSUME NEW current, NEW old, NEW row
    PROVE  /\ row.status # old.status => Flushed(current, old, row).status = row.status
           /\ row.status = old.status => Flushed(current, old, row).status = current.status
           /\ row.delivery # old.delivery
                 => Flushed(current, old, row).delivery = row.delivery
           /\ row.delivery = old.delivery
                 => Flushed(current, old, row).delivery = current.delivery
           /\ row.retry # old.retry => Flushed(current, old, row).retry = row.retry
           /\ row.result = old.result
                 => Flushed(current, old, row).result = current.result
           /\ row.failure = old.failure
                 => Flushed(current, old, row).failure = current.failure
  BY DEF Flushed

(* A flag that the session clears is cleared if it was loaded or stored as *)
(* it is now.                                                              *)
LEMMA FlushedFlags ==
    ASSUME NEW current \in Row, NEW old \in Row, NEW row \in Row
    PROVE  /\ ~row.result /\ ~current.result => ~Flushed(current, old, row).result
           /\ ~row.failure /\ (old.failure \/ ~current.failure)
                 => ~Flushed(current, old, row).failure
<1> DEFINE f == Flushed(current, old, row)
<1>1. /\ row.result \in BOOLEAN /\ old.result \in BOOLEAN /\ current.result \in BOOLEAN
      /\ row.failure \in BOOLEAN /\ old.failure \in BOOLEAN /\ current.failure \in BOOLEAN
  BY DEF Row
<1>2. f.result = IF row.result # old.result THEN row.result ELSE current.result
  BY DEF Flushed
<1>3. f.failure = IF row.failure # old.failure THEN row.failure ELSE current.failure
  BY DEF Flushed
<1>4. ASSUME NEW a \in BOOLEAN, NEW b \in BOOLEAN, NEW c \in BOOLEAN, NEW x,
             x = (IF a # b THEN a ELSE c), ~a, b \/ ~c
      PROVE  ~x
  BY <1>4, Zenon
<1> HIDE DEF f
<1>5. ~row.result /\ ~current.result => ~f.result
  BY <1>1, <1>2, <1>4, Zenon
<1>6. ~row.failure /\ (old.failure \/ ~current.failure) => ~f.failure
  BY <1>1, <1>3, <1>4, Zenon
<1> QED BY <1>5, <1>6 DEF f

(* What is committed is a queued row: new, or a failed one thrown back.    *)
LEMMA WrittenRowShape ==
    ASSUME Sound, NEW q \in Requests, pc[q] = "pushed"
    PROVE  /\ target[q] \in Records
           /\ rec[target[q]].status \in {"absent", "failed"}
           /\ target[q] = q => rec[target[q]].status = "absent"
           /\ target[q] # q => rec[target[q]].status = "failed"
           /\ WrittenRow(q).status = "queued"
           /\ ~WrittenRow(q).result /\ ~WrittenRow(q).failure
           /\ WrittenRow(q).delivery = "pending"
<1> DEFINE t   == target[q]
           new == [loaded[q] EXCEPT !.status = "queued", !.failure = FALSE]
<1>1. q \in Records /\ t \in Records
  BY WriterTarget DEF Sound, PipelineInvariant, WritesRow
<1>2. CASE t = q
  <2>1. WrittenRow(q) = NewRow
    BY <1>2 DEF WrittenRow
  <2>2. ~Stored(q)
    BY <1>1 DEF Sound, PipelineInvariant, RowsMatch
  <2>3. /\ NewRow.status = "queued" /\ ~NewRow.result /\ ~NewRow.failure
        /\ NewRow.delivery = "pending"
    BY DEF NewRow, NoRow
  <2> QED BY <1>1, <1>2, <2>1, <2>2, <2>3 DEF Stored
<1>3. CASE t # q
  <2>1. ClaimFits(q)
    BY ClaimsParts DEF Sound, TaskInvariant
  <2>2. rec[t].status = "failed" /\ loaded[q].status = "failed" /\ loaded[q].failure
    BY <1>3, <2>1 DEF ClaimFits, Claims, Sound, PipelineInvariant, RowsMatch, WritesRow,
                      Stored
  <2>3. rec[t] \in Row /\ loaded[q] \in Row
    BY <1>1 DEF Sound, PipelineInvariant, TypeOK, StoreTypeOK, IntakeTypeOK
  <2>4. ~rec[t].result /\ rec[t].delivery = "pending"
    BY <1>1, <2>2, <2>3 DEF Sound, TaskInvariant, RowsAreConsistent, Row
  <2>5. WrittenRow(q) = Flushed(rec[t], loaded[q], new)
    BY <1>3 DEF WrittenRow
  <2>6. /\ new.status = "queued" /\ ~new.failure
        /\ new.result = loaded[q].result /\ new.delivery = loaded[q].delivery
    BY <2>3 DEF Row
  <2> HIDE DEF new, t
  <2>7. /\ WrittenRow(q).status = "queued" /\ ~WrittenRow(q).failure
        /\ WrittenRow(q).result = rec[t].result
        /\ WrittenRow(q).delivery = rec[t].delivery
    <3>1. new \in Row
      BY <2>3, <2>6 DEF new, Row, Status
    <3>2. WrittenRow(q).status = "queued" /\ WrittenRow(q).delivery = rec[t].delivery
      BY <2>2, <2>5, <2>6, FlushedColumns
    <3>3. WrittenRow(q).result = rec[t].result
      BY <2>5, <2>6, FlushedColumns
    <3>4. ~WrittenRow(q).failure
      BY <2>2, <2>3, <2>5, <2>6, <3>1, FlushedFlags, Zenon
    <3> QED BY <3>2, <3>3, <3>4
  <2> QED BY <1>1, <1>3, <2>2, <2>4, <2>7 DEF t
<1> QED BY <1>2, <1>3

(* A task is pushed for a record that has none.                            *)
LEMMA PushTaskTasks ==
    ASSUME Sound, NEW q \in Requests, PushTask(q), UNCHANGED workerVars
    PROVE  TaskInvariant'
<1> DEFINE t == target[q]
<1>1. /\ TasksAreUnique /\ TasksHaveRequests /\ RowsAreConsistent
      /\ \A o \in Requests : ClaimFits(o)
      /\ \A w \in Workers : WorkerFits(w)
  BY ClaimsParts, WorkersParts DEF Sound, TaskInvariant
<1>2. /\ pc[q] = "sending" /\ pc' = [pc EXCEPT ![q] = "pushed"]
      /\ queue' = Append(queue, t)
      /\ UNCHANGED <<rec, rowLock, target, loaded, job, wpc, seen>>
  BY DEF PushTask, Goto, Enqueue, workerVars
<1>3. /\ q \in Records /\ t \in Records /\ queue \in Seq(Records)
      /\ pc \in [Requests -> Positions] /\ rowLock[t] = q
  BY <1>2, WriterTarget
  DEF Sound, PipelineInvariant, TypeOK, StoreTypeOK, IntakeTypeOK, LocksMatch, WritesRow
<1>4. ~HasTask(t)
  BY <1>1, <1>2 DEF ClaimFits
<1>5. (\A i \in 1 .. Len(queue) : queue[i] # t) /\ (\A w \in Workers : job[w] # t)
  BY <1>3, <1>4, TaskPlaces
<1>6. /\ queue' \in Seq(Records) /\ Len(queue') = Len(queue) + 1
      /\ \A i \in 1 .. Len(queue) : queue'[i] = queue[i]
      /\ queue'[Len(queue')] = t
  BY <1>2, <1>3
<1>7. \A i \in 1 .. Len(queue') : i \in 1 .. Len(queue) \/ i = Len(queue')
  BY <1>3, <1>6
<1>8. \A r : HasTask(r)' <=> HasTask(r) \/ r = t
  <2>1. ASSUME NEW r
        PROVE  HasTask(r)' <=> HasTask(r) \/ r = t
    <3>1. HasTask(r) <=> \/ \E i \in 1 .. Len(queue) : queue[i] = r
                         \/ \E w \in Workers : job[w] = r
      BY <1>3, TaskPlaces
    <3>2. HasTask(r)' <=> \/ \E i \in 1 .. Len(queue') : queue'[i] = r
                          \/ \E w \in Workers : job[w] = r
      BY <1>2, <1>6 DEF HasTask, ToSet
    <3>3. (\E i \in 1 .. Len(queue') : queue'[i] = r)
             <=> (\E i \in 1 .. Len(queue) : queue[i] = r) \/ r = t
      <4>1. 1 .. Len(queue) \subseteq 1 .. Len(queue') /\ Len(queue') \in 1 .. Len(queue')
        BY <1>3, <1>6
      <4> QED BY <1>6, <1>7, <4>1
    <3> QED BY <3>1, <3>2, <3>3
  <2> QED BY <2>1
<1>9. TasksAreUnique'
  BY <1>1, <1>2, <1>5, <1>6, <1>7 DEF TasksAreUnique
<1>10. pc'[t] \in {"pushed", "accepted"}
  BY <1>1, <1>2, <1>3 DEF ClaimFits, Claims, Requests
<1>11. \A r \in Records : pc[r] \in {"pushed", "accepted"} => pc'[r] = pc[r]
  BY <1>2, <1>3
<1>12. rec[t].status \in {"absent", "failed"}
  <2>1. CASE t = q
    BY <1>2, <1>3, <2>1 DEF Sound, PipelineInvariant, RowsMatch, Stored
  <2>2. CASE t # q
    BY <1>1, <1>2, <2>2 DEF ClaimFits, Claims
  <2> QED BY <2>1, <2>2
<1>13. TasksHaveRequests'
  <2>1. \A r \in Records : HasTask(r)' => pc'[r] \in {"pushed", "accepted"}
    BY <1>1, <1>8, <1>10, <1>11 DEF TasksHaveRequests
  <2>2. \A r \in Records :
           HasTask(r)' /\ rec'[r].status = "failed" => rowLock'[r] # Nobody
    <3>1. q # Nobody
      BY StoreAssumption DEF Requests, Records
    <3> QED BY <1>1, <1>2, <1>3, <1>8, <3>1 DEF TasksHaveRequests
  <2>3. \A i \in 1 .. Len(queue') :
           rec'[queue'[i]].status \in {"absent", "queued", "failed"}
    BY <1>1, <1>2, <1>6, <1>7, <1>12 DEF TasksHaveRequests
  <2> QED BY <2>1, <2>2, <2>3 DEF TasksHaveRequests
<1>14. RowsAreConsistent'
  BY <1>1, <1>2 DEF RowsAreConsistent
<1>15. ASSUME NEW o \in Requests
       PROVE  ClaimFits(o)'
  <2>1. CASE o = q
    BY <1>1, <1>2, <1>3, <1>11, <2>1 DEF ClaimFits, Claims
  <2>2. CASE o # q
    <3>1. pc'[o] = pc[o]
      BY <1>2, <2>2
    <3>2. pc[o] \in {"writing", "sending"} => target[o] # t
      BY <1>2, <2>2, OneClaim DEF Claims
    <3>3. Claims(o) /\ target[o] # o => target[o] \in Records
      BY <1>1 DEF ClaimFits, Records, Sound, PipelineInvariant, TypeOK, IntakeTypeOK
    <3> QED BY <1>1, <1>2, <1>8, <1>11, <3>1, <3>2, <3>3 DEF ClaimFits, Claims
  <2> QED BY <2>1, <2>2
<1>16. ASSUME NEW w \in Workers
       PROVE  WorkerFits(w)'
  <2>1. wpc[w] \notin {"idle", "down"} => job[w] \in Records
    BY DEF Sound, PipelineInvariant, PositionsFit, TypeOK, WorkerTypeOK
  <2> QED BY <1>1, <1>2, <1>11, <2>1 DEF WorkerFits
<1>17. (\A o \in Requests : ClaimFits(o))' /\ (\A w \in Workers : WorkerFits(w))'
  BY <1>15, <1>16
<1> QED
  BY <1>9, <1>13, <1>14, <1>17 DEF TaskInvariant, ClaimsFit, ClaimFits,
     WorkersFit, WorkerFits, Claims

(* The commit makes the row a queued one, whose task may be at work by now.*)
LEMMA CommitTaskTasks ==
    ASSUME Sound, NEW q \in Requests, CommitTask(q), UNCHANGED workerVars
    PROVE  TaskInvariant'
<1> DEFINE t == target[q]
<1>1. /\ TasksAreUnique /\ TasksHaveRequests /\ RowsAreConsistent
      /\ \A o \in Requests : ClaimFits(o)
      /\ \A w \in Workers : WorkerFits(w)
  BY ClaimsParts, WorkersParts DEF Sound, TaskInvariant
<1>2. /\ pc[q] = "pushed" /\ pc' = [pc EXCEPT ![q] = "accepted"]
      /\ rec' = [rec EXCEPT ![t] = WrittenRow(q)]
      /\ rowLock' = [rowLock EXCEPT ![t] = Nobody]
      /\ UNCHANGED <<queue, target, loaded, job, wpc, seen>>
  BY DEF CommitTask, Goto, workerVars
<1>3. /\ t \in Records
      /\ rec[t].status \in {"absent", "failed"}
      /\ t = q => rec[t].status = "absent"
      /\ WrittenRow(q).status = "queued"
      /\ ~WrittenRow(q).result /\ ~WrittenRow(q).failure
      /\ WrittenRow(q).delivery = "pending"
  BY <1>2, WrittenRowShape
<1>4. /\ pc \in [Requests -> Positions] /\ rec \in [Records -> Row]
      /\ rowLock \in [Records -> Requests \cup {Nobody}] /\ queue \in Seq(Records)
      /\ Records \subseteq Requests
  BY DEF Sound, PipelineInvariant, TypeOK, StoreTypeOK, IntakeTypeOK, Requests
<1>5. /\ rec'[t] = WrittenRow(q)
      /\ \A r \in Records : r # t => rec'[r] = rec[r] /\ rowLock'[r] = rowLock[r]
      /\ pc'[q] = "accepted" /\ \A o \in Requests : o # q => pc'[o] = pc[o]
  BY <1>2, <1>3, <1>4
<1>6. \A r : HasTask(r)' <=> HasTask(r)
  BY <1>2 DEF HasTask
<1>7. \A r \in Records : pc[r] = "accepted" => pc'[r] = "accepted"
  BY <1>2, <1>4, <1>5
<1>8. TasksAreUnique'
  BY <1>1, <1>2 DEF TasksAreUnique
<1>9. TasksHaveRequests'
  <2>1. \A r \in Records : HasTask(r)' => pc'[r] \in {"pushed", "accepted"}
    BY <1>1, <1>4, <1>5, <1>6 DEF TasksHaveRequests
  <2>2. \A r \in Records :
           HasTask(r)' /\ rec'[r].status = "failed" => rowLock'[r] # Nobody
    BY <1>1, <1>3, <1>5, <1>6 DEF TasksHaveRequests
  <2>3. \A i \in 1 .. Len(queue') :
           rec'[queue'[i]].status \in {"absent", "queued", "failed"}
    BY <1>1, <1>2, <1>3, <1>4, <1>5 DEF TasksHaveRequests
  <2> QED BY <2>1, <2>2, <2>3 DEF TasksHaveRequests
<1>10. RowsAreConsistent'
  <2>1. ASSUME NEW r \in Records, r = t
        PROVE  /\ rec'[r].status = "queued" /\ rec'[r].delivery = "pending"
               /\ ~rec'[r].result /\ ~rec'[r].failure
    BY <1>3, <1>5, <2>1
  <2>2. ASSUME NEW r \in Records, r # t
        PROVE  rec'[r] = rec[r]
    BY <1>5, <2>2
  <2> QED BY <1>1, <2>1, <2>2 DEF RowsAreConsistent
<1>11. ASSUME NEW o \in Requests
       PROVE  ClaimFits(o)'
  <2>1. CASE o = q
    BY <1>2, <1>5, <2>1 DEF ClaimFits, Claims
  <2>2. CASE o # q
    <3>1. pc'[o] = pc[o]
      BY <1>5, <2>2
    <3>2. Claims(o) => target[o] # t
      BY <1>2, <2>2, OneClaim DEF Claims
    <3>3. Claims(o) /\ target[o] # o => target[o] \in Records
      BY <1>1 DEF ClaimFits, Records, Sound, PipelineInvariant, TypeOK, IntakeTypeOK
    <3>4. ClaimFits(o)
      BY <1>1
    <3> QED BY <1>2, <1>5, <1>6, <1>7, <3>1, <3>2, <3>3, <3>4 DEF ClaimFits, Claims
  <2> QED BY <2>1, <2>2
<1>12. ASSUME NEW w \in Workers
       PROVE  WorkerFits(w)'
  <2>1. CASE wpc[w] \in {"idle", "down"}
    BY <1>2, <2>1 DEF WorkerFits
  <2>2. CASE wpc[w] \notin {"idle", "down"}
    <3>1. job[w] \in Records
      BY <2>2 DEF Sound, PipelineInvariant, PositionsFit, TypeOK, WorkerTypeOK
    <3>2. WorkerFits(w) /\ wpc[w] \in WorkerPositions
      BY <1>1 DEF Sound, PipelineInvariant, TypeOK, WorkerTypeOK
    <3>3. CASE job[w] # t
      BY <1>2, <1>5, <1>7, <3>1, <3>2, <3>3 DEF WorkerFits
    <3>4. CASE job[w] = t
      <4>1. wpc[w] \in {"popped", "loaded"}
        <5>1. CASE t = q
          BY <1>2, <2>2, <3>2, <3>4, <5>1 DEF WorkerFits
        <5>2. CASE t # q
          <6>1. rec[t].status = "failed"
            BY <1>2, <5>2, WrittenRowShape
          <6> QED BY <2>2, <3>2, <3>4, <6>1
                  DEF WorkerFits, LeftAs, WorkerPositions, Writing
        <5> QED BY <5>1, <5>2
      <4>2. "queued" \in LeftAs[wpc[w]]
        BY <4>1 DEF LeftAs
      <4> QED BY <1>2, <1>3, <1>5, <1>7, <3>1, <3>2, <3>4, <4>1, <4>2 DEF WorkerFits
    <3> QED BY <3>3, <3>4
  <2> QED BY <2>1, <2>2
<1>13. (\A o \in Requests : ClaimFits(o))' /\ (\A w \in Workers : WorkerFits(w))'
  BY <1>11, <1>12
<1> QED
  BY <1>8, <1>9, <1>10, <1>13 DEF TaskInvariant, ClaimsFit, ClaimFits,
     WorkersFit, WorkerFits, Claims

(* The deletion takes the rows and leaves the tasks.                       *)
LEMMA DeleteProjectTasks ==
    ASSUME Sound, NEW q \in Requests, DeleteProject(q), UNCHANGED workerVars
    PROVE  TaskInvariant'
<1>1. /\ TasksAreUnique /\ TasksHaveRequests /\ RowsAreConsistent
      /\ \A o \in Requests : ClaimFits(o)
      /\ \A w \in Workers : WorkerFits(w)
  BY ClaimsParts, WorkersParts DEF Sound, TaskInvariant
<1>2. /\ pc[q] = "cascading" /\ pc' = [pc EXCEPT ![q] = "accepted"]
      /\ rec' = [r \in Records |-> NoRow]
      /\ UNCHANGED <<queue, target, loaded, rowLock, job, wpc, seen>>
  BY DEF DeleteProject, Goto, workerVars
<1>3. NoRow.status = "absent" /\ NoRow.delivery = "pending"
  BY DEF NoRow
<1>4. /\ pc \in [Requests -> Positions] /\ queue \in Seq(Records)
      /\ Records \subseteq Requests
  BY DEF Sound, PipelineInvariant, TypeOK, StoreTypeOK, IntakeTypeOK, Requests
<1>5. pc'[q] = "accepted" /\ \A o \in Requests : o # q => pc'[o] = pc[o]
  BY <1>2, <1>4
<1>6. \A r \in Records : rec'[r].status = "absent" /\ rec'[r].delivery = "pending"
  BY <1>2, <1>3
<1>7. \A r : HasTask(r)' <=> HasTask(r)
  BY <1>2 DEF HasTask
<1>8. TasksAreUnique'
  BY <1>1, <1>2 DEF TasksAreUnique
<1>9. TasksHaveRequests'
  <2>1. \A r \in Records : HasTask(r)' => pc'[r] \in {"pushed", "accepted"}
    BY <1>1, <1>4, <1>5, <1>7 DEF TasksHaveRequests
  <2>2. \A i \in 1 .. Len(queue') : rec'[queue'[i]].status = "absent"
    BY <1>2, <1>4, <1>6
  <2> QED BY <1>6, <2>1, <2>2 DEF TasksHaveRequests
<1>10. RowsAreConsistent'
  BY <1>6 DEF RowsAreConsistent
<1>11. ASSUME NEW o \in Requests
       PROVE  ClaimFits(o)'
  <2>1. Claims(o) /\ target[o] # o => target[o] \in Records
    BY <1>1 DEF ClaimFits, Records, Sound, PipelineInvariant, TypeOK, IntakeTypeOK
  <2>2. CASE o = q
    BY <1>2, <1>5, <2>2 DEF ClaimFits, Claims
  <2>3. CASE o # q
    <3>1. pc'[o] = pc[o] /\ ClaimFits(o)
      BY <1>1, <1>5, <2>3
    <3> QED BY <1>2, <1>4, <1>5, <1>6, <1>7, <2>1, <3>1 DEF ClaimFits, Claims
  <2> QED BY <2>2, <2>3
<1>12. ASSUME NEW w \in Workers
       PROVE  WorkerFits(w)'
  <2>1. wpc[w] \notin {"idle", "down"} => job[w] \in Records
    BY DEF Sound, PipelineInvariant, PositionsFit, TypeOK, WorkerTypeOK
  <2>2. WorkerFits(w)
    BY <1>1
  <2> QED BY <1>2, <1>4, <1>5, <1>6, <2>1, <2>2 DEF WorkerFits
<1>13. (\A o \in Requests : ClaimFits(o))' /\ (\A w \in Workers : WorkerFits(w))'
  BY <1>11, <1>12
<1> QED
  BY <1>8, <1>9, <1>10, <1>13 DEF TaskInvariant, ClaimsFit, ClaimFits,
     WorkersFit, WorkerFits, Claims

(***************************************************************************)
(* A step of a handler keeps the tasks in order.  Without faults of Redis, *)
(* the database or the process nothing is rolled back or withdrawn.        *)
(***************************************************************************)
LEMMA RequestTasks ==
    ASSUME Sound, NEW q \in Requests, UNCHANGED workerVars,
           Arrive(q) \/ RequestStep(q)
    PROVE  TaskInvariant'
<1>1. /\ TasksHaveRequests /\ RowsAreConsistent
      /\ ClaimFits(q)
      /\ Faults \subseteq {"worker_crash"}
  BY ClaimsParts DEF Sound, TaskInvariant, Undisturbed
<1>2. /\ pc \in [Requests -> Positions] /\ target \in [Requests -> Requests]
      /\ loaded \in [Requests -> Row] /\ rowLock \in [Records -> Requests \cup {Nobody}]
      /\ Records \subseteq Requests
  BY DEF Sound, PipelineInvariant, TypeOK, StoreTypeOK, IntakeTypeOK, Requests
<1>3. ASSUME NEW position, position \notin {"writing", "sending", "pushed", "unwinding",
                                            "removing", "aborted"},
             pc[q] \notin {"pushed", "accepted"},
             pc' = [pc EXCEPT ![q] = position],
             UNCHANGED <<rec, queue, rowLock, target, loaded>>
      PROVE  TaskInvariant'
  <2>1. \A o \in Requests \ {q} : /\ pc'[o] = pc[o] /\ target'[o] = target[o]
                                  /\ loaded'[o] = loaded[o]
    BY <1>2, <1>3
  <2>2. ClaimFits(q)'
    BY <1>2, <1>3 DEF ClaimFits, Claims
  <2> QED BY <1>3, <2>1, <2>2, QuietRequest
<1> USE DEF Goto, storeVars
<1>4. CASE SkipWebhook(q)
  BY <1>3, <1>4 DEF SkipWebhook
<1>5. CASE AcceptWebhook(q)
  BY <1>3, <1>5 DEF AcceptWebhook
<1>6. CASE AcquireIdempotencyLock(q)
  BY <1>3, <1>6 DEF AcquireIdempotencyLock
<1>7. ASSUME FindNothing(q) \/ TriggerManualReview(q)
      PROVE  TaskInvariant'
  <2>1. /\ pc[q] \in {"reading", "idle"} /\ pc' = [pc EXCEPT ![q] = "writing"]
        /\ target' = [target EXCEPT ![q] = q]
        /\ UNCHANGED <<rec, queue, rowLock, loaded>>
        /\ q \in Records
    BY <1>7 DEF FindNothing, TriggerManualReview, Records
  <2>2. ~HasTask(q)
    BY <1>1, <2>1 DEF TasksHaveRequests
  <2>3. ~HasTask(q)'
    BY <2>1, <2>2 DEF HasTask, workerVars
  <2>4. ClaimFits(q)'
    BY <1>2, <2>1, <2>3 DEF ClaimFits, Claims
  <2>5. \A o \in Requests \ {q} : /\ pc'[o] = pc[o] /\ target'[o] = target[o]
                                  /\ loaded'[o] = loaded[o]
    BY <1>2, <2>1
  <2> QED BY <2>1, <2>4, <2>5, QuietRequest
<1>8. CASE FindFailed(q)
  <2>1. PICK r \in Existing(q) :
           /\ rec[r].status = "failed"
           /\ target' = [target EXCEPT ![q] = r]
           /\ loaded' = [loaded EXCEPT ![q] = rec[r]]
    BY <1>8 DEF FindFailed
  <2>2. /\ pc[q] = "reading" /\ pc' = [pc EXCEPT ![q] = "writing"]
        /\ UNCHANGED <<rec, queue, rowLock>> /\ q \in Webhooks
    BY <1>8 DEF FindFailed
  <2>3. r \in Records /\ MayFind(q, r)
    BY DEF Existing, SameEvent, SameSubject, MayFind
  <2>4. ~HasTask(r)
    BY <2>1, <2>2, <2>3, FailedIsFree
  <2>5. ~HasTask(r)'
    BY <2>2, <2>4 DEF HasTask, workerVars
  <2>6. pc[r] = "accepted"
    BY <2>1, <2>3 DEF Sound, PipelineInvariant, RowsMatch, Stored
  <2>7. rec[r].failure
    BY <1>1, <2>1, <2>3 DEF RowsAreConsistent
  <2>8. /\ pc'[q] = "writing" /\ target'[q] = r /\ loaded'[q] = rec[r]
        /\ pc'[r] = "accepted"
    BY <1>2, <2>1, <2>2, <2>3, <2>6
  <2>9. ClaimFits(q)'
    BY <2>1, <2>2, <2>3, <2>5, <2>7, <2>8 DEF ClaimFits, Claims
  <2>10. \A o \in Requests \ {q} : /\ pc'[o] = pc[o] /\ target'[o] = target[o]
                                   /\ loaded'[o] = loaded[o]
    BY <1>2, <2>1, <2>2
  <2> QED BY <2>2, <2>9, <2>10, QuietRequest
<1>9. CASE FindDuplicate(q)
  BY <1>3, <1>9 DEF FindDuplicate
<1>10. CASE RefuseManualReview(q)
  BY <1>3, <1>10 DEF RefuseManualReview
<1>11. ASSUME FlushInsert(q) \/ FlushRequeue(q)
       PROVE  TaskInvariant'
  <2>1. /\ pc[q] = "writing" /\ pc' = [pc EXCEPT ![q] = "sending"]
        /\ rowLock' = [rowLock EXCEPT ![target[q]] = q]
        /\ UNCHANGED <<rec, queue, target, loaded>>
    BY <1>11 DEF FlushInsert, FlushRequeue
  <2>2. q # Nobody
    BY StoreAssumption DEF Requests, Records
  <2>3. \A r \in Records : rowLock[r] # Nobody => rowLock'[r] # Nobody
    BY <1>2, <2>1, <2>2
  <2>4. \A o \in Requests \ {q} : /\ pc'[o] = pc[o] /\ target'[o] = target[o]
                                  /\ loaded'[o] = loaded[o]
    BY <1>2, <2>1
  <2>5. ~HasTask(target[q])'
    BY <1>1, <2>1 DEF ClaimFits, HasTask, workerVars
  <2>6. ClaimFits(q)'
    BY <1>1, <1>2, <2>1, <2>4, <2>5 DEF ClaimFits, Claims
  <2> QED BY <2>1, <2>3, <2>4, <2>6, QuietRequest
<1>12. CASE FlushFails(q)
  BY <1>3, <1>12 DEF FlushFails
<1>13. CASE PushTask(q)
  BY <1>13, PushTaskTasks
<1>14. CASE PushFails(q) \/ CommitFails(q)
  BY <1>1, <1>14 DEF PushFails, CommitFails
<1>15. CASE Rollback(q) \/ WithdrawTask(q)
  BY <1>1, <1>15 DEF Rollback, WithdrawTask, ClaimFits
<1>16. CASE CommitTask(q)
  BY <1>16, CommitTaskTasks
<1>17. CASE RequestDeletion(q)
  <2>1. (IF project = "deleted" THEN "rejected" ELSE "deleting")
           \in {"rejected", "deleting"}
    OBVIOUS
  <2> QED BY <1>3, <1>17, <2>1 DEF RequestDeletion
<1>18. CASE LockProject(q)
  <2>1. CASE pc' = [pc EXCEPT ![q] = "cascading"]
    BY <1>3, <1>18, <2>1 DEF LockProject
  <2>2. CASE pc' = [pc EXCEPT ![q] = "accepted"]
    BY <1>3, <1>18, <2>2 DEF LockProject
  <2> QED BY <1>18, <2>1, <2>2 DEF LockProject
<1>19. CASE DeleteProject(q)
  BY <1>19, DeleteProjectTasks
<1> QED
  BY <1>4, <1>5, <1>6, <1>7, <1>8, <1>9, <1>10, <1>11, <1>12, <1>13, <1>14, <1>15,
     <1>16, <1>17, <1>18, <1>19 DEF Arrive, RequestStep

-----------------------------------------------------------------------------
(* Steps of workers.                                                       *)

(* What RowsAreConsistent asks of one row.                                 *)
Consistent(row) ==
    /\ row.status \in {"reviewed", "skipped"} => row.result /\ ~row.failure
    /\ row.status = "failed" => row.failure /\ ~row.result /\ row.retry > 0
    /\ row.status \in {"queued", "processing"} => ~row.result /\ ~row.failure
    /\ row.delivery # "pending" => row.status = "reviewed"

(***************************************************************************)
(* A worker that keeps or gives up its task, and writes its row or none:   *)
(* it disturbs nobody if it leaves a failed row only when the task is done.*)
(***************************************************************************)
LEMMA OneWorkerMoves ==
    ASSUME Sound, NEW w \in Workers, UNCHANGED <<queue, rowLock, intakeVars>>,
           job' \in {job, [job EXCEPT ![w] = NoJob]},
           \A v \in Workers \ {w} : wpc'[v] = wpc[v] /\ seen'[v] = seen[v],
           WorkerFits(w)',
           \/ UNCHANGED rec
           \/ /\ CanWrite(w) /\ wpc[w] \notin {"idle", "down"}
              /\ \E row : /\ Write(w, row) /\ Consistent(row)
                          /\ row.status = "failed" => job' = [job EXCEPT ![w] = NoJob]
    PROVE  TaskInvariant'
<1>1. /\ TasksAreUnique /\ TasksHaveRequests /\ RowsAreConsistent
      /\ \A o \in Requests : ClaimFits(o)
      /\ \A v \in Workers : WorkerFits(v)
  BY ClaimsParts, WorkersParts DEF Sound, TaskInvariant
<1>2. /\ job \in [Workers -> Records \cup {NoJob}] /\ NoJob \notin Records
      /\ rec \in [Records -> Row] /\ queue \in Seq(Records)
  BY WorkerAssumption DEF Sound, PipelineInvariant, TypeOK, WorkerTypeOK, StoreTypeOK
<1>3. UNCHANGED <<pc, target, loaded>>
  BY DEF intakeVars
<1>4. \A v \in Workers : job'[v] = job[v] \/ (v = w /\ job'[v] = NoJob)
  BY <1>2
<1>5. \A r \in Records : HasTask(r)' => HasTask(r)
  BY <1>2, <1>4 DEF HasTask
<1>6. TasksAreUnique'
  BY <1>1, <1>2, <1>4 DEF TasksAreUnique
<1>7. ASSUME NEW v \in Workers
      PROVE  wpc[v] \notin {"idle", "down"} => job[v] \in Records
  BY DEF Sound, PipelineInvariant, PositionsFit, TypeOK, WorkerTypeOK
<1>8. ASSUME NEW r \in Records
      PROVE  \/ rec'[r] = rec[r]
             \/ /\ r = job[w] /\ CanWrite(w) /\ wpc[w] \notin {"idle", "down"}
                /\ Consistent(rec'[r])
                /\ rec'[r].status = "failed" => job'[w] = NoJob
  <2>1. CASE UNCHANGED rec
    BY <2>1
  <2>2. ASSUME NEW row, Write(w, row), Consistent(row), CanWrite(w),
               wpc[w] \notin {"idle", "down"},
               row.status = "failed" => job' = [job EXCEPT ![w] = NoJob]
        PROVE  \/ rec'[r] = rec[r]
               \/ /\ r = job[w] /\ CanWrite(w) /\ wpc[w] \notin {"idle", "down"}
                  /\ Consistent(rec'[r])
                  /\ rec'[r].status = "failed" => job'[w] = NoJob
    <3>1. CASE r # job[w]
      BY <1>2, <2>2, <3>1 DEF Write
    <3>2. CASE r = job[w]
      <4>1. rec'[r] = row
        BY <1>2, <2>2, <3>2 DEF Write
      <4> QED BY <1>2, <2>2, <3>2, <4>1
    <3> QED BY <3>1, <3>2
  <2> QED BY <2>1, <2>2
<1>9. TasksHaveRequests'
  <2>1. \A r \in Records : HasTask(r)' => pc'[r] \in {"pushed", "accepted"}
    BY <1>1, <1>3, <1>5 DEF TasksHaveRequests
  <2>2. ASSUME NEW r \in Records, HasTask(r)', rec'[r].status = "failed"
        PROVE  rowLock'[r] # Nobody
    <3>1. CASE rec'[r] = rec[r]
      BY <1>1, <1>5, <2>2, <3>1 DEF TasksHaveRequests
    <3>2. CASE r = job[w] /\ job'[w] = NoJob
      <4>1. (\A i \in 1 .. Len(queue) : queue[i] # r) /\ job[w] # NoJob
        BY <1>1, <1>2, <3>2 DEF TasksAreUnique
      <4>2. r \notin ToSet(queue)
        BY <1>2, <4>1, ElementsOf
      <4>3. PICK v \in Workers : job'[v] = r
        BY <2>2, <4>2 DEF HasTask, ToSet
      <4> QED BY <1>1, <1>2, <1>4, <3>2, <4>1, <4>3 DEF TasksAreUnique
    <3> QED BY <1>8, <2>2, <3>1, <3>2
  <2>3. ASSUME NEW i \in 1 .. Len(queue')
        PROVE  rec'[queue'[i]].status \in {"absent", "queued", "failed"}
    <3>1. queue'[i] = queue[i] /\ queue[i] \in Records /\ queue[i] # job[w]
      BY <1>1, <1>2 DEF TasksAreUnique
    <3> QED BY <1>1, <1>8, <3>1 DEF TasksHaveRequests
  <2> QED BY <2>1, <2>2, <2>3 DEF TasksHaveRequests
<1>10. RowsAreConsistent'
  <2>1. ASSUME NEW r \in Records
        PROVE  Consistent(rec'[r])
    <3>1. Consistent(rec[r])
      BY <1>1 DEF RowsAreConsistent, Consistent
    <3> QED BY <1>8, <3>1
  <2> QED BY <2>1 DEF RowsAreConsistent, Consistent
<1>11. ASSUME NEW o \in Requests
       PROVE  ClaimFits(o)'
  <2>1. Claims(o) => target[o] \in Records
    BY ClaimedRecord
  <2>2. Claims(o) => rec'[target[o]] = rec[target[o]]
    BY <1>8, <2>1, WritableRow
  <2>3. ClaimFits(o)
    BY <1>1
  <2> QED BY <1>3, <1>5, <2>1, <2>2, <2>3 DEF ClaimFits, Claims
<1>12. ASSUME NEW v \in Workers
       PROVE  WorkerFits(v)'
  <2>1. CASE v = w
    BY <2>1
  <2>2. CASE v # w
    <3>1. wpc'[v] = wpc[v] /\ seen'[v] = seen[v] /\ job'[v] = job[v]
      BY <1>4, <2>2
    <3>2. wpc[v] \notin {"idle", "down"} => job[v] \in Records /\ job[v] # job[w]
      BY <1>1, <1>2, <1>7, <2>2 DEF TasksAreUnique
    <3>3. WorkerFits(v)
      BY <1>1
    <3>4. wpc[v] \notin {"idle", "down"} => rec'[job[v]] = rec[job[v]]
      BY <1>8, <3>2
    <3> QED BY <1>3, <3>1, <3>3, <3>4 DEF WorkerFits
  <2> QED BY <2>1, <2>2
<1>13. (\A o \in Requests : ClaimFits(o))' /\ (\A v \in Workers : WorkerFits(v))'
  BY <1>11, <1>12
<1> QED
  BY <1>6, <1>9, <1>10, <1>13 DEF TaskInvariant, ClaimsFit, ClaimFits,
     WorkersFit, WorkerFits, Claims

(* The rows that workers write: from which state of the record, and what.  *)

(* execute starts: a queued row becomes a processing one.                  *)
LEMMA StartedRow ==
    ASSUME Sound, NEW w \in Workers, StartProcessing(w)
    PROVE  /\ CanWrite(w) /\ job[w] \in Records
           /\ rec[job[w]].status = "queued" /\ rec[job[w]].delivery = "pending"
           /\ \E row \in Row : /\ Write(w, row) /\ Consistent(row)
                             /\ row.status = "processing" /\ row.delivery = "pending"
<1> DEFINE old == rec[job[w]]
           new == ResetRow(seen[w])
           row == Flushed(old, seen[w], new)
<1>1. /\ wpc[w] = "loaded" /\ CanWrite(w) /\ Write(w, row)
  BY DEF StartProcessing, Move
<1>2. /\ job[w] \in Records /\ old.status = "queued" /\ old.delivery = "pending"
  BY <1>1, WritableRow DEF LeftAs
<1>3. old \in Row /\ seen[w] \in Row
  BY <1>2 DEF Sound, PipelineInvariant, TypeOK, StoreTypeOK, WorkerTypeOK
<1>4. ~old.result /\ ~old.failure
  BY <1>2 DEF Sound, TaskInvariant, RowsAreConsistent
<1>5. seen[w].status # "processing"
  BY <1>1, WorkersParts DEF Sound, TaskInvariant, WorkerFits
<1>6. /\ new.status = "processing" /\ ~new.result /\ ~new.failure
      /\ new.delivery = "pending"
  BY <1>3 DEF ResetRow, Row
<1>7. new \in Row
  BY <1>3, RowTypes
<1>8. row \in Row
  BY <1>3, <1>7, FlushedType
<1> HIDE DEF old, new
<1>9. row.status = "processing" /\ row.delivery = "pending"
  BY <1>2, <1>5, <1>6, FlushedColumns
<1>10. ~row.result /\ ~row.failure
  BY <1>3, <1>4, <1>6, <1>7, FlushedFlags, Zenon
<1>11. Consistent(row)
  BY <1>9, <1>10 DEF Consistent
<1> QED BY <1>1, <1>2, <1>8, <1>9, <1>11 DEF old

(* No file to review: a record in work is skipped.                         *)
LEMMA SkippedRow ==
    ASSUME Sound, NEW w \in Workers, MarkSkipped(w)
    PROVE  /\ CanWrite(w) /\ job[w] \in Records
           /\ rec[job[w]].status = "processing" /\ rec[job[w]].delivery = "pending"
           /\ \E row \in Row : /\ Write(w, row) /\ Consistent(row)
                             /\ row.status = "skipped" /\ row.delivery = "pending"
<1> DEFINE old == rec[job[w]]
           row == [old EXCEPT !.status = "skipped", !.result = TRUE]
<1>1. wpc[w] = "skipping" /\ CanWrite(w) /\ Write(w, row)
  BY DEF MarkSkipped, Move
<1>2. /\ job[w] \in Records /\ old.status = "processing" /\ old.delivery = "pending"
  BY <1>1, WritableRow DEF LeftAs
<1>3. old \in Row
  BY <1>2 DEF Sound, PipelineInvariant, TypeOK, StoreTypeOK
<1>4. ~old.failure
  BY <1>2 DEF Sound, TaskInvariant, RowsAreConsistent
<1> HIDE DEF old
<1>5. row \in Row
  BY <1>3 DEF Row, Status
<1>6. row.status = "skipped" /\ row.delivery = "pending" /\ row.result
      /\ row.failure = old.failure
  BY <1>2, <1>3 DEF Row
<1> HIDE DEF row
<1>7. Consistent(row)
  BY <1>4, <1>6 DEF Consistent
<1> QED BY <1>1, <1>2, <1>5, <1>6, <1>7 DEF old, row

(* The review is saved: a record in work is reviewed.                      *)
LEMMA SavedRow ==
    ASSUME Sound, NEW w \in Workers, SaveReview(w)
    PROVE  /\ CanWrite(w) /\ job[w] \in Records
           /\ rec[job[w]].status = "processing" /\ rec[job[w]].delivery = "pending"
           /\ \E row \in Row : /\ Write(w, row) /\ Consistent(row)
                             /\ row.status = "reviewed" /\ row.delivery = "pending"
<1> DEFINE old == rec[job[w]]
           row == [old EXCEPT !.status = "reviewed", !.result = TRUE, !.failure = FALSE]
<1>1. wpc[w] = "reviewing" /\ CanWrite(w) /\ Write(w, row)
  BY DEF SaveReview, Move
<1>2. /\ job[w] \in Records /\ old.status = "processing" /\ old.delivery = "pending"
  BY <1>1, WritableRow DEF LeftAs
<1>3. old \in Row
  BY <1>2 DEF Sound, PipelineInvariant, TypeOK, StoreTypeOK
<1> HIDE DEF old
<1>4. row \in Row
  BY <1>3 DEF Row, Status
<1>5. row.status = "reviewed" /\ row.delivery = "pending" /\ row.result /\ ~row.failure
  BY <1>2, <1>3 DEF Row
<1> HIDE DEF row
<1>6. Consistent(row)
  BY <1>5 DEF Consistent
<1> QED BY <1>1, <1>2, <1>4, <1>5, <1>6 DEF old, row

(* _deliver_review_result sets a pending delivery of a reviewed record.    *)
LEMMA DeliveredRow ==
    ASSUME Sound, NEW w \in Workers, SettleDelivery(w)
    PROVE  /\ CanWrite(w) /\ job[w] \in Records
           /\ rec[job[w]].status = "reviewed" /\ rec[job[w]].delivery = "pending"
           /\ \E row \in Row : /\ Write(w, row) /\ Consistent(row)
                             /\ row.status = "reviewed"
                             /\ row.delivery \in Delivery \ {"pending"}
<1> DEFINE old == rec[job[w]]
           outcome == DeliveryOutcome(undelivered[w])
           new == [seen[w] EXCEPT !.delivery = outcome]
           row == Flushed(old, seen[w], new)
<1>1. wpc[w] = "settling" /\ CanWrite(w) /\ Write(w, row)
  BY DEF SettleDelivery, Move
<1>2. /\ job[w] \in Records /\ old.status = "reviewed" /\ old.delivery = "pending"
  BY <1>1, WritableRow DEF LeftAs
<1>3. old \in Row /\ seen[w] \in Row /\ undelivered[w] \in SUBSET {"comment", "notify"}
  BY <1>2 DEF Sound, PipelineInvariant, TypeOK, StoreTypeOK, WorkerTypeOK
<1>4. old.result /\ ~old.failure
  BY <1>2 DEF Sound, TaskInvariant, RowsAreConsistent
<1>5. seen[w].delivery = "pending"
  BY <1>1, WorkersParts DEF Sound, TaskInvariant, WorkerFits
<1>6. outcome \in Delivery \ {"pending"}
  BY DEF DeliveryOutcome, Delivery
<1>7. new \in Row
  BY <1>3, RowTypes
<1> HIDE DEF outcome
<1>8. /\ new.status = seen[w].status /\ new.delivery = outcome
      /\ new.result = seen[w].result /\ new.failure = seen[w].failure
  BY <1>3 DEF Row
<1>9. row \in Row
  BY <1>3, <1>7, FlushedType
<1> HIDE DEF old, new
<1>10. /\ row.status = "reviewed" /\ row.delivery = outcome
       /\ row.result = old.result /\ row.failure = old.failure
  BY <1>2, <1>5, <1>6, <1>8, FlushedColumns
<1>11. Consistent(row)
  BY <1>4, <1>10 DEF Consistent
<1> QED BY <1>1, <1>2, <1>6, <1>9, <1>10, <1>11 DEF old

(* _mark_failed ends a record in work with a counted attempt.              *)
LEMMA FailureRow ==
    ASSUME Sound, NEW w \in Workers, MarkFailed(w)
    PROVE  /\ CanWrite(w) /\ job[w] \in Records
           /\ rec[job[w]].status = "processing" /\ rec[job[w]].delivery = "pending"
           /\ \E row \in Row : /\ Write(w, row) /\ Consistent(row)
                             /\ row.status = "failed" /\ row.delivery = "pending"
<1> DEFINE old == rec[job[w]]
           new == FailedRow(seen[w])
           mid == Flushed(old, seen[w], new)
           row == [mid EXCEPT !.failure = TRUE]
<1>1. wpc[w] = "marking" /\ CanWrite(w) /\ Write(w, row)
  BY DEF MarkFailed, Move
<1>2. /\ job[w] \in Records /\ old.status = "processing" /\ old.delivery = "pending"
  BY <1>1, WritableRow DEF LeftAs
<1>3. old \in Row /\ seen[w] \in Row
  BY <1>2 DEF Sound, PipelineInvariant, TypeOK, StoreTypeOK, WorkerTypeOK
<1>4. ~old.result
  BY <1>2 DEF Sound, TaskInvariant, RowsAreConsistent
<1>5. seen[w].status # "failed"
  BY <1>1, WorkersParts DEF Sound, TaskInvariant, WorkerFits
<1>6. /\ new.status = "failed" /\ ~new.result /\ new.delivery = "pending"
      /\ new.retry = seen[w].retry + 1 /\ seen[w].retry \in Nat
  BY <1>3 DEF FailedRow, Row
<1>7. new \in Row
  BY <1>3, RowTypes
<1>8. mid \in Row
  BY <1>3, <1>7, FlushedType
<1> HIDE DEF old, new
<1>9. mid.status = "failed" /\ mid.delivery = "pending" /\ mid.retry > 0
  BY <1>2, <1>5, <1>6, FlushedColumns
<1>10. ~mid.result
  BY <1>3, <1>4, <1>6, <1>7, FlushedFlags, Zenon
<1> HIDE DEF mid
<1>11. row \in Row
  BY <1>8 DEF Row
<1>12. /\ row.status = "failed" /\ row.delivery = "pending" /\ row.retry > 0
       /\ row.failure /\ row.result = mid.result
  BY <1>8, <1>9 DEF Row
<1> HIDE DEF row
<1>13. Consistent(row)
  BY <1>10, <1>12 DEF Consistent
<1> QED BY <1>1, <1>2, <1>11, <1>12, <1>13 DEF old, row, mid, new

(* The head of the list becomes the job of a worker.                       *)
LEMMA PopTaskTasks ==
    ASSUME Sound, NEW w \in Workers, PopTask(w), UNCHANGED intakeVars
    PROVE  TaskInvariant'
<1>1. /\ TasksAreUnique /\ TasksHaveRequests /\ RowsAreConsistent
      /\ \A o \in Requests : ClaimFits(o)
      /\ \A v \in Workers : WorkerFits(v)
  BY ClaimsParts, WorkersParts DEF Sound, TaskInvariant
<1>2. /\ wpc[w] = "idle" /\ wpc' = [wpc EXCEPT ![w] = "popped"]
      /\ queue # <<>> /\ queue' = Tail(queue)
      /\ job' = [job EXCEPT ![w] = Head(queue)]
      /\ UNCHANGED <<rec, rowLock, seen, pc, target, loaded>>
  BY DEF PopTask, Move, Dequeue, intakeVars
<1>3. /\ job \in [Workers -> Records \cup {NoJob}] /\ NoJob \notin Records
      /\ wpc \in [Workers -> WorkerPositions] /\ queue \in Seq(Records)
      /\ job[w] = NoJob
  BY <1>2, WorkerAssumption
  DEF Sound, PipelineInvariant, TypeOK, WorkerTypeOK, StoreTypeOK, PositionsFit
<1>4. /\ queue' \in Seq(Records) /\ Len(queue) \in Nat \ {0}
      /\ Len(queue') = Len(queue) - 1 /\ Head(queue) = queue[1]
      /\ \A i \in 1 .. Len(queue') : queue'[i] = queue[i + 1]
      /\ queue[1] \in Records
  BY <1>2, <1>3
<1>5. /\ job'[w] = queue[1] /\ \A v \in Workers : v # w => job'[v] = job[v]
  BY <1>2, <1>3, <1>4
<1>6. \A i \in 1 .. Len(queue') : i + 1 \in 1 .. Len(queue) /\ i + 1 # 1
  BY <1>4
<1>7. TasksAreUnique'
  <2>1. \A i, j \in 1 .. Len(queue') : queue'[i] = queue'[j] => i = j
    BY <1>1, <1>4, <1>6 DEF TasksAreUnique
  <2>2. 1 \in 1 .. Len(queue)
    BY <1>4
  <2>3. \A i \in 1 .. Len(queue') : queue'[i] # queue[1]
    BY <1>1, <1>4, <1>6, <2>2 DEF TasksAreUnique
  <2>4. \A v \in Workers : \A i \in 1 .. Len(queue') : job'[v] # queue'[i]
    BY <1>1, <1>4, <1>5, <1>6, <2>3 DEF TasksAreUnique
  <2>5. \A u, v \in Workers : job'[u] = job'[v] /\ job'[u] # NoJob => u = v
    BY <1>1, <1>5, <2>2 DEF TasksAreUnique
  <2> QED BY <2>1, <2>4, <2>5 DEF TasksAreUnique
<1>8. ASSUME NEW r \in Records
      PROVE  HasTask(r)' <=> HasTask(r)
  <2>1. HasTask(r) <=> \/ \E i \in 1 .. Len(queue) : queue[i] = r
                       \/ \E v \in Workers : job[v] = r
    BY <1>3, TaskPlaces
  <2>2. HasTask(r)' <=> \/ \E i \in 1 .. Len(queue') : queue'[i] = r
                        \/ \E v \in Workers : job'[v] = r
    BY <1>4 DEF HasTask, ToSet
  <2>3. (\E i \in 1 .. Len(queue) : queue[i] = r)
           <=> queue[1] = r \/ \E i \in 1 .. Len(queue') : queue'[i] = r
    <3>1. 1 \in 1 .. Len(queue)
      BY <1>4
    <3>2. \A i \in 1 .. Len(queue) : i = 1 \/ (i - 1 \in 1 .. Len(queue') /\ (i - 1) + 1 = i)
      BY <1>4
    <3>3. ASSUME NEW i \in 1 .. Len(queue), queue[i] = r, i # 1
          PROVE  \E j \in 1 .. Len(queue') : queue'[j] = r
      <4>1. i - 1 \in 1 .. Len(queue') /\ queue'[i - 1] = queue[i]
        BY <1>4, <3>2, <3>3
      <4> QED BY <3>3, <4>1
    <3>4. ASSUME NEW j \in 1 .. Len(queue'), queue'[j] = r
          PROVE  \E i \in 1 .. Len(queue) : queue[i] = r
      BY <1>4, <1>6, <3>4
    <3> QED BY <3>1, <3>3, <3>4
  <2>4. (\E v \in Workers : job'[v] = r)
           <=> queue[1] = r \/ \E v \in Workers : job[v] = r
    BY <1>3, <1>5
  <2> QED BY <2>1, <2>2, <2>3, <2>4
<1>9. TasksHaveRequests'
  <2>1. \A i \in 1 .. Len(queue') : rec'[queue'[i]].status \in {"absent", "queued", "failed"}
    BY <1>1, <1>2, <1>4, <1>6 DEF TasksHaveRequests
  <2> QED BY <1>1, <1>2, <1>8, <2>1 DEF TasksHaveRequests
<1>10. RowsAreConsistent'
  BY <1>1, <1>2 DEF RowsAreConsistent
<1>11. ASSUME NEW o \in Requests
       PROVE  ClaimFits(o)'
  <2>1. Claims(o) => target[o] \in Records
    BY ClaimedRecord
  <2> QED BY <1>1, <1>2, <1>8, <2>1 DEF ClaimFits, Claims
<1>12. ASSUME NEW v \in Workers
       PROVE  WorkerFits(v)'
  <2>1. CASE v # w
    BY <1>1, <1>2, <1>3, <1>5, <2>1 DEF WorkerFits
  <2>2. CASE v = w
    <3>1. wpc'[w] = "popped"
      BY <1>2, <1>3
    <3>2. 1 \in 1 .. Len(queue)
      BY <1>4
    <3>3. rec[queue[1]].status \in {"absent", "queued", "failed"}
      BY <1>1, <3>2 DEF TasksHaveRequests
    <3>4. rec[queue[1]].delivery = "pending"
      BY <1>1, <1>4, <3>3 DEF RowsAreConsistent
    <3>5. LeftAs["popped"] = {"queued", "failed"}
      BY DEF LeftAs
    <3> QED BY <1>2, <1>5, <2>2, <3>1, <3>3, <3>4, <3>5 DEF WorkerFits
  <2> QED BY <2>1, <2>2
<1>13. (\A o \in Requests : ClaimFits(o))' /\ (\A v \in Workers : WorkerFits(v))'
  BY <1>11, <1>12
<1> QED
  BY <1>7, <1>9, <1>10, <1>13 DEF TaskInvariant, ClaimsFit, ClaimFits,
     WorkersFit, WorkerFits, Claims

(***************************************************************************)
(* A step of a worker, its death and its restart included, keeps the tasks *)
(* in order.                                                               *)
(***************************************************************************)
LEMMA WorkerTasks ==
    ASSUME Sound, NEW w \in Workers, UNCHANGED intakeVars,
           WorkerStep(w) \/ WorkerCrash(w) \/ Restart(w)
    PROVE  TaskInvariant'
<1>1. /\ WorkerFits(w) /\ RowsAreConsistent /\ Faults \subseteq {"worker_crash"}
  BY WorkersParts DEF Sound, TaskInvariant, Undisturbed
<1>2. /\ wpc \in [Workers -> WorkerPositions] /\ seen \in [Workers -> Row]
      /\ job \in [Workers -> Records \cup {NoJob}] /\ NoJob \notin Records
      /\ rec \in [Records -> Row]
      /\ (wpc[w] \notin {"idle", "down"} => job[w] \in Records)
  BY WorkerAssumption
  DEF Sound, PipelineInvariant, TypeOK, WorkerTypeOK, StoreTypeOK, PositionsFit
<1>3. ASSUME NEW position \in {"idle", "down"},
             wpc' = [wpc EXCEPT ![w] = position],
             job' \in {job, [job EXCEPT ![w] = NoJob]},
             UNCHANGED <<rec, queue, rowLock, seen>>
      PROVE  TaskInvariant'
  <2>1. WorkerFits(w)'
    BY <1>2, <1>3 DEF WorkerFits
  <2>2. \A v \in Workers \ {w} : wpc'[v] = wpc[v] /\ seen'[v] = seen[v]
    BY <1>2, <1>3
  <2> QED BY <1>3, <2>1, <2>2, OneWorkerMoves
<1>4. ASSUME NEW position, wpc[w] \notin {"idle", "down"},
             wpc' = [wpc EXCEPT ![w] = position],
             LeftAs[wpc[w]] \subseteq LeftAs[position],
             pc[job[w]] = "accepted",
             position \notin {"popped", "loaded", "marking", "commenting"},
             position \in {"notifying", "settling"} =>
                 wpc[w] \in {"commenting", "notifying"},
             UNCHANGED <<rec, queue, rowLock, job, seen>>
      PROVE  TaskInvariant'
  <2>1. WorkerFits(w)'
    BY <1>1, <1>2, <1>4 DEF WorkerFits, intakeVars
  <2>2. \A v \in Workers \ {w} : wpc'[v] = wpc[v] /\ seen'[v] = seen[v]
    BY <1>2, <1>4
  <2> QED BY <1>4, <2>1, <2>2, OneWorkerMoves
<1>5. ASSUME NEW position, wpc[w] \notin {"idle", "down"}, Alive(w), Load(w),
             wpc' = [wpc EXCEPT ![w] = position],
             LeftAs[position] = LeftAs[wpc[w]],
             position = "loaded" => "processing" \notin LeftAs[position],
             position = "marking" => "failed" \notin LeftAs[position],
             UNCHANGED <<rec, queue, rowLock, job>>
      PROVE  TaskInvariant'
  <2>1. pc[job[w]] = "accepted"
    BY <1>2, <1>5 DEF Alive, Sound, PipelineInvariant, RowsMatch
  <2>2. /\ wpc'[w] = position /\ seen'[w] = rec[job[w]]
        /\ \A v \in Workers \ {w} : wpc'[v] = wpc[v] /\ seen'[v] = seen[v]
    BY <1>2, <1>5 DEF Load
  <2>3. rec[job[w]].status \in LeftAs[position] /\ rec[job[w]].delivery = "pending"
    BY <1>1, <1>5 DEF Alive, Stored, WorkerFits
  <2>4. WorkerFits(w)'
    BY <1>5, <2>1, <2>2, <2>3 DEF WorkerFits, intakeVars
  <2> QED BY <1>5, <2>2, <2>4, OneWorkerMoves
<1>6. ASSUME NEW row \in Row, CanWrite(w), wpc[w] \notin {"idle", "down"}, Write(w, row),
             Consistent(row), NEW position, wpc' = [wpc EXCEPT ![w] = position],
             \/ job' = [job EXCEPT ![w] = NoJob] /\ position \in {"idle", "down"}
             \/ /\ job' = job /\ position \in {"fetching", "saved"}
                /\ row.status \in LeftAs[position] \ {"failed"}
                /\ row.delivery = "pending",
             UNCHANGED <<queue, rowLock, seen>>
      PROVE  TaskInvariant'
  <2>1. job[w] \in Records /\ pc[job[w]] = "accepted"
    BY <1>6, WritableRow
  <2>2. /\ wpc'[w] = position /\ rec'[job[w]] = row
        /\ \A v \in Workers \ {w} : wpc'[v] = wpc[v] /\ seen'[v] = seen[v]
    BY <1>2, <1>6, <2>1 DEF Write
  <2>3. WorkerFits(w)'
    BY <1>6, <2>1, <2>2 DEF WorkerFits, intakeVars
  <2>4. job' \in {job, [job EXCEPT ![w] = NoJob]}
        /\ (row.status = "failed" => job' = [job EXCEPT ![w] = NoJob])
    BY <1>6
  <2> QED BY <1>6, <2>2, <2>3, <2>4, OneWorkerMoves
<1>7. wpc[w] \notin {"idle", "down", "popped"} => pc[job[w]] = "accepted"
  BY <1>1 DEF WorkerFits
<1>8. /\ LeftAs["popped"] = {"queued", "failed"} /\ LeftAs["loaded"] = {"queued", "failed"}
      /\ LeftAs["fetching"] = {"processing"} /\ LeftAs["skipping"] = {"processing"}
      /\ LeftAs["reviewing"] = {"processing"} /\ LeftAs["failing"] = {"processing"}
      /\ LeftAs["marking"] = {"processing"} /\ LeftAs["saved"] = {"reviewed"}
      /\ LeftAs["commenting"] = {"reviewed"} /\ LeftAs["notifying"] = {"reviewed"}
      /\ LeftAs["settling"] = {"reviewed"}
  BY DEF LeftAs
<1> USE DEF Move, storeVars
<1>9. CASE PopTask(w)
  BY <1>9, PopTaskTasks
<1>10. CASE DropTask(w)
  BY <1>3, <1>10 DEF DropTask, GiveUp
<1>11. CASE LoadRecord(w)
  <2>1. /\ wpc[w] = "popped" /\ wpc' = [wpc EXCEPT ![w] = "loaded"]
        /\ UNCHANGED <<rec, queue, rowLock, job>> /\ Alive(w) /\ Load(w)
    BY <1>11 DEF LoadRecord
  <2> QED BY <1>5, <1>8, <2>1
<1>12. CASE StartProcessing(w)
  <2>1. PICK row \in Row : /\ Write(w, row) /\ Consistent(row)
                           /\ row.status = "processing" /\ row.delivery = "pending"
    BY <1>12, StartedRow
  <2>2. /\ wpc[w] = "loaded" /\ CanWrite(w) /\ wpc' = [wpc EXCEPT ![w] = "fetching"]
        /\ UNCHANGED <<queue, rowLock, seen, job>>
    BY <1>12 DEF StartProcessing
  <2>3. "processing" \in LeftAs["fetching"] \ {"failed"}
    BY DEF LeftAs
  <2> QED BY <1>6, <2>1, <2>2, <2>3
<1>13. CASE FetchChanges(w)
  <2>1. /\ wpc[w] = "fetching" /\ wpc' = [wpc EXCEPT ![w] = "reviewing"]
        /\ UNCHANGED <<rec, queue, rowLock, job, seen>>
    BY <1>13 DEF FetchChanges
  <2> QED BY <1>4, <1>7, <1>8, <2>1
<1>14. CASE FetchNothingRelevant(w)
  <2>1. /\ wpc[w] = "fetching" /\ wpc' = [wpc EXCEPT ![w] = "skipping"]
        /\ UNCHANGED <<rec, queue, rowLock, job, seen>>
    BY <1>14 DEF FetchNothingRelevant
  <2> QED BY <1>4, <1>7, <1>8, <2>1
<1>15. CASE MarkSkipped(w)
  <2>1. PICK row \in Row : Write(w, row) /\ Consistent(row)
    BY <1>15, SkippedRow
  <2>2. /\ wpc[w] = "skipping" /\ CanWrite(w) /\ wpc' = [wpc EXCEPT ![w] = "idle"]
        /\ job' = [job EXCEPT ![w] = NoJob]
        /\ UNCHANGED <<queue, rowLock, seen>>
    BY <1>15 DEF MarkSkipped, Finish
  <2> QED BY <1>6, <2>1, <2>2
<1>16. CASE SaveReview(w)
  <2>1. PICK row \in Row : /\ Write(w, row) /\ Consistent(row)
                           /\ row.status = "reviewed" /\ row.delivery = "pending"
    BY <1>16, SavedRow
  <2>2. /\ wpc[w] = "reviewing" /\ CanWrite(w) /\ wpc' = [wpc EXCEPT ![w] = "saved"]
        /\ UNCHANGED <<queue, rowLock, seen, job>>
    BY <1>16 DEF SaveReview
  <2>3. "reviewed" \in LeftAs["saved"] \ {"failed"}
    BY DEF LeftAs
  <2> QED BY <1>6, <2>1, <2>2, <2>3
<1>17. CASE LoadSaved(w)
  <2>1. /\ wpc[w] = "saved" /\ wpc' = [wpc EXCEPT ![w] = "commenting"]
        /\ UNCHANGED <<rec, queue, rowLock, job>> /\ Alive(w) /\ Load(w)
    BY <1>17 DEF LoadSaved
  <2> QED BY <1>5, <1>8, <2>1
<1>18. CASE PublishComment(w) \/ CommentFails(w)
  <2>1. /\ wpc[w] = "commenting" /\ wpc' = [wpc EXCEPT ![w] = "notifying"]
        /\ UNCHANGED <<rec, queue, rowLock, job, seen>>
    BY <1>18 DEF PublishComment, CommentFails
  <2> QED BY <1>4, <1>7, <1>8, <2>1
<1>19. CASE Notify(w) \/ NotifyFails(w)
  <2>1. /\ wpc[w] = "notifying" /\ wpc' = [wpc EXCEPT ![w] = "settling"]
        /\ UNCHANGED <<rec, queue, rowLock, job, seen>>
    BY <1>19 DEF Notify, NotifyFails
  <2> QED BY <1>4, <1>7, <1>8, <2>1
<1>20. CASE SettleDelivery(w)
  <2>1. PICK row \in Row : Write(w, row) /\ Consistent(row)
    BY <1>20, DeliveredRow
  <2>2. /\ wpc[w] = "settling" /\ CanWrite(w) /\ wpc' = [wpc EXCEPT ![w] = "idle"]
        /\ job' = [job EXCEPT ![w] = NoJob]
        /\ UNCHANGED <<queue, rowLock, seen>>
    BY <1>20 DEF SettleDelivery, Finish
  <2> QED BY <1>6, <2>1, <2>2
<1>21. CASE PlatformOrModelFails(w)
  <2>1. /\ wpc[w] \in {"fetching", "reviewing"} /\ wpc' = [wpc EXCEPT ![w] = "failing"]
        /\ UNCHANGED <<rec, queue, rowLock, job, seen>>
    BY <1>21 DEF PlatformOrModelFails
  <2> QED BY <1>4, <1>7, <1>8, <2>1
<1>22. CASE RecordVanished(w)
  <2>1. /\ wpc[w] \in Writing \cup {"saved"} /\ ~Stored(job[w])
        /\ wpc' = [wpc EXCEPT ![w] = "failing"]
        /\ UNCHANGED <<rec, queue, rowLock, job, seen>>
    BY <1>22 DEF RecordVanished, Alive
  <2>2. /\ wpc'[w] = "failing"
        /\ \A v \in Workers \ {w} : wpc'[v] = wpc[v] /\ seen'[v] = seen[v]
    BY <1>2, <2>1
  <2>3. WorkerFits(w)'
    BY <1>1, <1>7, <2>1, <2>2 DEF WorkerFits, intakeVars, Stored, Writing
  <2> QED BY <2>1, <2>2, <2>3, OneWorkerMoves
<1>23. CASE WriteFails(w)
  BY <1>1, <1>23 DEF WriteFails
<1>24. CASE LoadForFailure(w)
  <2>1. /\ wpc[w] = "failing" /\ wpc' = [wpc EXCEPT ![w] = "marking"]
        /\ UNCHANGED <<rec, queue, rowLock, job>> /\ Alive(w) /\ Load(w)
    BY <1>24 DEF LoadForFailure
  <2> QED BY <1>5, <1>8, <2>1
<1>25. CASE NothingToMark(w)
  BY <1>3, <1>25 DEF NothingToMark, GiveUp
<1>26. CASE MarkFailed(w)
  <2>1. PICK row \in Row : Write(w, row) /\ Consistent(row)
    BY <1>26, FailureRow
  <2>2. /\ wpc[w] = "marking" /\ CanWrite(w) /\ wpc' = [wpc EXCEPT ![w] = "down"]
        /\ job' = [job EXCEPT ![w] = NoJob]
        /\ UNCHANGED <<queue, rowLock, seen>>
    BY <1>26 DEF MarkFailed, Finish
  <2> QED BY <1>6, <2>1, <2>2
<1>27. CASE MarkFails(w)
  BY <1>3, <1>27 DEF MarkFails, GiveUp
<1>28. CASE WorkerCrash(w)
  BY <1>3, <1>28 DEF WorkerCrash, GiveUp
<1>29. CASE Restart(w)
  BY <1>3, <1>29 DEF Restart
<1> QED
  BY <1>9, <1>10, <1>11, <1>12, <1>13, <1>14, <1>15, <1>16, <1>17, <1>18, <1>19, <1>20,
     <1>21, <1>22, <1>23, <1>24, <1>25, <1>26, <1>27, <1>28, <1>29 DEF WorkerStep

-----------------------------------------------------------------------------
(* Every step is a step of the life cycle.                                 *)

(* What may become of a row.                                               *)
Evolves(old, row) ==
    \/ /\ \/ old.status \in {"absent", "failed"} /\ row.status = "queued"
          \/ old.status = "queued" /\ row.status = "processing"
          \/ old.status = "processing" /\ row.status \in {"reviewed", "skipped", "failed"}
       /\ row.delivery = old.delivery
    \/ /\ old.status = "reviewed" /\ row.status = "reviewed"
       /\ old.delivery = "pending" /\ row.delivery \in Delivery \ {"pending"}

(* A step writes one row as Evolves says, or deletes them all.             *)
LEMMA RowsEvolve ==
    ASSUME Sound, [Next]_vars
    PROVE  \/ UNCHANGED rec
           \/ rec' = [r \in Records |-> NoRow]
           \/ \E r \in Records : \E row :
                 rec' = [rec EXCEPT ![r] = row] /\ Evolves(rec[r], row)
<1> DEFINE Goal == \/ UNCHANGED rec
                   \/ rec' = [r \in Records |-> NoRow]
                   \/ \E r \in Records : \E row :
                         rec' = [rec EXCEPT ![r] = row] /\ Evolves(rec[r], row)
<1>1. ASSUME NEW q \in Requests, Arrive(q) \/ RequestStep(q)
      PROVE  Goal
  <2>1. CASE CommitTask(q)
    <3>1. /\ target[q] \in Records /\ rec[target[q]].status \in {"absent", "failed"}
          /\ WrittenRow(q).status = "queued" /\ WrittenRow(q).delivery = "pending"
      BY <2>1, WrittenRowShape DEF CommitTask
    <3>2. rec[target[q]].delivery = "pending"
      BY <3>1 DEF Sound, TaskInvariant, RowsAreConsistent
    <3>3. rec' = [rec EXCEPT ![target[q]] = WrittenRow(q)]
      BY <2>1 DEF CommitTask
    <3> QED BY <3>1, <3>2, <3>3 DEF Evolves
  <2>2. CASE ~CommitTask(q)
    BY <1>1, <2>2 DEF Arrive, RequestStep, storeVars, SkipWebhook, AcceptWebhook,
       AcquireIdempotencyLock, FindNothing, FindFailed, FindDuplicate,
       TriggerManualReview, RefuseManualReview, FlushInsert, FlushRequeue, FlushFails,
       PushTask, PushFails, Rollback, CommitFails, WithdrawTask, RequestDeletion,
       LockProject, DeleteProject
  <2> QED BY <2>1, <2>2
<1>2. ASSUME NEW p \in Processes, ApiCrash(p)
      PROVE  Goal
  BY <1>2 DEF ApiCrash
<1>3. ASSUME NEW w \in Workers, WorkerStep(w) \/ WorkerCrash(w) \/ Restart(w)
      PROVE  Goal
  <2>1. CASE StartProcessing(w)
    BY <2>1, StartedRow DEF Write, Evolves
  <2>2. CASE MarkSkipped(w)
    BY <2>2, SkippedRow DEF Write, Evolves
  <2>3. CASE SaveReview(w)
    BY <2>3, SavedRow DEF Write, Evolves
  <2>4. CASE SettleDelivery(w)
    BY <2>4, DeliveredRow DEF Write, Evolves
  <2>5. CASE MarkFailed(w)
    BY <2>5, FailureRow DEF Write, Evolves
  <2>6. CASE ~(StartProcessing(w) \/ MarkSkipped(w) \/ SaveReview(w)
                 \/ SettleDelivery(w) \/ MarkFailed(w))
    BY <1>3, <2>6 DEF WorkerStep, WorkerCrash, Restart, storeVars, PopTask, DropTask,
       LoadRecord, FetchChanges, FetchNothingRelevant, LoadSaved, PublishComment,
       CommentFails, Notify, NotifyFails, PlatformOrModelFails, RecordVanished,
       WriteFails, LoadForFailure, NothingToMark, MarkFails
  <2> QED BY <2>1, <2>2, <2>3, <2>4, <2>5, <2>6
<1>4. CASE UNCHANGED vars
  BY <1>4 DEF vars, storeVars
<1> QED BY <1>1, <1>2, <1>3, <1>4 DEF Next, IntakeNext, WorkerNext

(* The life cycle starts where the pipeline starts.                        *)
LEMMA LifecycleInit == Init => Lifecycle!Init
  BY DEF Init, StoreInit, NoRow, Lifecycle!Init

(* What becomes of the rows is a step of the life cycle, or a stutter.     *)
LEMMA LifecycleStep ==
    ASSUME Sound, [Next]_vars
    PROVE  [Lifecycle!Next]_(Lifecycle!vars)
<1>1. rec \in [Records -> Row]
  BY DEF Sound, PipelineInvariant, TypeOK, StoreTypeOK
<1>2. CASE UNCHANGED rec
  BY <1>2 DEF Lifecycle!vars
<1>3. CASE rec' = [r \in Records |-> NoRow]
  BY <1>3 DEF NoRow, Lifecycle!Next, Lifecycle!DeleteAll, Lifecycle!Init
<1>4. ASSUME NEW r \in Records, NEW row, rec' = [rec EXCEPT ![r] = row],
             Evolves(rec[r], row)
      PROVE  Lifecycle!Next
  <2> DEFINE status   == [x \in Records |-> rec[x].status]
             delivery == [x \in Records |-> rec[x].delivery]
  <2>1. /\ status' = [status EXCEPT ![r] = row.status]
        /\ delivery' = [delivery EXCEPT ![r] = row.delivery]
    BY <1>1, <1>4
  <2>2. row.delivery = rec[r].delivery => delivery' = delivery
    BY <1>1, <1>4
  <2>3. row.status = rec[r].status => status' = status
    BY <1>1, <1>4
  <2> QED
    BY <1>4, <2>1, <2>2, <2>3
    DEF Evolves, Delivery, Lifecycle!Next, Lifecycle!Create, Lifecycle!Requeue,
        Lifecycle!Start, Lifecycle!Settle, Lifecycle!Deliver, Lifecycle!Change,
        Lifecycle!Outcomes
<1> QED BY <1>2, <1>3, <1>4, RowsEvolve

-----------------------------------------------------------------------------
(* The invariant and what follows from it.                                 *)

(* Before the first request there are no tasks.                            *)
LEMMA TasksInit == Init => TaskInvariant
<1> SUFFICES ASSUME Init PROVE TaskInvariant
  OBVIOUS
<1> USE DEF Init, StoreInit, IntakeInit, WorkerInit
<1>1. NoRow.status = "absent" /\ NoRow.delivery = "pending"
  BY DEF NoRow
<1>2. TasksAreUnique
  BY DEF TasksAreUnique
<1>3. \A r \in Records : ~HasTask(r)
  BY WorkerAssumption DEF HasTask, ToSet
<1>4. TasksHaveRequests
  BY <1>3 DEF TasksHaveRequests
<1>5. ClaimsFit
  BY DEF ClaimsFit
<1>6. WorkersFit
  BY DEF WorkersFit
<1>7. RowsAreConsistent
  BY <1>1 DEF RowsAreConsistent
<1> QED BY <1>2, <1>4, <1>5, <1>6, <1>7 DEF TaskInvariant

(* Every step keeps the tasks in order.                                    *)
LEMMA TasksStep ==
    ASSUME Undisturbed
    PROVE  PipelineInvariant /\ TaskInvariant /\ [Next]_vars => TaskInvariant'
<1> SUFFICES ASSUME Sound, [Next]_vars PROVE TaskInvariant'
  BY DEF Sound
<1>1. ASSUME NEW q \in Requests, Arrive(q) \/ RequestStep(q), UNCHANGED workerVars
      PROVE  TaskInvariant'
  BY <1>1, RequestTasks
<1>2. ASSUME NEW p \in Processes, ApiCrash(p)
      PROVE  TaskInvariant'
  BY <1>2 DEF ApiCrash, Sound, Undisturbed
<1>3. ASSUME NEW w \in Workers, WorkerStep(w) \/ WorkerCrash(w) \/ Restart(w),
             UNCHANGED intakeVars
      PROVE  TaskInvariant'
  BY <1>3, WorkerTasks
<1>4. CASE UNCHANGED vars
  BY <1>4 DEF vars, storeVars, intakeVars, workerVars, Sound, TaskInvariant,
     TasksAreUnique, TasksHaveRequests, ClaimsFit, WorkersFit, RowsAreConsistent, HasTask
<1> QED BY <1>1, <1>2, <1>3, <1>4 DEF Next, IntakeNext, WorkerNext

(***************************************************************************)
(* While Redis, the database and the API processes work, tasks, claims and *)
(* rows stay in order, workers that die and deletions of the project       *)
(* notwithstanding.                                                        *)
(***************************************************************************)
THEOREM TasksHold == ASSUME Undisturbed PROVE Spec => []TaskInvariant
<1>1. Init => TaskInvariant
  BY TasksInit
<1>2. PipelineInvariant /\ TaskInvariant /\ [Next]_vars => TaskInvariant'
  BY TasksStep
<1> QED BY <1>1, <1>2, InvariantHolds, PTL DEF Spec

(***************************************************************************)
(* No two workers ever execute one record at once, although execute takes  *)
(* no lock: the list never holds a second task of it.                      *)
(***************************************************************************)
THEOREM NoRecordExecutedTwice ==
    ASSUME Undisturbed PROVE Spec => []NoConcurrentExecution
<1>1. PipelineInvariant /\ TaskInvariant => NoConcurrentExecution
  <2> SUFFICES ASSUME PipelineInvariant, TaskInvariant, NEW v \in Workers, NEW w \in Workers,
                      Executing(v), Executing(w), job[v] = job[w]
               PROVE  v = w
    BY DEF NoConcurrentExecution
  <2>1. job[v] # NoJob
    BY DEF PipelineInvariant, PositionsFit, Executing
  <2> QED BY <2>1 DEF TaskInvariant, TasksAreUnique
<1> QED BY <1>1, TasksHold, InvariantHolds, PTL

(***************************************************************************)
(* A record is queued again only after it failed (ingest_webhook_event     *)
(* reads the status under the lock of its event or subject, and no worker  *)
(* can change a failed record that has no task).                           *)
(***************************************************************************)
THEOREM FailedAloneIsRequeued == ASSUME Undisturbed PROVE Spec => OnlyFailedIsRequeued
<1>1. ASSUME PipelineInvariant, TaskInvariant, [Next]_vars, NEW r \in Records,
             rec'[r].status = "queued"
      PROVE  rec[r].status \in {"absent", "failed", "queued"}
  <2>1. rec \in [Records -> Row]
    BY <1>1 DEF PipelineInvariant, TypeOK, StoreTypeOK
  <2>2. CASE UNCHANGED rec
    BY <1>1, <2>2
  <2>3. CASE rec' = [x \in Records |-> NoRow]
    BY <1>1, <2>3 DEF NoRow
  <2>4. ASSUME NEW x \in Records, NEW row, rec' = [rec EXCEPT ![x] = row],
               Evolves(rec[x], row)
        PROVE  rec[r].status \in {"absent", "failed", "queued"}
    <3>1. CASE r = x
      BY <1>1, <2>1, <2>4, <3>1 DEF Evolves
    <3>2. CASE r # x
      BY <1>1, <2>1, <2>4, <3>2
    <3> QED BY <3>1, <3>2
  <2> QED BY <1>1, <2>2, <2>3, <2>4, RowsEvolve DEF Sound
<1>2. PipelineInvariant /\ TaskInvariant /\ [Next]_vars =>
         [\A r \in Records :
             rec'[r].status = "queued"
                => rec[r].status \in {"absent", "failed", "queued"}]_vars
  BY <1>1
<1> QED BY <1>2, TasksHold, InvariantHolds, PTL DEF Spec, OnlyFailedIsRequeued

(***************************************************************************)
(* The pipeline implements the life cycle of ReviewLifecycle: every record *)
(* goes from absent to queued, processing and an outcome, only a failed one*)
(* back to queued, and only a reviewed one gets a delivery outcome, once.  *)
(***************************************************************************)
THEOREM LifecycleImplemented == ASSUME Undisturbed PROVE Spec => ImplementsLifecycle
<1>1. PipelineInvariant /\ TaskInvariant /\ [Next]_vars
         => [Lifecycle!Next]_(Lifecycle!vars)
  BY LifecycleStep DEF Sound
<1> QED
  BY <1>1, LifecycleInit, TasksHold, InvariantHolds, PTL
  DEF Spec, ImplementsLifecycle, Lifecycle!Spec

-----------------------------------------------------------------------------
(* No record is stranded: RecordsAreKept, whatever Redis and the processes *)
(* do, as long as the database commits.                                    *)

Live(r) == rec[r].status \in {"queued", "processing"}

(* Pushed and not lost, or known to be lost.                               *)
InList(r) == r \in ToSet(queue) \cup abandoned

(* RPUSH keeps what is in the list and adds the task.                      *)
LEMMA EnqueuedElements ==
    ASSUME queue \in Seq(Records), NEW x \in Records, queue' = Append(queue, x)
    PROVE  ToSet(queue') = ToSet(queue) \cup {x}
<1>1. queue' \in Seq(Records)
  OBVIOUS
<1>2. /\ Len(queue') = Len(queue) + 1 /\ queue'[Len(queue) + 1] = x
      /\ \A i \in 1 .. Len(queue) : queue'[i] = queue[i]
  OBVIOUS
<1>3. /\ ToSet(queue) = {queue[i] : i \in 1 .. Len(queue)}
      /\ ToSet(queue') = {queue'[i] : i \in 1 .. Len(queue')}
  BY <1>1 DEF ToSet
<1>4. Len(queue) \in Nat
  OBVIOUS
<1> QED BY <1>2, <1>3, <1>4

(* LPOP takes out one task.                                                *)
LEMMA DequeuedElements ==
    ASSUME queue \in Seq(Records), queue # <<>>, queue' = Tail(queue)
    PROVE  /\ Head(queue) \in Records
           /\ ToSet(queue) = ToSet(queue') \cup {Head(queue)}
<1>1. queue' \in Seq(Records) /\ Len(queue) \in Nat \ {0} /\ Head(queue) = queue[1]
  OBVIOUS
<1>2. /\ Len(queue') = Len(queue) - 1
      /\ \A i \in 1 .. Len(queue') : queue'[i] = queue[i + 1]
  OBVIOUS
<1>3. ToSet(queue) = {queue[i] : i \in 1 .. Len(queue)}
  BY DEF ToSet
<1>4. ToSet(queue') = {queue'[i] : i \in 1 .. Len(queue')}
  <2>1. DOMAIN queue' = 1 .. Len(queue')
    BY <1>1
  <2> QED BY <2>1 DEF ToSet
<1>5. \A i \in 1 .. Len(queue) : i = 1 \/ (i - 1 \in 1 .. Len(queue') /\ queue[i] = queue'[i - 1])
  BY <1>1, <1>2
<1>6. \A i \in 1 .. Len(queue') : i + 1 \in 1 .. Len(queue) /\ queue'[i] = queue[i + 1]
  BY <1>1, <1>2
<1>7. ToSet(queue) \subseteq ToSet(queue') \cup {Head(queue)}
  <2> SUFFICES ASSUME NEW r \in ToSet(queue), r # Head(queue) PROVE r \in ToSet(queue')
    OBVIOUS
  <2>1. PICK i \in 1 .. Len(queue) : queue[i] = r
    BY <1>3
  <2>2. i - 1 \in 1 .. Len(queue') /\ r = queue'[i - 1]
    BY <1>1, <1>5, <2>1
  <2> QED BY <1>4, <2>2
<1>8. ToSet(queue') \subseteq ToSet(queue) /\ Head(queue) \in ToSet(queue)
  BY <1>1, <1>3, <1>6, <1>4
<1> QED BY <1>1, <1>7, <1>8

(* What a step of a request does to the list, the rows and its position.   *)
LEMMA RequestKeeps ==
    ASSUME PipelineInvariant, RecordsAreKept, "database" \notin Faults,
           NEW q \in Requests, Arrive(q) \/ RequestStep(q)
    PROVE  /\ pc[q] # "accepted" /\ pc'[q] # "removing"
           /\ ToSet(queue) \subseteq ToSet(queue')
           /\ pc'[q] = "pushed" => /\ target' = target
                                   /\ target[q] \in ToSet(queue')
           /\ \A r \in Records :
                  \/ rec'[r] = rec[r] \/ rec'[r] = NoRow
                  \/ r = target[q] /\ pc[q] = "pushed"
<1> USE DEF PipelineInvariant, TypeOK, StoreTypeOK, IntakeTypeOK, RecordsAreKept,
            Goto, storeVars, PositionsFit, Answered, Requests
<1>1. CASE SkipWebhook(q)
  BY <1>1 DEF SkipWebhook
<1>2. CASE AcceptWebhook(q)
  BY <1>2 DEF AcceptWebhook
<1>3. CASE TriggerManualReview(q)
  BY <1>3 DEF TriggerManualReview
<1>4. CASE RefuseManualReview(q)
  BY <1>4 DEF RefuseManualReview
<1>5. CASE RequestDeletion(q)
  BY <1>5 DEF RequestDeletion
<1>6. CASE AcquireIdempotencyLock(q)
  BY <1>6 DEF AcquireIdempotencyLock
<1>7. CASE FindNothing(q)
  BY <1>7 DEF FindNothing
<1>8. CASE FindFailed(q)
  BY <1>8 DEF FindFailed
<1>9. CASE FindDuplicate(q)
  BY <1>9 DEF FindDuplicate
<1>10. CASE FlushInsert(q)
  BY <1>10 DEF FlushInsert
<1>11. CASE FlushRequeue(q)
  BY <1>11 DEF FlushRequeue
<1>12. CASE FlushFails(q)
  BY <1>12 DEF FlushFails
<1>13. CASE PushTask(q)
  <2>1. target[q] \in Records /\ queue' = Append(queue, target[q])
    BY <1>13 DEF PushTask, Enqueue
  <2>2. ToSet(queue') = ToSet(queue) \cup {target[q]}
    BY <2>1, EnqueuedElements
  <2> QED BY <1>13, <2>2 DEF PushTask
<1>14. CASE PushFails(q)
  <2>1. target[q] \in Records
    BY <1>14 DEF PushFails
  <2>2. queue' = Append(queue, target[q]) => ToSet(queue') = ToSet(queue) \cup {target[q]}
    BY <2>1, EnqueuedElements
  <2> QED BY <1>14, <2>2 DEF PushFails, Enqueue
<1>15. CASE Rollback(q)
  BY <1>15 DEF Rollback
<1>16. CASE CommitTask(q)
  BY <1>16 DEF CommitTask
<1>17. CASE CommitFails(q)
  BY <1>17 DEF CommitFails
<1>18. CASE WithdrawTask(q)
  BY <1>18 DEF WithdrawTask
<1>19. CASE LockProject(q)
  BY <1>19 DEF LockProject
<1>20. CASE DeleteProject(q)
  BY <1>20 DEF DeleteProject, NoRow
<1> QED
  BY <1>1, <1>2, <1>3, <1>4, <1>5, <1>6, <1>7, <1>8, <1>9, <1>10, <1>11, <1>12, <1>13,
     <1>14, <1>15, <1>16, <1>17, <1>18, <1>19, <1>20 DEF Arrive, RequestStep

(* What a worker does to a task and its row: it keeps the task in hand     *)
(* until it has written an outcome, or the task is abandoned.              *)
WorkerKeepsTask(w) ==
    /\ \A v \in Workers \ {w} :
          job'[v] = job[v] /\ wpc'[v] = wpc[v] /\ seen'[v] = seen[v]
    /\ abandoned \subseteq abandoned'
    /\ wpc'[w] \notin {"idle", "down", "popped"} =>
          /\ job'[w] = job[w]
          /\ \/ wpc[w] \notin {"idle", "down", "popped"}
             \/ wpc[w] = "popped" /\ Alive(w)
    /\ \A r \in ToSet(queue) :
          r \in ToSet(queue') \/ (job'[w] = r /\ wpc'[w] = "popped")
    /\ wpc[w] \in {"popped", "loaded"} =>
          \/ job[w] \in abandoned'
          \/ job'[w] = job[w] /\ wpc'[w] \in {"popped", "loaded"}
          \/ wpc[w] = "loaded" /\ (CanWrite(w) \/ ~Alive(w))
    /\ \A r \in Records : job[w] = r /\ WillWrite(w) /\ Live(r)' =>
          r \in abandoned' \/ (job'[w] = r /\ WillWrite(w)')
    /\ \A r \in Records : Live(r)' =>
          Live(r) \/ (r = job[w] /\ job'[w] = r /\ WillWrite(w)')

(* One case per action.                                                    *)
LEMMA WorkerKeeps ==
    ASSUME PipelineInvariant, "database" \notin Faults, NEW w \in Workers,
           WorkerStep(w) \/ WorkerCrash(w) \/ Restart(w)
    PROVE  WorkerKeepsTask(w)
<1> USE WorkerAssumption
    DEF PipelineInvariant, TypeOK, StoreTypeOK, WorkerTypeOK, PositionsFit, Move, storeVars,
        Load, Write, GiveUp, Finish, WorkerKeepsTask, WillWrite, Live
<1>1. CASE PopTask(w)
  <2>1. Head(queue) \in Records /\ ToSet(queue) = ToSet(queue') \cup {Head(queue)}
    BY <1>1, DequeuedElements DEF PopTask, Dequeue
  <2>2. job[w] = NoJob /\ wpc[w] = "idle" /\ job'[w] = Head(queue) /\ wpc'[w] = "popped"
    BY <1>1 DEF PopTask
  <2> QED BY <1>1, <2>1, <2>2 DEF PopTask
<1>2. CASE DropTask(w)
  BY <1>2 DEF DropTask
<1>3. CASE LoadRecord(w)
  BY <1>3 DEF LoadRecord
<1>4. CASE StartProcessing(w)
  BY <1>4 DEF StartProcessing
<1>5. CASE FetchChanges(w)
  BY <1>5 DEF FetchChanges
<1>6. CASE FetchNothingRelevant(w)
  BY <1>6 DEF FetchNothingRelevant
<1>7. CASE MarkSkipped(w)
  <2> DEFINE row == [rec[job[w]] EXCEPT !.status = "skipped", !.result = TRUE]
  <2>1. job[w] \in Records
    BY <1>7 DEF MarkSkipped
  <2>2. rec' = [rec EXCEPT ![job[w]] = row]
    BY <1>7 DEF MarkSkipped
  <2>3. row.status = "skipped"
    BY <2>1 DEF Row
  <2> HIDE DEF row
  <2>4. rec'[job[w]].status = "skipped" /\ \A r \in Records \ {job[w]} : rec'[r] = rec[r]
    BY <2>1, <2>2, <2>3
  <2> QED BY <1>7, <2>1, <2>4 DEF MarkSkipped
<1>8. CASE SaveReview(w)
  <2> DEFINE row == [rec[job[w]] EXCEPT !.status = "reviewed", !.result = TRUE,
                                             !.failure = FALSE]
  <2>1. job[w] \in Records
    BY <1>8 DEF SaveReview
  <2>2. rec' = [rec EXCEPT ![job[w]] = row]
    BY <1>8 DEF SaveReview
  <2>3. row.status = "reviewed"
    BY <2>1 DEF Row
  <2> HIDE DEF row
  <2>4. rec'[job[w]].status = "reviewed" /\ \A r \in Records \ {job[w]} : rec'[r] = rec[r]
    BY <2>1, <2>2, <2>3
  <2>5. /\ wpc[w] = "reviewing" /\ wpc'[w] = "saved"
        /\ UNCHANGED <<job, seen, queue, abandoned>>
        /\ \A v \in Workers \ {w} : wpc'[v] = wpc[v]
    BY <1>8 DEF SaveReview
  <2> QED BY <2>1, <2>4, <2>5
<1>9. CASE LoadSaved(w)
  BY <1>9 DEF LoadSaved
<1>10. CASE PublishComment(w)
  BY <1>10 DEF PublishComment
<1>11. CASE CommentFails(w)
  BY <1>11 DEF CommentFails
<1>12. CASE Notify(w)
  BY <1>12 DEF Notify
<1>13. CASE NotifyFails(w)
  BY <1>13 DEF NotifyFails
<1>14. CASE SettleDelivery(w)
  <2> DEFINE new == [seen[w] EXCEPT !.delivery = DeliveryOutcome(undelivered[w])]
             row == Flushed(rec[job[w]], seen[w], new)
  <2>1. job[w] \in Records /\ rec' = [rec EXCEPT ![job[w]] = row]
    BY <1>14 DEF SettleDelivery
  <2>2. new.status = seen[w].status
    BY DEF Row
  <2> HIDE DEF new
  <2>3. row.status = rec[job[w]].status
    BY <2>2, FlushedColumns
  <2> HIDE DEF row
  <2>4. \A r \in Records : rec'[r].status = rec[r].status
    BY <2>1, <2>3
  <2> QED BY <1>14, <2>1, <2>4 DEF SettleDelivery
<1>15. CASE PlatformOrModelFails(w)
  BY <1>15 DEF PlatformOrModelFails
<1>16. CASE RecordVanished(w)
  BY <1>16 DEF RecordVanished, Writing
<1>17. CASE WriteFails(w)
  BY <1>17 DEF WriteFails
<1>18. CASE LoadForFailure(w)
  BY <1>18 DEF LoadForFailure
<1>19. CASE NothingToMark(w)
  BY <1>19 DEF NothingToMark
<1>20. CASE MarkFailed(w)
  <2> DEFINE new == FailedRow(seen[w])
             flushed == Flushed(rec[job[w]], seen[w], new)
             row == [flushed EXCEPT !.failure = TRUE]
  <2>1. job[w] \in Records /\ rec' = [rec EXCEPT ![job[w]] = row]
    BY <1>20 DEF MarkFailed
  <2>2. new.status = "failed"
    BY DEF Row, FailedRow
  <2> HIDE DEF new
  <2>3. /\ seen[w].status # "failed" => flushed.status = "failed"
        /\ seen[w].status = "failed" => flushed.status = rec[job[w]].status
    BY <2>2, FlushedColumns
  <2>4. row.status = flushed.status
    BY DEF Flushed
  <2> HIDE DEF row, flushed
  <2>5. /\ seen[w].status # "failed" => rec'[job[w]].status = "failed"
        /\ seen[w].status = "failed" => rec'[job[w]].status = rec[job[w]].status
        /\ \A r \in Records \ {job[w]} : rec'[r] = rec[r]
    BY <2>1, <2>3, <2>4
  <2>6. /\ wpc[w] = "marking" /\ wpc'[w] = "down"
        /\ UNCHANGED <<seen, queue, abandoned>>
        /\ \A v \in Workers \ {w} : wpc'[v] = wpc[v] /\ job'[v] = job[v]
    BY <1>20 DEF MarkFailed
  <2> QED BY <2>1, <2>5, <2>6
<1>21. CASE MarkFails(w)
  BY <1>21 DEF MarkFails
<1>22. CASE WorkerCrash(w)
  BY <1>22 DEF WorkerCrash
<1>23. CASE Restart(w)
  BY <1>23 DEF Restart
<1> QED
  BY <1>1, <1>2, <1>3, <1>4, <1>5, <1>6, <1>7, <1>8, <1>9, <1>10, <1>11, <1>12, <1>13,
     <1>14, <1>15, <1>16, <1>17, <1>18, <1>19, <1>20, <1>21, <1>22, <1>23 DEF WorkerStep

-----------------------------------------------------------------------------
(* What RecordsAreKept asks of a pushed task and of a live record.         *)
PushedIsKept(q) ==
    pc[q] = "pushed" =>
        InList(target[q]) \/ \E w \in Workers : /\ job[w] = target[q]
                                               /\ wpc[w] \in {"popped", "loaded"}

LiveIsKept(r) ==
    Live(r) => InList(r) \/ \E w \in Workers : job[w] = r /\ WillWrite(w)

(* RecordsAreKept request by request and record by record.                 *)
LEMMA KeptParts ==
    RecordsAreKept <=>
        /\ \A q \in Requests : pc[q] # "removing"
        /\ \A w \in Workers :
              wpc[w] \notin {"idle", "down", "popped"} => pc[job[w]] = "accepted"
        /\ \A q \in Requests : PushedIsKept(q)
        /\ \A r \in Records : LiveIsKept(r)
  BY DEF RecordsAreKept, PushedIsKept, LiveIsKept, InList, Live

(* A request makes a row live only by committing a task that was pushed    *)
(* and not lost since: what it lost is abandoned, what was popped waits    *)
(* for the lock of the row.                                                *)
LEMMA RequestKeepsRecords ==
    ASSUME PipelineInvariant, RecordsAreKept, "database" \notin Faults,
           NEW q \in Requests, Arrive(q) \/ RequestStep(q), UNCHANGED workerVars
    PROVE  RecordsAreKept'
<1>1. /\ pc[q] # "accepted" /\ pc'[q] # "removing"
      /\ ToSet(queue) \subseteq ToSet(queue')
      /\ pc'[q] = "pushed" => target' = target /\ target[q] \in ToSet(queue')
  BY RequestKeeps
<1>2. \A r \in Records : \/ rec'[r] = rec[r] \/ rec'[r] = NoRow
                         \/ r = target[q] /\ pc[q] = "pushed"
  BY RequestKeeps
<1>3. UNCHANGED <<wpc, job, seen, abandoned>>
  BY DEF workerVars
<1>4. \A o \in Requests \ {q} : pc'[o] = pc[o] /\ target'[o] = target[o]
  BY RequestStepFrame DEF PipelineInvariant
<1>5. \A r : InList(r) => InList(r)'
  BY <1>1, <1>3 DEF InList
<1>6. \A o \in Requests : pc'[o] # "removing"
  BY <1>1, <1>4, KeptParts
<1>7. ASSUME NEW w \in Workers, wpc'[w] \notin {"idle", "down", "popped"}
      PROVE  pc'[job'[w]] = "accepted"
  <2>1. job[w] \in Requests /\ pc[job[w]] = "accepted"
    BY <1>3, <1>7, KeptParts
    DEF PipelineInvariant, PositionsFit, TypeOK, WorkerTypeOK, Requests
  <2> QED BY <1>1, <1>3, <1>4, <2>1
<1>8. ASSUME NEW o \in Requests PROVE PushedIsKept(o)'
  <2>1. CASE o = q
    BY <1>1, <2>1 DEF PushedIsKept, InList
  <2>2. CASE o # q
    BY <1>3, <1>4, <1>5, <2>2, KeptParts DEF PushedIsKept
  <2> QED BY <2>1, <2>2
<1>9. ASSUME NEW r \in Records PROVE LiveIsKept(r)'
  <2>1. CASE rec'[r] = rec[r]
    BY <1>3, <1>5, <2>1, KeptParts DEF LiveIsKept, Live, WillWrite
  <2>2. CASE rec'[r] = NoRow
    BY <2>2 DEF LiveIsKept, Live, NoRow
  <2>3. CASE r = target[q] /\ pc[q] = "pushed"
    BY <1>3, <1>5, <2>3, KeptParts DEF LiveIsKept, PushedIsKept, WillWrite
  <2> QED BY <1>2, <2>1, <2>2, <2>3
<1>10. /\ (\A o \in Requests : PushedIsKept(o))'
       /\ (\A r \in Records : LiveIsKept(r))'
  BY <1>8, <1>9
<1> QED BY <1>6, <1>7, <1>10, KeptParts DEF RecordsAreKept, PushedIsKept, LiveIsKept, InList, Live

(* A crash of the API drops no task and writes no row.                     *)
LEMMA ApiCrashKeepsRecords ==
    ASSUME PipelineInvariant, RecordsAreKept, NEW p \in Processes, ApiCrash(p),
           UNCHANGED workerVars
    PROVE  RecordsAreKept'
<1>1. UNCHANGED <<rec, queue, target, wpc, job, seen, abandoned>>
  BY DEF ApiCrash, workerVars
<1>2. \A o \in Requests : \/ pc'[o] = pc[o]
                          \/ pc'[o] = "aborted" /\ pc[o] # "accepted"
  BY DEF ApiCrash, PipelineInvariant, TypeOK, IntakeTypeOK, Answered
<1>3. \A w \in Workers : wpc[w] \notin {"idle", "down", "popped"} => job[w] \in Requests
  BY DEF PipelineInvariant, PositionsFit, TypeOK, WorkerTypeOK, Requests
<1> QED BY <1>1, <1>2, <1>3 DEF RecordsAreKept, WillWrite

(***************************************************************************)
(* A worker lets a task go only with an outcome or by abandoning it.  The  *)
(* task of a request that has not committed yet cannot get past "loaded":  *)
(* its row is locked, or not there.                                        *)
(***************************************************************************)
LEMMA WorkerKeepsRecords ==
    ASSUME PipelineInvariant, RecordsAreKept, "database" \notin Faults,
           NEW w \in Workers, WorkerStep(w) \/ WorkerCrash(w) \/ Restart(w),
           UNCHANGED intakeVars
    PROVE  RecordsAreKept'
<1>1. WorkerKeepsTask(w)
  BY WorkerKeeps
<1>2. UNCHANGED <<pc, target, loaded>>
  BY DEF intakeVars
<1>3. \A r : InList(r) => InList(r)' \/ (job'[w] = r /\ wpc'[w] = "popped")
  BY <1>1 DEF WorkerKeepsTask, InList
<1>4. ASSUME NEW v \in Workers, wpc'[v] \notin {"idle", "down", "popped"}
      PROVE  pc'[job'[v]] = "accepted"
  <2>1. CASE v # w
    BY <1>1, <1>2, <1>4, <2>1, KeptParts DEF WorkerKeepsTask
  <2>2. CASE v = w /\ wpc[w] \notin {"idle", "down", "popped"}
    BY <1>1, <1>2, <1>4, <2>2, KeptParts DEF WorkerKeepsTask
  <2>3. CASE v = w /\ wpc[w] = "popped" /\ Alive(w)
    <3>1. job'[w] = job[w] /\ job[w] \in Records
      BY <1>1, <1>4, <2>3
      DEF WorkerKeepsTask, PipelineInvariant, PositionsFit, TypeOK, WorkerTypeOK, Alive
    <3> QED BY <1>2, <2>3, <3>1 DEF Alive, PipelineInvariant, RowsMatch
  <2> QED BY <1>1, <1>4, <2>1, <2>2, <2>3 DEF WorkerKeepsTask
<1>5. ASSUME NEW q \in Requests PROVE PushedIsKept(q)'
  <2> SUFFICES ASSUME pc[q] = "pushed"
               PROVE  InList(target[q])' \/ \E v \in Workers :
                         job'[v] = target[q] /\ wpc'[v] \in {"popped", "loaded"}
    BY <1>2 DEF PushedIsKept, InList
  <2>1. CASE InList(target[q])
    BY <1>2, <1>3, <2>1 DEF InList
  <2>2. ASSUME NEW v \in Workers, v # w, job[v] = target[q],
               wpc[v] \in {"popped", "loaded"}
        PROVE  job'[v] = target[q] /\ wpc'[v] \in {"popped", "loaded"}
    BY <1>1, <2>2 DEF WorkerKeepsTask
  <2>3. CASE job[w] = target[q] /\ wpc[w] \in {"popped", "loaded"}
    <3>1. rowLock[target[q]] = q /\ q # Nobody
      BY StoreAssumption DEF PipelineInvariant, LocksMatch, WritesRow, Requests, Records
    <3>2. ~(wpc[w] = "loaded" /\ ~Alive(w))
      <4>1. wpc[w] = "loaded" => target[q] # q
        BY <2>3, KeptParts
      <4> QED BY <2>3, <4>1 DEF PipelineInvariant, RowsMatch, WritesRow, Alive
    <3>3. ~CanWrite(w)
      BY <2>3, <3>1 DEF CanWrite
    <3> QED BY <1>1, <1>2, <2>3, <3>2, <3>3 DEF WorkerKeepsTask, InList
  <2> QED BY <2>1, <2>2, <2>3, KeptParts DEF PushedIsKept
<1>6. ASSUME NEW r \in Records PROVE LiveIsKept(r)'
  <2> SUFFICES ASSUME Live(r)' PROVE InList(r)' \/ (\E v \in Workers : job[v] = r /\ WillWrite(v))'
    BY DEF LiveIsKept
  <2>1. CASE job'[w] = r /\ WillWrite(w)'
    BY <2>1
  <2>2. CASE InList(r)
    BY <1>3, <2>2 DEF WillWrite
  <2>3. ASSUME NEW v \in Workers, job[v] = r, WillWrite(v), v # w
        PROVE  job'[v] = r /\ WillWrite(v)'
    BY <1>1, <2>3 DEF WorkerKeepsTask, WillWrite
  <2>4. CASE job[w] = r /\ WillWrite(w)
    BY <1>1, <2>4 DEF WorkerKeepsTask, InList
  <2>5. Live(r) \/ (job'[w] = r /\ WillWrite(w)')
    BY <1>1 DEF WorkerKeepsTask
  <2> QED BY <2>1, <2>2, <2>3, <2>4, <2>5, KeptParts DEF LiveIsKept
<1>7. /\ (\A o \in Requests : PushedIsKept(o))'
      /\ (\A r \in Records : LiveIsKept(r))'
  BY <1>5, <1>6
<1> QED BY <1>2, <1>4, <1>7, KeptParts DEF RecordsAreKept, PushedIsKept, LiveIsKept, InList, Live

(* No record is there to be kept.                                          *)
LEMMA RecordsAreKeptInit == Init => RecordsAreKept
<1> SUFFICES ASSUME Init PROVE RecordsAreKept
  OBVIOUS
<1>1. NoRow.status = "absent"
  BY DEF NoRow
<1> QED BY <1>1 DEF Init, StoreInit, IntakeInit, WorkerInit, RecordsAreKept

(* Every step keeps the records.                                           *)
LEMMA RecordsAreKeptStep ==
    ASSUME "database" \notin Faults
    PROVE  PipelineInvariant /\ RecordsAreKept /\ [Next]_vars => RecordsAreKept'
<1> SUFFICES ASSUME PipelineInvariant, RecordsAreKept, [Next]_vars PROVE RecordsAreKept'
  OBVIOUS
<1>1. ASSUME NEW q \in Requests, Arrive(q) \/ RequestStep(q), UNCHANGED workerVars
      PROVE  RecordsAreKept'
  BY <1>1, RequestKeepsRecords
<1>2. ASSUME NEW p \in Processes, ApiCrash(p), UNCHANGED workerVars
      PROVE  RecordsAreKept'
  BY <1>2, ApiCrashKeepsRecords
<1>3. ASSUME NEW w \in Workers, WorkerStep(w) \/ WorkerCrash(w) \/ Restart(w),
             UNCHANGED intakeVars
      PROVE  RecordsAreKept'
  BY <1>3, WorkerKeepsRecords
<1>4. CASE UNCHANGED vars
  BY <1>4 DEF vars, storeVars, intakeVars, workerVars, RecordsAreKept, WillWrite
<1> QED BY <1>1, <1>2, <1>3, <1>4 DEF Next, IntakeNext, WorkerNext

(***************************************************************************)
(* While the database commits, a queued or processing record has a task in *)
(* the list or with a worker unless a worker abandoned it, for any number  *)
(* of deliveries, processes and workers, with calls of Redis that raise    *)
(* with or without their effect and processes that die.                    *)
(***************************************************************************)
THEOREM NothingElseStrands ==
    ASSUME "database" \notin Faults PROVE Spec => []StrandedOnlyIfAbandoned
<1>1. RecordsAreKept => StrandedOnlyIfAbandoned
  BY DEF RecordsAreKept, StrandedOnlyIfAbandoned, HasTask
<1>2. PipelineInvariant /\ RecordsAreKept /\ [Next]_vars => RecordsAreKept'
  BY RecordsAreKeptStep
<1> QED BY <1>1, <1>2, RecordsAreKeptInit, InvariantHolds, PTL DEF Spec
=============================================================================
