----------------------- MODULE AgentConversationProofs -----------------------
(***************************************************************************)
(* Proofs about AgentConversation: for any sets of requests and processes  *)
(* and any length of a run.                                                *)
(***************************************************************************)
EXTENDS AgentConversation, WellFoundedInduction,
        FiniteSetTheorems, SequenceTheorems, TLAPS

(***************************************************************************)
(* A set of naturals that is not empty and has an upper bound contains its *)
(* maximum: the least of the upper bounds.                                 *)
(***************************************************************************)
LEMMA MaxIsGreatest ==
    ASSUME NEW S, S \subseteq Nat, S # {},
           NEW b \in Nat, \A x \in S : x <= b
    PROVE  Max(S) \in S /\ \A x \in S : x <= Max(S)
<1> DEFINE Bounds == {u \in Nat : \A x \in S : x <= u}
<1>1. PICK u \in Bounds : \A v \in Bounds : ~(<<v, u>> \in OpToRel(<, Nat))
  <2>1. Bounds \subseteq Nat /\ Bounds # {}
    OBVIOUS
  <2> QED
    BY <2>1, NatLessThanWellFounded, WFMin
<1>2. \A v \in Bounds : u <= v
  <2>1. SUFFICES ASSUME NEW v \in Bounds, v < u PROVE FALSE
    OBVIOUS
  <2>2. <<v, u>> \in {p \in Nat \X Nat : p[1] < p[2]}
    BY <2>1
  <2>3. <<v, u>> \in OpToRel(<, Nat)
    BY <2>2, Zenon DEF OpToRel
  <2> QED
    BY <1>1, <2>3
<1>3. u \in S
  <2>1. SUFFICES ASSUME u \notin S PROVE FALSE
    OBVIOUS
  <2>2. u \in Int /\ \A x \in S : x \in Nat /\ x < u
    BY <2>1
  <2>3. PICK x \in S : TRUE
    OBVIOUS
  <2>4. u - 1 \in Nat
    BY <2>2, <2>3
  <2>5. u - 1 \in Bounds
    BY <2>2, <2>4
  <2> QED
    BY <1>2, <2>2, <2>5
<1>4. \E m \in S : \A x \in S : m >= x
  BY <1>3
<1> QED
  BY <1>4 DEF Max

-----------------------------------------------------------------------------
(***************************************************************************)
(* The number that a handler reads is greater than all that are committed, *)
(* and not greater than the id that the database gives out next.           *)
(***************************************************************************)
LEMMA NextNumberIsFree ==
    ASSUME TypeOK, IdsGrow
    PROVE  /\ NextNumber \in 1..nextMessage
           /\ \A m \in messages : m.number < NextNumber
<1> DEFINE Taken == {0} \cup {m.number : m \in messages}
<1>1. /\ Taken \subseteq Nat /\ Taken # {}
      /\ nextMessage - 1 \in Nat
      /\ \A x \in Taken : x <= nextMessage - 1
  BY DEF TypeOK, IdsGrow, MessageRows
<1>2. Max(Taken) \in Taken /\ \A x \in Taken : x <= Max(Taken)
  BY <1>1, MaxIsGreatest
<1>3. NextNumber = Max(Taken) + 1
  BY DEF NextNumber
<1>4. Max(Taken) \in Nat /\ Max(Taken) <= nextMessage - 1 /\ nextMessage \in Nat
  BY <1>1, <1>2 DEF TypeOK
<1>5. \A m \in messages : m.number \in Nat /\ m.number <= Max(Taken)
  BY <1>1, <1>2
<1> HIDE DEF Taken
<1> QED
  BY <1>3, <1>4, <1>5

(***************************************************************************)
(* The cursor of a stream is the id of a message it has sent, or zero, and *)
(* no message that it has sent lies behind it.                             *)
(***************************************************************************)
LEMMA CursorIsGreatest ==
    ASSUME TypeOK, IdsGrow, NEW s \in Streams
    PROVE  /\ LastMessageId(s) \in Nat
           /\ \A n \in sent[s] : IsMessage(n) => n.id <= LastMessageId(s)
           /\ \/ LastMessageId(s) = 0
              \/ \E n \in sent[s] : IsMessage(n) /\ n.id = LastMessageId(s)
<1> DEFINE Shown == {r \in sent[s] : IsMessage(r)}
           Ids   == {0} \cup {m.id : m \in Shown}
<1>1. Shown \subseteq messages
  BY DEF TypeOK, IsMessage, EventRows
<1>2. /\ Ids \subseteq Nat /\ Ids # {}
      /\ nextMessage \in Nat
      /\ \A x \in Ids : x <= nextMessage
  BY <1>1 DEF TypeOK, IdsGrow, MessageRows
<1>3. Max(Ids) \in Ids /\ \A x \in Ids : x <= Max(Ids)
  BY <1>2, MaxIsGreatest
<1>4. LastMessageId(s) = Max(Ids)
  BY DEF LastMessageId
<1> QED
  BY <1>2, <1>3, <1>4

-----------------------------------------------------------------------------
(* The streams.                                                            *)

AskerState == <<tables, sequences, lock, askVars>>

(***************************************************************************)
(* Every step of a stream keeps all variables in their types.              *)
(***************************************************************************)
LEMMA StreamStepsKeepTypes ==
    ASSUME TypeOK, NEW s \in Streams,
           OpenStream(s) \/ StreamStep(s) \/ Disconnect(s)
    PROVE  TypeOK'
<1> USE DEF TypeOK, tables, sequences, askVars, flags
<1>1. CASE OpenStream(s)
  BY <1>1 DEF OpenStream
<1>2. CASE CheckRunning(s)
  BY <1>2 DEF CheckRunning
<1>3. CASE LoadMessages(s)
  BY <1>3 DEF LoadMessages
<1>4. CASE LoadSomething(s)
  BY <1>4 DEF LoadSomething, NewEvents
<1>5. CASE LoadNothing(s)
  BY <1>5 DEF LoadNothing, Counted, Ended
<1>6. CASE Send(s)
  BY <1>6 DEF Send
<1>7. CASE Disconnect(s)
  BY <1>7 DEF Disconnect, Ended
<1> QED
  BY <1>1, <1>2, <1>3, <1>4, <1>5, <1>6, <1>7 DEF StreamStep

(***************************************************************************)
(* A stream that loads, merges or sends skips no message: what it loads is *)
(* all that lies behind its cursor.                                        *)
(***************************************************************************)
LEMMA StreamStepsKeepUp ==
    ASSUME TypeOK, IdsGrow, CursorsKeepUp, NEW s \in Streams,
           OpenStream(s) \/ StreamStep(s) \/ Disconnect(s)
    PROVE  CursorsKeepUp'
<1> USE DEF tables, sequences, askVars, flags, IsMessage
<1> DEFINE Whole(rows) ==
              \A m \in messages : \A n \in rows :
                  IsMessage(n) /\ m.id <= n.id => m \in rows
<1>1. \A r \in Streams : Whole(sent[r]) /\ Whole(sent[r] \cup batch[r])
  BY DEF CursorsKeepUp
<1>2. SUFFICES messages' = messages
               /\ \A r \in Streams : /\ Whole(sent'[r])
                                      /\ Whole(sent'[r] \cup batch'[r])
  BY DEF CursorsKeepUp
<1>3. messages' = messages
  BY DEF OpenStream, StreamStep, Disconnect, CheckRunning, LoadMessages,
         LoadSomething, LoadNothing, Send
<1>4. CASE UNCHANGED <<sent, batch>>
  BY <1>1, <1>3, <1>4
<1>5. CASE LoadMessages(s)
  <2>1. messages \subseteq sent[s] \cup batch'[s]
    <3>1. SUFFICES ASSUME NEW m \in messages, ~(m.id > LastMessageId(s))
                   PROVE  m \in sent[s]
      BY <1>5 DEF LoadMessages, TypeOK
    <3>2. m.id \in Nat \ {0}
      BY DEF TypeOK, MessageRows
    <3>3. PICK n \in sent[s] : IsMessage(n) /\ n.id = LastMessageId(s)
      BY <3>1, <3>2, CursorIsGreatest
    <3> QED
      BY <1>1, <3>1, <3>2, <3>3, CursorIsGreatest
  <2>2. sent' = sent /\ \A r \in Streams \ {s} : batch'[r] = batch[r]
    BY <1>5 DEF LoadMessages, TypeOK
  <2> QED
    BY <1>1, <1>3, <2>1, <2>2
<1>6. CASE LoadSomething(s)
  <2>1. /\ sent' = sent /\ \A r \in Streams \ {s} : batch'[r] = batch[r]
        /\ batch'[s] = batch[s] \cup NewEvents(s)
    BY <1>6 DEF LoadSomething, TypeOK
  <2>2. \A e \in NewEvents(s) : ~IsMessage(e)
    BY DEF NewEvents, TypeOK, EventRows
  <2> QED
    BY <1>1, <1>3, <2>1, <2>2
<1>7. CASE Send(s)
  <2>1. /\ sent'[s] = sent[s] \cup batch[s] /\ batch'[s] = {}
        /\ \A r \in Streams \ {s} : sent'[r] = sent[r] /\ batch'[r] = batch[r]
    BY <1>7 DEF Send, TypeOK
  <2> QED
    BY <1>1, <1>3, <2>1
<1> QED
  BY <1>4, <1>5, <1>6, <1>7
     DEF OpenStream, StreamStep, Disconnect, CheckRunning, LoadNothing

(***************************************************************************)
(* A step of a stream changes nothing that questions work on.              *)
(***************************************************************************)
LEMMA StreamStepsKeepInvariant ==
    ASSUME ConversationInvariant, NEW s \in Streams,
           OpenStream(s) \/ StreamStep(s) \/ Disconnect(s)
    PROVE  ConversationInvariant'
<1>1. UNCHANGED AskerState
  BY DEF AskerState, tables, sequences, askVars, OpenStream, StreamStep,
         Disconnect, CheckRunning, LoadMessages, LoadSomething, LoadNothing,
         Send
<1>2. TypeOK' /\ CursorsKeepUp'
  BY StreamStepsKeepTypes, StreamStepsKeepUp DEF ConversationInvariant
<1>3. LockIsHeld' /\ NumbersStayFree'
  BY <1>1 DEF ConversationInvariant, AskerState, tables, askVars, Numbering,
              LockIsHeld, NumbersStayFree
<1>4. DraftsFit' /\ EventsInStep'
  BY <1>1 DEF ConversationInvariant, AskerState, tables, askVars, DraftsFit,
              EventsInStep, Recorded
<1>5. IdsGrow'
  BY <1>1 DEF ConversationInvariant, AskerState, tables, sequences, askVars,
              Numbering, IdsGrow
<1>6. QuestionsAreUnique' /\ HistoriesStayWhole'
  BY <1>1 DEF ConversationInvariant, AskerState, tables, askVars, Started,
              Asks, Question, QuestionsAreUnique, HistoriesStayWhole
<1> QED
  BY <1>2, <1>3, <1>4, <1>5, <1>6 DEF ConversationInvariant

-----------------------------------------------------------------------------
(* The questions.                                                          *)

(***************************************************************************)
(* A run that has not recorded its terminal event has a number left for    *)
(* the next one.                                                           *)
(***************************************************************************)
LEMMA NextEventFits ==
    ASSUME EventsInStep, ConversationAssumption,
           NEW q \in Questions, pc[q] = "working"
    PROVE  Cardinality(Recorded(q)) + 1 \in 1..LastEvent
<1>1. IsFiniteSet(Recorded(q))
  BY FS_Subset DEF EventsInStep, Recorded
<1> QED
  BY <1>1, FS_CardinalityType DEF EventsInStep, ConversationAssumption

QuestionMoves(q) == Ask(q) \/ QuestionStep(q) \/ Raise(q)

(***************************************************************************)
(* Every step of a question keeps all variables in their types.            *)
(***************************************************************************)
LEMMA QuestionStepsKeepTypes ==
    ASSUME TypeOK, DraftsFit, EventsInStep, IdsGrow, ConversationAssumption,
           NEW q \in Questions, QuestionMoves(q)
    PROVE  TypeOK'
<1> USE DEF TypeOK, Positions, Answered, Move, Goto, streamVars, flags
<1>1. CASE Ask(q)
  BY <1>1 DEF Ask, tables, sequences
<1>2. CASE LockSession(q)
  BY <1>2, NextNumberIsFree DEF LockSession, tables, sequences
<1>3. CASE InsertMessage(q)
  <2>1. number[q] \in Nat \ {0}
    BY <1>3 DEF InsertMessage, IdsGrow, Numbering
  <2>2. draft'[q] \in MessageRows
    BY <1>3, <2>1 DEF InsertMessage, MessageRows
  <2> QED
    BY <1>3, <2>2 DEF InsertMessage, tables
<1>4. CASE CommitQuestion(q)
  BY <1>4 DEF CommitQuestion, DraftsFit, sequences
<1>5. CASE StartRun(q)
  BY <1>5 DEF StartRun, tables, sequences
<1>6. CASE InsertEvent(q)
  <2>1. Cardinality(Recorded(q)) + 1 \in 1..LastEvent
    BY <1>6, NextEventFits DEF InsertEvent
  <2>2. draft'[q] \in EventRows
    BY <1>6, <2>1 DEF InsertEvent, EventRows
  <2> QED
    BY <1>6, <2>2 DEF InsertEvent, tables
<1>7. CASE CommitEvent(q)
  BY <1>7 DEF CommitEvent, DraftsFit, sequences
<1>8. CASE CommitAnswer(q)
  BY <1>8 DEF CommitAnswer, DraftsFit, sequences
<1>9. CASE Raise(q)
  BY <1>9 DEF Raise, tables, sequences
<1> QED
  BY <1>1, <1>2, <1>3, <1>4, <1>5, <1>6, <1>7, <1>8, <1>9
     DEF QuestionMoves, QuestionStep

(* A step of a question leaves the other questions and the streams alone.  *)
OthersStay(q) ==
    /\ \A o \in Questions \ {q} : /\ pc'[o] = pc[o] /\ number'[o] = number[o]
                                  /\ draft'[o] = draft[o]
                                  /\ history'[o] = history[o]
    /\ sent' = sent /\ batch' = batch

(***************************************************************************)
(* The steps of a question keep to the question itself and to the tables.  *)
(***************************************************************************)
LEMMA QuestionStepsAreLocal ==
    ASSUME TypeOK, NEW q \in Questions, QuestionMoves(q)
    PROVE  OthersStay(q)
BY DEF TypeOK, OthersStay, QuestionMoves, QuestionStep, Ask, LockSession,
       InsertMessage, CommitQuestion, StartRun, InsertEvent, CommitEvent,
       CommitAnswer, Raise, Move, Goto, streamVars

(* Positions in which the terminal event of the run is not yet to come.    *)
Early == {"idle", "locking", "asking", "asked", "starting", "working"}

(***************************************************************************)
(* Steps that commit and draw no event keep the events of a run in step.   *)
(***************************************************************************)
LEMMA EventsStayInStep ==
    ASSUME EventsInStep, events' = events,
           \A o \in Questions :
               /\ pc'[o] \in Early => pc[o] \in Early
               /\ pc'[o] = "recording" => /\ pc[o] = "recording"
                                          /\ draft'[o] = draft[o]
    PROVE  EventsInStep'
<1>1. \A o \in Questions : Recorded(o)' = Recorded(o)
  BY DEF Recorded
<1> QED
  BY <1>1 DEF EventsInStep, Early

(***************************************************************************)
(* A committed event is the next of its run, and after the terminal one    *)
(* the run records none (_persist_live_run_event).                         *)
(***************************************************************************)
LEMMA CommittedEventsAreCounted ==
    ASSUME EventsInStep, NEW q \in Questions, pc[q] = "recording",
           draft[q].step \in Nat, LastEvent \in Nat, events \subseteq EventRows,
           events' = events \cup {draft[q]},
           pc'[q] = IF draft[q].step = LastEvent THEN "relocking" ELSE "working",
           \A o \in Questions \ {q} : pc'[o] = pc[o] /\ draft'[o] = draft[o]
    PROVE  EventsInStep'
<1> DEFINE e == draft[q]
<1>1. /\ e.of = q /\ e.step = Cardinality(Recorded(q)) + 1
      /\ e.step <= LastEvent
  BY DEF EventsInStep
<1>2. /\ Recorded(q)' = Recorded(q) \cup {e}
      /\ \A o \in Questions \ {q} : Recorded(o)' = Recorded(o)
  BY <1>1 DEF Recorded
<1>3. IsFiniteSet(events') /\ IsFiniteSet(Recorded(q))
  BY FS_AddElement, FS_Subset DEF EventsInStep, Recorded
<1>4. Cardinality(Recorded(q)) \in Nat
  BY <1>3, FS_CardinalityType
<1>5. e \notin Recorded(q)
  BY <1>1, <1>4 DEF EventsInStep
<1>6. Cardinality(Recorded(q)') = Cardinality(Recorded(q)) + 1
  BY <1>2, <1>3, <1>5, FS_AddElement
<1>7. \A r \in Recorded(q)' : r.step <= Cardinality(Recorded(q)')
  BY <1>1, <1>2, <1>4, <1>6 DEF EventsInStep, EventRows, Recorded
<1>8. pc'[q] \in Early => Cardinality(Recorded(q)') < LastEvent
  BY <1>1, <1>6 DEF Early
<1>9. pc'[q] # "recording"
  OBVIOUS
<1> HIDE DEF e
<1>10. ASSUME NEW o \in Questions
       PROVE  /\ \A r \in Recorded(o)' : r.step <= Cardinality(Recorded(o)')
              /\ pc'[o] \in Early => Cardinality(Recorded(o)') < LastEvent
              /\ pc'[o] = "recording" =>
                    /\ draft'[o].of = o
                    /\ draft'[o].step = Cardinality(Recorded(o)') + 1
                    /\ draft'[o].step <= LastEvent
  <2>1. CASE o = q
    BY <1>7, <1>8, <1>9, <2>1
  <2>2. CASE o # q
    <3>1. /\ Recorded(o)' = Recorded(o)
          /\ pc'[o] = pc[o] /\ draft'[o] = draft[o]
      BY <1>2, <2>2
    <3> QED
      BY <3>1 DEF EventsInStep, Early
  <2> QED
    BY <2>1, <2>2
<1> QED
  BY <1>3, <1>10 DEF EventsInStep, Early

(***************************************************************************)
(* The message that a handler is about to commit is the last one, by its   *)
(* id and by its number, and no other handler is about to commit one.      *)
(***************************************************************************)
LEMMA DraftIsLast ==
    ASSUME TypeOK, LockIsHeld, DraftsFit, IdsGrow, NumbersStayFree,
           NEW q \in Questions, pc[q] \in {"asked", "answered"}
    PROVE  /\ draft[q] \in MessageRows
           /\ draft[q].number <= draft[q].id /\ draft[q].id < nextMessage
           /\ \A m \in messages : /\ m.id < draft[q].id
                                   /\ m.number < draft[q].number
           /\ \A o \in Questions \ {q} : ~Numbering(o)
<1>1. Numbering(q)
  BY DEF Numbering
<1> QED
  BY <1>1 DEF LockIsHeld, DraftsFit, IdsGrow, NumbersStayFree

(***************************************************************************)
(* A committed message lies behind everything that streams have read and   *)
(* behind every question that has been asked.                              *)
(***************************************************************************)
LEMMA CommitsComeLast ==
    ASSUME ConversationInvariant, NEW q \in Questions,
           pc[q] \in {"asked", "answered"},
           messages' = messages \cup {draft[q]}, sent' = sent, batch' = batch
    PROVE  /\ CursorsKeepUp'
           /\ \A o \in Questions : \A m \in messages : Asks(m, o) =>
                 {n \in messages' : n.number < m.number}
                    = {n \in messages : n.number < m.number}
<1>1. /\ TypeOK /\ LockIsHeld /\ DraftsFit /\ IdsGrow /\ NumbersStayFree
      /\ CursorsKeepUp
  BY DEF ConversationInvariant
<1>2. /\ draft[q] \in MessageRows
      /\ \A m \in messages : /\ m.id < draft[q].id
                              /\ m.number < draft[q].number
  BY <1>1, DraftIsLast
<1>3. \A m \in messages : m.id \in Nat /\ m.number \in Nat
  BY <1>1 DEF TypeOK, MessageRows
<1>4. draft[q].id \in Nat /\ draft[q].number \in Nat
  BY <1>2 DEF MessageRows
<1>5. \A s \in Streams : \A n \in sent[s] \cup batch[s] :
          IsMessage(n) => n \in messages
  BY <1>1 DEF TypeOK, IsMessage, EventRows
<1>6. CursorsKeepUp'
  BY <1>1, <1>2, <1>3, <1>4, <1>5 DEF CursorsKeepUp, IsMessage
<1>7. \A m \in messages : ~(draft[q].number < m.number)
  BY <1>2, <1>3, <1>4
<1> QED
  BY <1>6, <1>7

(***************************************************************************)
(* A commit leaves every question that was asked the only one of its name  *)
(* and what lies before it what it was.                                    *)
(***************************************************************************)
LEMMA AskedQuestionsStay ==
    ASSUME ConversationInvariant, NEW q \in Questions,
           pc[q] \in {"asked", "answered"},
           messages' = messages \cup {draft[q]}, sent' = sent, batch' = batch,
           \A o \in Questions : history'[o] = history[o],
           \A o \in Questions \ {q} : pc'[o] = pc[o],
           pc'[q] = IF pc[q] = "asked" THEN "starting" ELSE "replied"
    PROVE  QuestionsAreUnique' /\ HistoriesStayWhole'
<1>1. /\ TypeOK /\ LockIsHeld /\ DraftsFit /\ IdsGrow /\ NumbersStayFree
      /\ QuestionsAreUnique /\ HistoriesStayWhole
  BY DEF ConversationInvariant
<1>2. Asks(draft[q], q) <=> pc[q] = "asked"
  BY <1>1 DEF DraftsFit, Asks
<1>3. \A o \in Questions \ {q} : ~Asks(draft[q], o)
  BY <1>1 DEF DraftsFit, Asks
<1>4. QuestionsAreUnique'
  BY <1>1, <1>2, <1>3 DEF QuestionsAreUnique, Started, Asks
<1>5. ASSUME NEW o \in Questions, Started(o)'
      PROVE  history'[o] = {m \in messages' : m.number < Question(o)'.number}
  <2>1. Started(o)
    BY <1>5 DEF Started
  <2>2. PICK m \in messages : Asks(m, o)
    BY <1>1, <2>1 DEF QuestionsAreUnique
  <2>3. Question(o) = m
    BY <1>1, <2>2 DEF QuestionsAreUnique, Question, Asks
  <2>4. Question(o)' = m
    BY <1>4, <2>2 DEF QuestionsAreUnique, Question, Asks
  <2> QED
    BY <1>1, <2>1, <2>2, <2>3, <2>4, CommitsComeLast DEF HistoriesStayWhole
<1> QED
  BY <1>4, <1>5 DEF HistoriesStayWhole

(***************************************************************************)
(* Every step of a question keeps the invariant (create_message).          *)
(***************************************************************************)
LEMMA QuestionStepsKeepInvariant ==
    ASSUME ConversationInvariant, ConversationAssumption,
           NEW q \in Questions, QuestionMoves(q)
    PROVE  ConversationInvariant'
<1> USE DEF Move, Goto, tables, sequences, askVars
<1>1. /\ TypeOK /\ LockIsHeld /\ DraftsFit /\ EventsInStep /\ IdsGrow
      /\ NumbersStayFree /\ QuestionsAreUnique /\ HistoriesStayWhole
      /\ CursorsKeepUp /\ OthersStay(q) /\ TypeOK'
  BY QuestionStepsAreLocal, QuestionStepsKeepTypes DEF ConversationInvariant
<1>2. CASE Ask(q)
  <2>1. LockIsHeld' /\ NumbersStayFree'
    BY <1>1, <1>2
       DEF Ask, OthersStay, TypeOK, LockIsHeld, NumbersStayFree, Numbering
  <2>2. DraftsFit'
    BY <1>1, <1>2 DEF Ask, OthersStay, TypeOK, DraftsFit
  <2>3. EventsInStep'
    BY <1>1, <1>2, EventsStayInStep DEF Ask, OthersStay, TypeOK, Early
  <2>4. IdsGrow'
    BY <1>1, <1>2 DEF Ask, OthersStay, TypeOK, IdsGrow, Numbering
  <2>5. QuestionsAreUnique' /\ HistoriesStayWhole'
    BY <1>1, <1>2
       DEF Ask, OthersStay, TypeOK, QuestionsAreUnique, HistoriesStayWhole,
           Started, Asks, Question
  <2>6. CursorsKeepUp'
    BY <1>1, <1>2 DEF Ask, OthersStay, TypeOK, CursorsKeepUp
  <2> QED
    BY <1>1, <2>1, <2>2, <2>3, <2>4, <2>5, <2>6 DEF ConversationInvariant
<1>3. CASE LockSession(q)
  <2>1. LockIsHeld' /\ NumbersStayFree'
    BY <1>1, <1>3, NextNumberIsFree
       DEF LockSession, OthersStay, TypeOK, LockIsHeld, NumbersStayFree,
           Numbering
  <2>2. DraftsFit'
    BY <1>1, <1>3 DEF LockSession, OthersStay, TypeOK, DraftsFit
  <2>3. EventsInStep'
    BY <1>1, <1>3, EventsStayInStep
       DEF LockSession, OthersStay, TypeOK, Early
  <2>4. IdsGrow'
    BY <1>1, <1>3, NextNumberIsFree
       DEF LockSession, OthersStay, TypeOK, IdsGrow, Numbering
  <2>5. QuestionsAreUnique' /\ HistoriesStayWhole'
    BY <1>1, <1>3
       DEF LockSession, OthersStay, TypeOK, QuestionsAreUnique,
           HistoriesStayWhole, Started, Asks, Question
  <2>6. CursorsKeepUp'
    BY <1>1, <1>3 DEF LockSession, OthersStay, TypeOK, CursorsKeepUp
  <2> QED
    BY <1>1, <2>1, <2>2, <2>3, <2>4, <2>5, <2>6 DEF ConversationInvariant
<1>4. CASE InsertMessage(q)
  <2>0. /\ draft'[q].id = nextMessage /\ draft'[q].number = number[q]
        /\ draft'[q].of = q /\ draft'[q] \in MessageRows
        /\ draft'[q].role = IF pc[q] = "asking" THEN "user" ELSE "assistant"
        /\ number[q] \in 1..nextMessage
    BY <1>1, <1>4 DEF InsertMessage, TypeOK, IdsGrow, Numbering, MessageRows
  <2>1. LockIsHeld' /\ NumbersStayFree'
    BY <1>1, <1>4
       DEF InsertMessage, OthersStay, TypeOK, LockIsHeld, NumbersStayFree,
           Numbering
  <2>2. DraftsFit'
    BY <1>1, <1>4, <2>0 DEF InsertMessage, OthersStay, TypeOK, DraftsFit
  <2>3. EventsInStep'
    BY <1>1, <1>4, EventsStayInStep
       DEF InsertMessage, OthersStay, TypeOK, Early
  <2>4. IdsGrow'
    BY <1>1, <1>4, <2>0
       DEF InsertMessage, OthersStay, TypeOK, LockIsHeld, IdsGrow,
           Numbering,
           MessageRows
  <2>5. QuestionsAreUnique' /\ HistoriesStayWhole'
    <3>1. QuestionsAreUnique'
      BY <1>1, <1>4
         DEF InsertMessage, OthersStay, TypeOK, QuestionsAreUnique, Started, Asks
    <3>2. messages' = messages /\ history' = history
      BY <1>4 DEF InsertMessage
    <3>3. /\ pc[q] \in {"asking", "answering"} /\ pc'[q] \in {"asked", "answered"}
          /\ pc[q] = "asking" => pc'[q] = "asked"
      BY <1>1, <1>4 DEF InsertMessage, TypeOK
    <3>4. \A o \in Questions : Started(o)' => Started(o)
      BY <1>1, <3>3 DEF OthersStay, Started
    <3>5. \A o : Question(o)' = Question(o)
      BY <3>2 DEF Question
    <3>6. HistoriesStayWhole'
      BY <1>1, <3>2, <3>5, <3>4 DEF HistoriesStayWhole
    <3> QED
      BY <3>1, <3>6
  <2>6. CursorsKeepUp'
    BY <1>1, <1>4 DEF InsertMessage, OthersStay, TypeOK, CursorsKeepUp
  <2> QED
    BY <1>1, <2>1, <2>2, <2>3, <2>4, <2>5, <2>6 DEF ConversationInvariant
<1>5. CASE CommitQuestion(q)
  <2>1. LockIsHeld' /\ NumbersStayFree'
    BY <1>1, <1>5
       DEF CommitQuestion, OthersStay, TypeOK, LockIsHeld, NumbersStayFree,
           Numbering
  <2>2. DraftsFit'
    BY <1>1, <1>5 DEF CommitQuestion, OthersStay, TypeOK, DraftsFit
  <2>3. EventsInStep'
    BY <1>1, <1>5, EventsStayInStep
       DEF CommitQuestion, OthersStay, TypeOK, Early
  <2>4. IdsGrow'
    BY <1>1, <1>5, DraftIsLast
       DEF CommitQuestion, OthersStay, TypeOK, IdsGrow, Numbering,
           MessageRows
  <2>5. QuestionsAreUnique' /\ HistoriesStayWhole'
    BY <1>1, <1>5, AskedQuestionsStay, DraftIsLast
       DEF CommitQuestion, OthersStay, DraftsFit, TypeOK, Started
  <2>6. CursorsKeepUp'
    BY <1>1, <1>5, CommitsComeLast DEF CommitQuestion, OthersStay
  <2> QED
    BY <1>1, <2>1, <2>2, <2>3, <2>4, <2>5, <2>6 DEF ConversationInvariant
<1>6. CASE StartRun(q)
  <2>1. LockIsHeld' /\ NumbersStayFree'
    BY <1>1, <1>6
       DEF StartRun, OthersStay, TypeOK, LockIsHeld, NumbersStayFree,
           Numbering
  <2>2. DraftsFit'
    BY <1>1, <1>6 DEF StartRun, OthersStay, TypeOK, DraftsFit
  <2>3. EventsInStep'
    BY <1>1, <1>6, EventsStayInStep DEF StartRun, OthersStay, TypeOK, Early
  <2>4. IdsGrow'
    BY <1>1, <1>6 DEF StartRun, OthersStay, TypeOK, IdsGrow, Numbering
  <2>5. QuestionsAreUnique' /\ HistoriesStayWhole'
    BY <1>1, <1>6
       DEF StartRun, OthersStay, TypeOK, QuestionsAreUnique,
           HistoriesStayWhole, Started, Asks, Question
  <2>6. CursorsKeepUp'
    BY <1>1, <1>6 DEF StartRun, OthersStay, TypeOK, CursorsKeepUp
  <2> QED
    BY <1>1, <2>1, <2>2, <2>3, <2>4, <2>5, <2>6 DEF ConversationInvariant
<1>7. CASE InsertEvent(q)
  <2>0. /\ draft'[q].of = q /\ draft'[q].step = Cardinality(Recorded(q)) + 1
        /\ draft'[q].step \in 1..LastEvent
        /\ draft'[q] \in EventRows
    BY <1>1, <1>7, NextEventFits DEF InsertEvent, TypeOK, EventRows
  <2>1. LockIsHeld' /\ NumbersStayFree'
    BY <1>1, <1>7
       DEF InsertEvent, OthersStay, TypeOK, LockIsHeld, NumbersStayFree,
           Numbering
  <2>2. DraftsFit'
    BY <1>1, <1>7, <2>0 DEF InsertEvent, OthersStay, DraftsFit, EventRows
  <2>3. EventsInStep'
    <3>1. \A o \in Questions : Recorded(o)' = Recorded(o)
      BY <1>7 DEF InsertEvent, Recorded
    <3> QED
      BY <1>1, <1>7, <2>0, <3>1 DEF InsertEvent, OthersStay, EventsInStep
  <2>4. IdsGrow'
    BY <1>1, <1>7 DEF InsertEvent, OthersStay, TypeOK, IdsGrow, Numbering
  <2>5. QuestionsAreUnique' /\ HistoriesStayWhole'
    BY <1>1, <1>7
       DEF InsertEvent, OthersStay, TypeOK, QuestionsAreUnique,
           HistoriesStayWhole, Started, Asks, Question
  <2>6. CursorsKeepUp'
    BY <1>1, <1>7 DEF InsertEvent, OthersStay, TypeOK, CursorsKeepUp
  <2> QED
    BY <1>1, <2>1, <2>2, <2>3, <2>4, <2>5, <2>6 DEF ConversationInvariant
<1>8. CASE CommitEvent(q)
  <2>1. LockIsHeld' /\ NumbersStayFree'
    BY <1>1, <1>8
       DEF CommitEvent, OthersStay, TypeOK, LockIsHeld, NumbersStayFree,
           Numbering
  <2>2. DraftsFit'
    BY <1>1, <1>8 DEF CommitEvent, OthersStay, TypeOK, DraftsFit
  <2>3. EventsInStep'
    <3>1. draft[q].step \in Nat /\ LastEvent \in Nat
      BY <1>1, <1>8 DEF CommitEvent, DraftsFit, EventRows,
                        ConversationAssumption
    <3>2. /\ pc[q] = "recording" /\ events' = events \cup {draft[q]}
          /\ pc'[q] = IF draft[q].step = LastEvent THEN "relocking"
                                                    ELSE "working"
      BY <1>1, <1>8 DEF CommitEvent, TypeOK
    <3>3. /\ events \subseteq EventRows
          /\ \A o \in Questions \ {q} : /\ pc'[o] = pc[o]
                                        /\ draft'[o] = draft[o]
      BY <1>1 DEF OthersStay, TypeOK
    <3> QED
      BY <1>1, <3>1, <3>2, <3>3, CommittedEventsAreCounted
  <2>4. IdsGrow'
    BY <1>1, <1>8 DEF CommitEvent, OthersStay, TypeOK, IdsGrow, Numbering
  <2>5. QuestionsAreUnique' /\ HistoriesStayWhole'
    BY <1>1, <1>8
       DEF CommitEvent, OthersStay, TypeOK, QuestionsAreUnique,
           HistoriesStayWhole, Started, Asks, Question
  <2>6. CursorsKeepUp'
    BY <1>1, <1>8 DEF CommitEvent, OthersStay, TypeOK, CursorsKeepUp
  <2> QED
    BY <1>1, <2>1, <2>2, <2>3, <2>4, <2>5, <2>6 DEF ConversationInvariant
<1>9. CASE CommitAnswer(q)
  <2>1. LockIsHeld' /\ NumbersStayFree'
    BY <1>1, <1>9
       DEF CommitAnswer, OthersStay, TypeOK, LockIsHeld, NumbersStayFree,
           Numbering
  <2>2. DraftsFit'
    BY <1>1, <1>9 DEF CommitAnswer, OthersStay, TypeOK, DraftsFit
  <2>3. EventsInStep'
    BY <1>1, <1>9, EventsStayInStep
       DEF CommitAnswer, OthersStay, TypeOK, Early
  <2>4. IdsGrow'
    BY <1>1, <1>9, DraftIsLast
       DEF CommitAnswer, OthersStay, TypeOK, IdsGrow, Numbering, MessageRows
  <2>5. QuestionsAreUnique' /\ HistoriesStayWhole'
    BY <1>1, <1>9, AskedQuestionsStay, DraftIsLast
       DEF CommitAnswer, OthersStay, DraftsFit, TypeOK, Started
  <2>6. CursorsKeepUp'
    BY <1>1, <1>9, CommitsComeLast DEF CommitAnswer, OthersStay
  <2> QED
    BY <1>1, <2>1, <2>2, <2>3, <2>4, <2>5, <2>6 DEF ConversationInvariant
<1>10. CASE Raise(q)
  <2>1. LockIsHeld' /\ NumbersStayFree'
    BY <1>1, <1>10
       DEF Raise, OthersStay, TypeOK, LockIsHeld, NumbersStayFree, Numbering
  <2>2. DraftsFit'
    BY <1>1, <1>10 DEF Raise, OthersStay, TypeOK, DraftsFit
  <2>3. EventsInStep'
    BY <1>1, <1>10, EventsStayInStep DEF Raise, OthersStay, TypeOK, Early
  <2>4. IdsGrow'
    BY <1>1, <1>10 DEF Raise, OthersStay, TypeOK, IdsGrow, Numbering
  <2>5. QuestionsAreUnique' /\ HistoriesStayWhole'
    BY <1>1, <1>10
       DEF Raise, OthersStay, TypeOK, QuestionsAreUnique,
           HistoriesStayWhole, Started, Asks, Question
  <2>6. CursorsKeepUp'
    BY <1>1, <1>10 DEF Raise, OthersStay, TypeOK, CursorsKeepUp
  <2> QED
    BY <1>1, <2>1, <2>2, <2>3, <2>4, <2>5, <2>6 DEF ConversationInvariant
<1> QED
  BY <1>2, <1>3, <1>4, <1>5, <1>6, <1>7, <1>8, <1>9, <1>10
     DEF QuestionMoves, QuestionStep

-----------------------------------------------------------------------------
(***************************************************************************)
(* A new session satisfies the invariant.                                  *)
(***************************************************************************)
LEMMA InitEstablishesInvariant ==
    ASSUME Init, ConversationAssumption
    PROVE  ConversationInvariant
<1> USE DEF Init
<1>1. TypeOK
  BY DEF TypeOK, Positions, Answered
<1>2. LockIsHeld /\ DraftsFit /\ NumbersStayFree
  BY DEF LockIsHeld, DraftsFit, NumbersStayFree, Numbering,
         ConversationAssumption
<1>3. EventsInStep
  <2>1. \A q \in Questions : Recorded(q) = {}
    BY DEF Recorded
  <2>2. IsFiniteSet(events) /\ Cardinality({}) = 0
    BY FS_EmptySet
  <2>3. 0 < LastEvent
    BY DEF ConversationAssumption
  <2> QED
    BY <2>1, <2>2, <2>3 DEF EventsInStep
<1>4. IdsGrow /\ QuestionsAreUnique /\ HistoriesStayWhole /\ CursorsKeepUp
  BY DEF IdsGrow, QuestionsAreUnique, HistoriesStayWhole, CursorsKeepUp,
         Numbering, Started
<1> QED
  BY <1>1, <1>2, <1>3, <1>4 DEF ConversationInvariant

(***************************************************************************)
(* The invariant speaks of nothing but the variables.                      *)
(***************************************************************************)
LEMMA StutteringKeepsInvariant ==
    ASSUME ConversationInvariant, UNCHANGED vars
    PROVE  ConversationInvariant'
<1> USE DEF vars, tables, sequences, askVars, streamVars, flags,
            ConversationInvariant
<1>1. TypeOK'
  BY DEF TypeOK
<1>2. LockIsHeld' /\ NumbersStayFree' /\ DraftsFit' /\ IdsGrow'
  BY DEF LockIsHeld, NumbersStayFree, DraftsFit, IdsGrow, Numbering
<1>3. EventsInStep'
  BY DEF EventsInStep, Recorded
<1>4. QuestionsAreUnique' /\ HistoriesStayWhole' /\ CursorsKeepUp'
  BY
     DEF QuestionsAreUnique, HistoriesStayWhole, CursorsKeepUp, Started,
         Asks,
         Question
<1> QED
  BY <1>1, <1>2, <1>3, <1>4

(***************************************************************************)
(* The inductive invariant of a session: locks, drafts, ids, numbers,      *)
(* histories and cursors hang together in every reachable state, with any  *)
(* number of processes and whatever raises (create_message,                *)
(* stream_events).                                                         *)
(***************************************************************************)
THEOREM ConversationInvariantHolds == Spec => []ConversationInvariant
<1>1. Init => ConversationInvariant
  BY InitEstablishesInvariant, ConversationAssumption
<1>2. ConversationInvariant /\ [Next]_vars => ConversationInvariant'
  <2>1. SUFFICES ASSUME ConversationInvariant, [Next]_vars
                 PROVE  ConversationInvariant'
    OBVIOUS
  <2>2. CASE UNCHANGED vars
    BY <2>1, <2>2, StutteringKeepsInvariant
  <2>3. CASE \E q \in Questions : QuestionMoves(q)
    BY <2>1, <2>3, QuestionStepsKeepInvariant, ConversationAssumption
  <2>4. CASE \E s \in Streams : OpenStream(s) \/ StreamStep(s) \/ Disconnect(s)
    BY <2>1, <2>4, StreamStepsKeepInvariant
  <2> QED
    BY <2>1, <2>2, <2>3, <2>4 DEF Next, QuestionMoves
<1> QED
  BY <1>1, <1>2, PTL DEF Spec

(***************************************************************************)
(* The number that a handler has read stays free until its message is      *)
(* committed (_next_message_sequence).                                     *)
(***************************************************************************)
THEOREM NumbersFree == Spec => []NumbersStayFree
<1>1. ConversationInvariant => NumbersStayFree
  BY DEF ConversationInvariant
<1> QED
  BY <1>1, ConversationInvariantHolds, PTL

(***************************************************************************)
(* What the prompt of a run told of the conversation stays the whole of    *)
(* what lies before its question (_build_session_history).                 *)
(***************************************************************************)
THEOREM HistoriesWhole == Spec => []HistoriesStayWhole
<1>1. ConversationInvariant => HistoriesStayWhole
  BY DEF ConversationInvariant
<1> QED
  BY <1>1, ConversationInvariantHolds, PTL

(***************************************************************************)
(* The cursor of a stream passes over no message (_load_stream_envelopes). *)
(***************************************************************************)
THEOREM NoMessageSkipped == Spec => []NoMessageIsSkipped
<1>1. ConversationInvariant => NoMessageIsSkipped
  <2>1. SUFFICES ASSUME ConversationInvariant, NEW s \in Streams,
                        NEW m \in messages, m.id <= LastMessageId(s)
                 PROVE  m \in sent[s]
    BY DEF NoMessageIsSkipped
  <2>2. TypeOK /\ IdsGrow /\ CursorsKeepUp
    BY <2>1 DEF ConversationInvariant
  <2>3. m.id \in Nat \ {0}
    BY <2>2 DEF TypeOK, MessageRows
  <2>4. PICK n \in sent[s] : IsMessage(n) /\ n.id = LastMessageId(s)
    BY <2>1, <2>2, <2>3, CursorIsGreatest
  <2> QED
    BY <2>1, <2>2, <2>4 DEF CursorsKeepUp
<1> QED
  BY <1>1, ConversationInvariantHolds, PTL

-----------------------------------------------------------------------------
(* What streams show of the answers.                                       *)

(***************************************************************************)
(* A question leaves "running" only together with its answer.              *)
(***************************************************************************)
LEMMA QuestionsKeepAnswers ==
    ASSUME ConversationInvariant, AnswersAreSeen, NEW q \in Questions,
           QuestionMoves(q)
    PROVE  AnswersAreSeen'
<1>1. UNCHANGED <<spc, runningSeen, sent, batch>>
  BY DEF QuestionMoves, QuestionStep, Ask, LockSession, InsertMessage,
         CommitQuestion, StartRun, InsertEvent, CommitEvent, CommitAnswer,
         Raise, streamVars, flags
<1>2. \/ UNCHANGED <<messages, running>>
      \/ /\ messages' = messages \cup {draft[q]} /\ running' = running \cup {q}
         /\ draft[q].of = q /\ draft[q].role = "user"
      \/ /\ messages' = messages \cup {draft[q]} /\ running' = running \ {q}
         /\ draft[q].of = q /\ draft[q].role = "assistant"
         /\ IsMessage(draft[q])
  BY DEF QuestionMoves, QuestionStep, Ask, LockSession, InsertMessage,
         CommitQuestion, StartRun, InsertEvent, CommitEvent, CommitAnswer,
         Raise, tables, Move, ConversationInvariant, DraftsFit, IsMessage,
         MessageRows
<1>3. \A o : HasAnswer(o, messages) => HasAnswer(o, messages)'
  BY <1>2 DEF HasAnswer, IsMessage
<1>4. ASSUME NEW m \in messages', m.role = "user"
      PROVE  m.of \in running' \/ HasAnswer(m.of, messages)'
  <2>1. CASE m \in messages
    <3>1. m.of \in running \/ HasAnswer(m.of, messages)
      BY <1>4, <2>1 DEF AnswersAreSeen
    <3>2. CASE m.of \in running /\ m.of \notin running'
      BY <1>2, <3>2 DEF HasAnswer, IsMessage
    <3> QED BY <1>3, <3>1, <3>2
  <2>2. CASE m \notin messages
    BY <1>2, <1>4, <2>2
  <2> QED BY <2>1, <2>2
<1>5. ASSUME NEW s \in Streams, NEW m \in sent[s], IsMessage(m), m.role = "user"
      PROVE  /\ spc[s] = "loading" /\ ~runningSeen[s] => HasAnswer(m.of, messages)
             /\ spc[s] = "merging" /\ ~runningSeen[s]
                   => HasAnswer(m.of, sent[s] \cup batch[s])
             /\ spc[s] = "complete" => HasAnswer(m.of, sent[s])
  BY <1>5 DEF AnswersAreSeen
<1> QED BY <1>1, <1>3, <1>4, <1>5 DEF AnswersAreSeen, HasAnswer, IsMessage

(***************************************************************************)
(* A stream that has seen no run going on loads the answer of every        *)
(* question it has shown, and ends only with nothing left to send.         *)
(***************************************************************************)
LEMMA StreamsKeepAnswers ==
    ASSUME ConversationInvariant, AnswersAreSeen, NEW s \in Streams,
           OpenStream(s) \/ StreamStep(s) \/ Disconnect(s)
    PROVE  AnswersAreSeen'
<1>1. TypeOK /\ IdsGrow /\ CursorsKeepUp
  BY DEF ConversationInvariant
<1>2. UNCHANGED <<messages, running>>
  BY DEF OpenStream, StreamStep, Disconnect, CheckRunning, LoadMessages,
         LoadSomething, LoadNothing, Send, tables
<1>3. \A r \in Streams \ {s} :
          /\ spc'[r] = spc[r] /\ runningSeen'[r] = runningSeen[r]
          /\ sent'[r] = sent[r] /\ batch'[r] = batch[r]
  BY <1>1 DEF TypeOK, OpenStream, StreamStep, Disconnect, CheckRunning,
              LoadMessages, LoadSomething, LoadNothing, Send, flags
<1>4. ASSUME NEW m \in sent'[s], IsMessage(m), m.role = "user"
      PROVE  /\ spc'[s] = "loading" /\ ~runningSeen'[s] => HasAnswer(m.of, messages)
             /\ spc'[s] = "merging" /\ ~runningSeen'[s]
                   => HasAnswer(m.of, sent'[s] \cup batch'[s])
             /\ spc'[s] = "complete" => HasAnswer(m.of, sent'[s])
  <2>1. CASE CheckRunning(s)
    <3>1. m \in messages
      BY <1>1, <1>4, <2>1 DEF CheckRunning, TypeOK, IsMessage, EventRows
    <3>2. spc'[s] = "loading" /\ (runningSeen'[s] = (running # {}))
      BY <1>1, <2>1 DEF CheckRunning, TypeOK
    <3> QED BY <1>4, <3>1, <3>2 DEF AnswersAreSeen
  <2>2. CASE LoadMessages(s)
    <3>1. /\ spc[s] = "loading" /\ spc'[s] = "merging" /\ sent' = sent
          /\ runningSeen' = runningSeen
          /\ batch'[s] = {n \in messages : n.id > LastMessageId(s)}
      BY <1>1, <2>2 DEF LoadMessages, TypeOK, flags
    <3>2. ASSUME NEW n \in messages PROVE n \in sent[s] \cup batch'[s]
      <4>1. n.id \in Nat \ {0} /\ LastMessageId(s) \in Nat
        BY <1>1, CursorIsGreatest DEF TypeOK, MessageRows
      <4>2. CASE n.id <= LastMessageId(s)
        <5>1. PICK k \in sent[s] : IsMessage(k) /\ k.id = LastMessageId(s)
          BY <1>1, <4>1, <4>2, CursorIsGreatest
        <5> QED BY <1>1, <4>2, <5>1 DEF CursorsKeepUp
      <4> QED BY <3>1, <4>1, <4>2
    <3>3. ~runningSeen[s] => HasAnswer(m.of, messages)
      BY <1>4, <3>1 DEF AnswersAreSeen
    <3> QED BY <3>1, <3>2, <3>3 DEF HasAnswer
  <2>3. CASE LoadSomething(s)
    BY <1>1, <2>3 DEF LoadSomething, TypeOK
  <2>4. CASE LoadNothing(s)
    <3>1. /\ spc[s] = "merging" /\ spc'[s] \in {"complete", "gave_up", "polling"}
          /\ sent' = sent /\ batch[s] = {}
          /\ spc'[s] = "complete" => ~runningSeen[s]
      BY <1>1, <2>4 DEF LoadNothing, TypeOK, Done
    <3> QED BY <1>4, <3>1 DEF AnswersAreSeen
  <2>5. CASE Send(s)
    BY <1>1, <2>5 DEF Send, TypeOK
  <2>6. CASE OpenStream(s) \/ Disconnect(s)
    BY <1>1, <2>6 DEF OpenStream, Disconnect, TypeOK
  <2> QED BY <2>1, <2>2, <2>3, <2>4, <2>5, <2>6 DEF StreamStep
<1>5. ASSUME NEW r \in Streams, NEW m \in sent'[r], IsMessage(m), m.role = "user"
      PROVE  /\ spc'[r] = "loading" /\ ~runningSeen'[r] => HasAnswer(m.of, messages)
             /\ spc'[r] = "merging" /\ ~runningSeen'[r]
                   => HasAnswer(m.of, sent'[r] \cup batch'[r])
             /\ spc'[r] = "complete" => HasAnswer(m.of, sent'[r])
  BY <1>3, <1>4, <1>5 DEF AnswersAreSeen
<1>6. \A m \in messages :
         m.role = "user" => m.of \in running \/ HasAnswer(m.of, messages)
  BY DEF AnswersAreSeen
<1> QED BY <1>2, <1>5, <1>6 DEF AnswersAreSeen, HasAnswer, IsMessage

(***************************************************************************)
(* A stream that ends behind a terminal event has shown the answer of      *)
(* every question it has shown, for any number of processes, questions and *)
(* streams and whatever raises (stream_events).                            *)
(***************************************************************************)
THEOREM CompleteShowsAnswers == Spec => []CompleteStreamsShowAnswers
<1>1. Init => AnswersAreSeen
  BY DEF Init, AnswersAreSeen
<1>2. ConversationInvariant /\ AnswersAreSeen /\ [Next]_vars => AnswersAreSeen'
  <2> SUFFICES ASSUME ConversationInvariant, AnswersAreSeen, [Next]_vars
               PROVE  AnswersAreSeen'
    OBVIOUS
  <2>1. CASE UNCHANGED vars
    BY <2>1 DEF vars, tables, streamVars, flags, AnswersAreSeen, HasAnswer, IsMessage
  <2>2. CASE \E q \in Questions : QuestionMoves(q)
    BY <2>2, QuestionsKeepAnswers
  <2>3. CASE \E s \in Streams : OpenStream(s) \/ StreamStep(s) \/ Disconnect(s)
    BY <2>3, StreamsKeepAnswers
  <2> QED BY <2>1, <2>2, <2>3 DEF Next, QuestionMoves
<1>3. AnswersAreSeen => CompleteStreamsShowAnswers
  BY DEF AnswersAreSeen, CompleteStreamsShowAnswers, HasAnswer
<1> QED BY <1>1, <1>2, <1>3, ConversationInvariantHolds, PTL DEF Spec

-----------------------------------------------------------------------------
(* One process: its handlers take turns.                                   *)

(***************************************************************************)
(* A question holds the event loop in every step but its first, which      *)
(* waits for the loop, so no two of them are on their way at once.         *)
(***************************************************************************)
LEMMA TurnsStaySerial ==
    ASSUME SingleProcess, TypeOK, TurnsAreSerial,
           NEW q \in Questions, QuestionMoves(q)
    PROVE  /\ TurnsAreSerial'
           /\ \A o \in Questions \ {q} : ~HoldsLoop(o) /\ ~HoldsLoop(o)'
<1>1. \A o \in Questions \ {q} : pc'[o] = pc[o]
  BY QuestionStepsAreLocal DEF OthersStay
<1>2. HoldsLoop(q) \/ Ask(q)
  BY DEF QuestionMoves, QuestionStep, LockSession, InsertMessage, CommitQuestion,
         StartRun, InsertEvent, CommitEvent, CommitAnswer, Raise, Move, HoldsLoop,
         Answered
<1>3. \A o \in Questions \ {q} : ~HoldsLoop(o)
  <2>1. CASE HoldsLoop(q)
    BY <2>1 DEF TurnsAreSerial
  <2>2. CASE Ask(q)
    BY <2>2 DEF Ask, LoopFree, SingleProcess
  <2> QED BY <1>2, <2>1, <2>2
<1> QED BY <1>1, <1>3 DEF TurnsAreSerial, HoldsLoop

(***************************************************************************)
(* The other cursor of a stream is the id of an event it has sent, or zero,*)
(* and no event that it has sent lies behind it.                           *)
(***************************************************************************)
LEMMA EventCursorIsGreatest ==
    ASSUME TypeOK, EventsInOrder, NEW s \in Streams
    PROVE  /\ LastEventId(s) \in Nat
           /\ \A n \in sent[s] : ~IsMessage(n) => n.id <= LastEventId(s)
           /\ \/ LastEventId(s) = 0
              \/ \E n \in sent[s] : ~IsMessage(n) /\ n.id = LastEventId(s)
<1> DEFINE Shown == {r \in sent[s] : ~IsMessage(r)}
           Ids   == {0} \cup {e.id : e \in Shown}
<1>1. Shown \subseteq events
  BY DEF TypeOK, IsMessage, MessageRows
<1>2. /\ Ids \subseteq Nat /\ Ids # {}
      /\ nextEvent \in Nat
      /\ \A x \in Ids : x <= nextEvent
  BY <1>1 DEF TypeOK, EventsInOrder, EventRows
<1>3. Max(Ids) \in Ids /\ \A x \in Ids : x <= Max(Ids)
  BY <1>2, MaxIsGreatest
<1>4. LastEventId(s) = Max(Ids)
  BY DEF LastEventId
<1> QED
  BY <1>2, <1>3, <1>4

(* What EventsInOrder asks of what a stream has read.                      *)
ReadInOrder(rows) ==
    \A e \in events : \A n \in rows :
        ~IsMessage(n) /\ e.id <= n.id => e \in rows

(***************************************************************************)
(* An event that is committed has the greatest id: ids are drawn by the    *)
(* handler that has the loop, which commits before the next one draws.     *)
(***************************************************************************)
LEMMA QuestionsKeepEventsInOrder ==
    ASSUME SingleProcess, ConversationInvariant, TurnsAreSerial, EventsInOrder,
           NEW q \in Questions, QuestionMoves(q)
    PROVE  EventsInOrder'
<1>1. /\ TypeOK /\ DraftsFit /\ OthersStay(q) /\ UNCHANGED <<sent, batch>>
      /\ \A o \in Questions \ {q} : pc[o] # "recording" /\ pc'[o] # "recording"
  BY QuestionStepsAreLocal, TurnsStaySerial
     DEF ConversationInvariant, HoldsLoop, OthersStay, Answered
<1>2. CASE InsertEvent(q)
  <2>1. /\ pc[q] = "working" /\ pc'[q] = "recording" /\ events' = events
        /\ draft'[q].id = nextEvent /\ nextEvent' = nextEvent + 1
    BY <1>1, <1>2 DEF InsertEvent, TypeOK, tables, Move, Goto
  <2>2. \A e \in events : e.id \in Nat /\ e.id < nextEvent
    BY <1>1 DEF TypeOK, EventRows, EventsInOrder
  <2>3. nextEvent \in Nat
    BY <1>1 DEF TypeOK
  <2> QED BY <1>1, <2>1, <2>2, <2>3 DEF EventsInOrder, IsMessage
<1>3. CASE CommitEvent(q)
  <2>1. /\ pc[q] = "recording" /\ pc'[q] # "recording" /\ nextEvent' = nextEvent
        /\ events' = events \cup {draft[q]} /\ draft[q] \in EventRows
    BY <1>1, <1>3 DEF CommitEvent, TypeOK, sequences, DraftsFit, Move, Goto
  <2>2. draft[q].id < nextEvent /\ \A e \in events : e.id < draft[q].id
    BY <2>1 DEF EventsInOrder
  <2>3. \A e \in events \cup {draft[q]} : e.id \in Nat
    BY <1>1, <2>1 DEF TypeOK, EventRows
  <2>4. ASSUME NEW s \in Streams, NEW rows \in {sent[s], sent[s] \cup batch[s]}
        PROVE  ReadInOrder(rows)'
    <3>1. \A n \in rows : ~IsMessage(n) => n \in events
      BY <1>1, <2>4 DEF TypeOK, MessageRows, IsMessage
    <3>2. ReadInOrder(rows)
      BY <2>4 DEF EventsInOrder, ReadInOrder
    <3> QED BY <2>1, <2>2, <2>3, <3>1, <3>2 DEF ReadInOrder, IsMessage
  <2> QED BY <1>1, <2>1, <2>2, <2>4 DEF EventsInOrder, ReadInOrder
<1>4. CASE ~InsertEvent(q) /\ ~CommitEvent(q)
  <2>1. /\ UNCHANGED <<events, nextEvent>> /\ pc'[q] # "recording"
    BY <1>1, <1>4
       DEF QuestionMoves, QuestionStep, Ask, LockSession, InsertMessage,
           CommitQuestion, StartRun, CommitAnswer, Raise, tables, sequences, Move, Goto,
           TypeOK
  <2> QED BY <1>1, <2>1 DEF EventsInOrder, IsMessage
<1> QED BY <1>2, <1>3, <1>4

(***************************************************************************)
(* A stream that loads events takes all that lie behind its cursor.        *)
(***************************************************************************)
LEMMA StreamsKeepEventsInOrder ==
    ASSUME ConversationInvariant, EventsInOrder, NEW s \in Streams,
           OpenStream(s) \/ StreamStep(s) \/ Disconnect(s)
    PROVE  EventsInOrder'
<1>1. TypeOK
  BY DEF ConversationInvariant
<1>2. UNCHANGED <<events, nextEvent, pc, draft>>
  BY DEF OpenStream, StreamStep, Disconnect, CheckRunning, LoadMessages,
         LoadSomething, LoadNothing, Send, tables, sequences, askVars
<1>3. \A r \in Streams : ReadInOrder(sent[r]) /\ ReadInOrder(sent[r] \cup batch[r])
  BY DEF EventsInOrder, ReadInOrder
<1>4. \A r \in Streams \ {s} : sent'[r] = sent[r] /\ batch'[r] = batch[r]
  BY <1>1 DEF TypeOK, OpenStream, StreamStep, Disconnect, CheckRunning,
              LoadMessages, LoadSomething, LoadNothing, Send
<1>5. ReadInOrder(sent'[s]) /\ ReadInOrder(sent'[s] \cup batch'[s])
  <2>1. CASE LoadMessages(s)
    <3>1. sent' = sent /\ \A m \in batch'[s] : IsMessage(m)
      BY <1>1, <2>1 DEF LoadMessages, TypeOK, MessageRows, IsMessage
    <3> QED BY <1>3, <3>1 DEF ReadInOrder
  <2>2. CASE LoadSomething(s)
    <3>1. sent' = sent /\ batch'[s] = batch[s] \cup NewEvents(s)
      BY <1>1, <2>2 DEF LoadSomething, TypeOK
    <3>2. ASSUME NEW e \in events PROVE e \in sent[s] \cup NewEvents(s)
      <4>1. e.id \in Nat \ {0} /\ LastEventId(s) \in Nat
        BY <1>1, EventCursorIsGreatest DEF TypeOK, EventRows
      <4>2. CASE e.id <= LastEventId(s)
        <5>1. PICK n \in sent[s] : ~IsMessage(n) /\ n.id = LastEventId(s)
          BY <1>1, <4>1, <4>2, EventCursorIsGreatest
        <5> QED BY <1>3, <4>2, <5>1 DEF ReadInOrder
      <4> QED BY <4>1, <4>2 DEF NewEvents
    <3> QED BY <1>3, <3>1, <3>2 DEF ReadInOrder
  <2>3. CASE Send(s)
    BY <1>1, <1>3, <2>3 DEF Send, TypeOK
  <2>4. CASE UNCHANGED <<sent, batch>>
    BY <1>3, <2>4
  <2> QED BY <2>1, <2>2, <2>3, <2>4 DEF StreamStep, OpenStream, Disconnect,
                                         CheckRunning, LoadNothing
<1>6. \A r \in Streams : ReadInOrder(sent'[r]) /\ ReadInOrder(sent'[r] \cup batch'[r])
  BY <1>3, <1>4, <1>5
<1> QED BY <1>2, <1>6 DEF EventsInOrder, ReadInOrder, IsMessage

(***************************************************************************)
(* Numbers without gaps: the next one is the count of the messages plus    *)
(* one (_next_message_sequence).                                           *)
(***************************************************************************)
LEMMA NextNumberIsCount ==
    ASSUME TypeOK, NumbersAreDense
    PROVE  /\ Cardinality(messages) \in Nat
           /\ NextNumber = Cardinality(messages) + 1
<1> DEFINE count == Cardinality(messages)
           Taken == {0} \cup {m.number : m \in messages}
<1>1. count \in Nat
  BY FS_CardinalityType DEF NumbersAreDense
<1>2. Taken \subseteq Nat /\ Taken # {} /\ \A x \in Taken : x <= count
  BY <1>1 DEF NumbersAreDense
<1>3. count \in Taken
  BY <1>1 DEF NumbersAreDense
<1>4. Max(Taken) \in Taken /\ \A x \in Taken : x <= Max(Taken)
  BY <1>1, <1>2, MaxIsGreatest
<1>5. NextNumber = Max(Taken) + 1
  BY DEF NextNumber
<1>6. Max(Taken) \in Nat /\ Max(Taken) <= count /\ count <= Max(Taken)
  BY <1>2, <1>3, <1>4
<1>7. Max(Taken) = count
  BY <1>1, <1>6
<1> QED BY <1>1, <1>5, <1>7

(***************************************************************************)
(* A committed message gets the number behind the last one.                *)
(***************************************************************************)
LEMMA CommitsKeepNumbersDense ==
    ASSUME NumbersAreDense, NEW d, messages' = messages \cup {d},
           d.number = Cardinality(messages) + 1,
           \A q \in Questions : ~Numbering(q)'
    PROVE  /\ NumbersAreDense'
           /\ Cardinality(messages') = Cardinality(messages) + 1
<1> DEFINE count == Cardinality(messages)
<1>1. IsFiniteSet(messages) /\ count \in Nat
  BY FS_CardinalityType DEF NumbersAreDense
<1>2. d \notin messages
  BY <1>1 DEF NumbersAreDense
<1>3. IsFiniteSet(messages') /\ Cardinality(messages') = count + 1
  BY <1>1, <1>2, FS_AddElement
<1> QED BY <1>1, <1>3 DEF NumbersAreDense

(***************************************************************************)
(* The numbers have no gaps, and the memory that a run has loaded is the   *)
(* one that is committed: nobody else runs in between.                     *)
(***************************************************************************)
LEMMA QuestionsKeepNumbersAndMemory ==
    ASSUME SingleProcess, ConversationInvariant, SerialInvariant,
           NEW q \in Questions, QuestionMoves(q)
    PROVE  NumbersAreDense' /\ MemoryIsLoaded'
<1>1. /\ TypeOK /\ DraftsFit /\ LockIsHeld /\ OthersStay(q)
      /\ NumbersAreDense /\ MemoryIsLoaded
      /\ \A o \in Questions \ {q} : ~HoldsLoop(o) /\ ~HoldsLoop(o)'
  BY QuestionStepsAreLocal, TurnsStaySerial
     DEF ConversationInvariant, SerialInvariant
<1>2. \A o \in Questions \ {q} :
          /\ ~Numbering(o)' /\ ~(Started(o)' /\ pc'[o] # "replied")
          /\ number'[o] = number[o]
  BY <1>1 DEF HoldsLoop, Numbering, Started, Answered, OthersStay
<1>3. CASE LockSession(q)
  <2>1. /\ UNCHANGED <<messages, memory, loaded>> /\ number'[q] = NextNumber
        /\ Started(q)' => Started(q) /\ pc[q] # "replied"
    BY <1>1, <1>3 DEF LockSession, TypeOK, tables, Move, Goto, Started
  <2> QED BY <1>1, <1>2, <2>1, NextNumberIsCount
          DEF NumbersAreDense, MemoryIsLoaded
<1>4. CASE CommitQuestion(q) \/ CommitAnswer(q)
  <2>1. /\ pc[q] \in {"asked", "answered"} /\ pc'[q] \in {"starting", "replied"}
        /\ messages' = messages \cup {draft[q]}
    BY <1>1, <1>4 DEF CommitQuestion, CommitAnswer, TypeOK, Move, Goto
  <2>2. draft[q].number = Cardinality(messages) + 1
    BY <1>1, <2>1 DEF DraftsFit, NumbersAreDense, Numbering
  <2>3. \A o \in Questions : ~Numbering(o)' /\ ~(Started(o)' /\ pc'[o] # "replied")
    BY <1>2, <2>1 DEF Numbering, Started
  <2> QED BY <1>1, <2>1, <2>2, <2>3, CommitsKeepNumbersDense DEF MemoryIsLoaded
<1>5. CASE StartRun(q)
  <2>1. /\ UNCHANGED <<messages, memory>> /\ ~Numbering(q)'
        /\ loaded'[q] = memory
    BY <1>1, <1>5 DEF StartRun, TypeOK, tables, Move, Goto, Numbering
  <2> QED BY <1>1, <1>2, <2>1 DEF NumbersAreDense, MemoryIsLoaded
<1>6. CASE ~LockSession(q) /\ ~CommitQuestion(q) /\ ~CommitAnswer(q) /\ ~StartRun(q)
  <2>1. /\ UNCHANGED <<messages, memory, loaded, number>>
        /\ Numbering(q)' => Numbering(q)
        /\ Started(q)' /\ pc'[q] # "replied" => Started(q) /\ pc[q] # "replied"
    BY <1>1, <1>6
       DEF QuestionMoves, QuestionStep, Ask, InsertMessage, InsertEvent, CommitEvent,
           Raise, tables, Move, Goto, TypeOK, Numbering, Started
  <2> QED BY <1>1, <1>2, <2>1 DEF NumbersAreDense, MemoryIsLoaded
<1> QED BY <1>3, <1>4, <1>5, <1>6

(* SerialInvariant holds at the start and through every step.              *)
LEMMA SerialInvariantInit == ASSUME Init, ConversationAssumption PROVE SerialInvariant
<1> USE DEF Init
<1>1. TurnsAreSerial /\ EventsInOrder /\ MemoryIsLoaded
  BY DEF TurnsAreSerial, HoldsLoop, EventsInOrder, MemoryIsLoaded, Started
<1>2. NumbersAreDense
  BY FS_EmptySet DEF NumbersAreDense, Numbering
<1> QED BY <1>1, <1>2 DEF SerialInvariant

(* A step of a question, of a stream, or none.                             *)
LEMMA SerialInvariantStep ==
    ASSUME SingleProcess
    PROVE  ConversationInvariant /\ SerialInvariant /\ [Next]_vars => SerialInvariant'
<1> SUFFICES ASSUME ConversationInvariant, SerialInvariant, [Next]_vars
             PROVE  SerialInvariant'
  OBVIOUS
<1>1. CASE UNCHANGED vars
  BY <1>1 DEF vars, tables, sequences, askVars, streamVars, flags, SerialInvariant,
     TurnsAreSerial, HoldsLoop, EventsInOrder, IsMessage, NumbersAreDense, Numbering,
     MemoryIsLoaded, Started
<1>2. ASSUME NEW q \in Questions, QuestionMoves(q) PROVE SerialInvariant'
  <2>1. TypeOK /\ TurnsAreSerial /\ EventsInOrder
    BY DEF ConversationInvariant, SerialInvariant
  <2>2. TurnsAreSerial' /\ EventsInOrder'
    BY <1>2, <2>1, TurnsStaySerial, QuestionsKeepEventsInOrder
  <2>3. NumbersAreDense' /\ MemoryIsLoaded'
    BY <1>2, QuestionsKeepNumbersAndMemory
  <2> QED BY <2>2, <2>3 DEF SerialInvariant
<1>3. ASSUME NEW s \in Streams, OpenStream(s) \/ StreamStep(s) \/ Disconnect(s)
      PROVE  SerialInvariant'
  <2>1. EventsInOrder'
    BY <1>3, StreamsKeepEventsInOrder DEF SerialInvariant
  <2>2. UNCHANGED <<pc, messages, number, memory, loaded>>
    BY <1>3 DEF OpenStream, StreamStep, Disconnect, CheckRunning, LoadMessages,
       LoadSomething, LoadNothing, Send, tables, askVars
  <2> QED BY <2>1, <2>2 DEF SerialInvariant, TurnsAreSerial, HoldsLoop, NumbersAreDense,
             Numbering, MemoryIsLoaded, Started
<1> QED BY <1>1, <1>2, <1>3 DEF Next, QuestionMoves

(***************************************************************************)
(* With one process, turns, events, numbers and the memory are serial, for *)
(* any number of questions and streams and whatever raises.                *)
(***************************************************************************)
THEOREM SerialInvariantHolds == ASSUME SingleProcess PROVE Spec => []SerialInvariant
<1>1. Init => SerialInvariant
  BY SerialInvariantInit, ConversationAssumption
<1>2. ConversationInvariant /\ SerialInvariant /\ [Next]_vars => SerialInvariant'
  BY SerialInvariantStep
<1> QED BY <1>1, <1>2, ConversationInvariantHolds, PTL DEF Spec

(***************************************************************************)
(* With one process the cursor of a stream passes over no event of a run   *)
(* (_load_stream_envelopes).                                               *)
(***************************************************************************)
THEOREM NoEventSkipped == ASSUME SingleProcess PROVE Spec => []NoEventIsSkipped
<1>1. ConversationInvariant /\ SerialInvariant => NoEventIsSkipped
  <2> SUFFICES ASSUME ConversationInvariant, SerialInvariant, NEW s \in Streams,
                      NEW e \in events, e.id <= LastEventId(s)
               PROVE  e \in sent[s]
    BY DEF NoEventIsSkipped
  <2>1. TypeOK /\ EventsInOrder
    BY DEF ConversationInvariant, SerialInvariant
  <2>2. e.id \in Nat \ {0}
    BY <2>1 DEF TypeOK, EventRows
  <2>3. PICK n \in sent[s] : ~IsMessage(n) /\ n.id = LastEventId(s)
    BY <2>1, <2>2, EventCursorIsGreatest
  <2> QED BY <2>1, <2>3 DEF EventsInOrder
<1> QED BY <1>1, ConversationInvariantHolds, SerialInvariantHolds, PTL

-----------------------------------------------------------------------------
(* The refinement of SerialConversation.                                   *)

MessageAt(n) == CHOOSE m \in messages : m.number = n

Entry(m) == <<m.role, m.of>>

Log == [n \in 1..Cardinality(messages) |-> Entry(MessageAt(n))]

(***************************************************************************)
(* What Append returns, as a function.                                     *)
(***************************************************************************)
LEMMA AppendIsFunction ==
    ASSUME NEW S, NEW s \in Seq(S), NEW x \in S
    PROVE  Append(s, x) = [n \in 1..Len(s) + 1 |-> IF n = Len(s) + 1 THEN x ELSE s[n]]
<1>1. PICK t : t = Append(s, x)
  OBVIOUS
<1>2. t \in Seq(S) /\ Len(t) = Len(s) + 1
  BY <1>1
<1>3. \A n \in 1..Len(s) + 1 : t[n] = IF n = Len(s) + 1 THEN x ELSE s[n]
  BY <1>1
<1>4. t \in [1..Len(s) + 1 -> S]
  BY <1>2, LenProperties
<1>5. t = [n \in 1..Len(s) + 1 |-> t[n]]
  BY <1>4
<1> QED BY <1>1, <1>3, <1>5

(***************************************************************************)
(* A committed message is the next entry of the log, and those before it   *)
(* stay what they are.                                                     *)
(***************************************************************************)
LEMMA LogGrows ==
    ASSUME NumbersAreDense, NEW d, messages' = messages \cup {d},
           d.number = Cardinality(messages) + 1,
           Cardinality(messages') = Cardinality(messages) + 1
    PROVE  Log' = Append(Log, Entry(d))
<1> DEFINE count == Cardinality(messages)
           Entries == {Entry(MessageAt(n)) : n \in 1..count} \cup {Entry(d)}
<1>1. count \in Nat
  BY FS_CardinalityType DEF NumbersAreDense
<1>2. ASSUME NEW n \in 1..count
      PROVE  MessageAt(n)' = MessageAt(n)
  <2>1. MessageAt(n) \in messages /\ MessageAt(n).number = n
    BY DEF NumbersAreDense, MessageAt
  <2>2. \E m \in messages' : m.number = n
    BY <2>1
  <2>3. MessageAt(n)' \in messages' /\ MessageAt(n)'.number = n
    BY <2>2 DEF MessageAt
  <2>4. MessageAt(n)' \in messages
    BY <1>1, <2>3
  <2> QED BY <2>1, <2>3, <2>4 DEF NumbersAreDense
<1>3. ASSUME NEW n, n = count + 1
      PROVE  MessageAt(n)' = d
  <2>1. d \in messages' /\ d.number = n
    BY <1>3
  <2>2. MessageAt(n)' \in messages' /\ MessageAt(n)'.number = n
    BY <2>1 DEF MessageAt
  <2>3. MessageAt(n)' \notin messages
    BY <1>1, <1>3, <2>2 DEF NumbersAreDense
  <2> QED BY <2>2, <2>3
<1>4. /\ Log \in Seq(Entries) /\ Len(Log) = count /\ Entry(d) \in Entries
      /\ \A n \in 1..count : Log[n] = Entry(MessageAt(n))
  BY <1>1 DEF Log
<1>5. Append(Log, Entry(d)) =
         [n \in 1..count + 1 |-> IF n = count + 1 THEN Entry(d) ELSE Log[n]]
  <2> HIDE DEF Entries
  <2> QED BY <1>1, <1>4, AppendIsFunction
<1>6. ASSUME NEW n \in 1..count + 1
      PROVE  Entry(MessageAt(n)') = IF n = count + 1 THEN Entry(d) ELSE Log[n]
  <2>1. CASE n = count + 1
    <3>1. MessageAt(n)' = d
      BY <1>3, <2>1
    <3> QED BY <2>1, <3>1
  <2>2. CASE n # count + 1
    <3>1. n \in 1..count
      BY <1>1, <2>2
    <3>2. MessageAt(n)' = MessageAt(n)
      BY <1>2, <3>1
    <3> QED BY <1>4, <2>2, <3>1, <3>2
  <2> QED BY <2>1, <2>2
<1>7. Log' = [n \in 1..count + 1 |-> Entry(MessageAt(n)')]
  BY DEF Log, Entry
<1> HIDE DEF count
<1> QED BY <1>5, <1>6, <1>7

Turn == {q \in Questions : InTurn(q)}

(***************************************************************************)
(* Every step of a question is a step of the serial conversation or none:  *)
(* the commit of the question opens the turn, the commit of the answer or  *)
(* an exception closes it.                                                 *)
(***************************************************************************)
LEMMA QuestionsConverse ==
    ASSUME SingleProcess, ConversationInvariant, SerialInvariant,
           NEW q \in Questions, QuestionMoves(q)
    PROVE  \/ /\ Turn = {} /\ Turn' = {q}
              /\ Log' = Append(Log, <<"user", q>>) /\ UNCHANGED memory
           \/ /\ Turn = {q} /\ Turn' = {}
              /\ Log' = Append(Log, <<"assistant", q>>)
              /\ memory' = memory \cup {q}
           \/ Turn = {q} /\ Turn' = {} /\ UNCHANGED <<Log, memory>>
           \/ UNCHANGED <<Log, memory, Turn>>
<1>1. /\ TypeOK /\ DraftsFit /\ NumbersAreDense /\ MemoryIsLoaded /\ OthersStay(q)
      /\ \A o \in Questions \ {q} : ~HoldsLoop(o) /\ ~HoldsLoop(o)'
  BY QuestionStepsAreLocal, TurnsStaySerial
     DEF ConversationInvariant, SerialInvariant
<1>2. \A o \in Questions \ {q} : ~InTurn(o) /\ ~InTurn(o)'
  BY <1>1 DEF HoldsLoop, InTurn, Answered
<1>3. /\ Turn = IF InTurn(q) THEN {q} ELSE {}
      /\ Turn' = IF InTurn(q)' THEN {q} ELSE {}
  BY <1>2 DEF Turn
<1>4. messages' = messages => Log' = Log
  BY DEF Log, MessageAt, Entry
<1>5. CASE CommitQuestion(q) \/ CommitAnswer(q)
  <2>1. /\ pc[q] \in {"asked", "answered"} /\ pc'[q] \in {"starting", "replied"}
        /\ messages' = messages \cup {draft[q]}
    BY <1>1, <1>5 DEF CommitQuestion, CommitAnswer, TypeOK, Move, Goto
  <2>2. draft[q].number = Cardinality(messages) + 1
    BY <1>1, <2>1 DEF DraftsFit, NumbersAreDense, Numbering
  <2>3. \A o \in Questions : ~Numbering(o)'
    BY <1>1, <2>1 DEF Numbering, HoldsLoop, Answered
  <2>4. Log' = Append(Log, Entry(draft[q]))
    BY <1>1, <2>1, <2>2, <2>3, CommitsKeepNumbersDense, LogGrows
  <2>5. CASE CommitQuestion(q)
    <3>1. pc[q] = "asked" /\ pc'[q] = "starting" /\ memory' = memory
      BY <1>1, <2>5 DEF CommitQuestion, TypeOK, Move, Goto
    <3>2. Entry(draft[q]) = <<"user", q>>
      BY <1>1, <3>1 DEF DraftsFit, Entry
    <3> QED BY <1>3, <2>4, <3>1, <3>2 DEF InTurn
  <2>6. CASE CommitAnswer(q)
    <3>1. pc[q] = "answered" /\ pc'[q] = "replied" /\ memory' = loaded[q] \cup {q}
      BY <1>1, <2>6 DEF CommitAnswer, TypeOK, Move, Goto
    <3>2. Entry(draft[q]) = <<"assistant", q>> /\ loaded[q] = memory
      BY <1>1, <3>1 DEF DraftsFit, Entry, MemoryIsLoaded, Started
    <3> QED BY <1>3, <2>4, <3>1, <3>2 DEF InTurn
  <2> QED BY <1>5, <2>5, <2>6
<1>6. CASE Raise(q)
  <2>1. UNCHANGED <<messages, memory>> /\ ~InTurn(q)'
    BY <1>1, <1>6 DEF Raise, tables, TypeOK, Goto, InTurn
  <2> QED BY <1>3, <1>4, <2>1
<1>7. CASE ~CommitQuestion(q) /\ ~CommitAnswer(q) /\ ~Raise(q)
  <2>1. UNCHANGED <<messages, memory>> /\ InTurn(q)' = InTurn(q)
    BY <1>1, <1>7 DEF QuestionMoves, QuestionStep, Ask, LockSession, InsertMessage,
       StartRun, InsertEvent, CommitEvent, tables, TypeOK, Move, Goto, InTurn
  <2> QED BY <1>3, <1>4, <2>1
<1> QED BY <1>5, <1>6, <1>7

(***************************************************************************)
(* The steps of SerialConversation, told of the log and the open turn of   *)
(* the session.                                                            *)
(***************************************************************************)
LEMMA SerialSteps ==
    ASSUME NEW q \in Questions
    PROVE  /\ Serial!Ask(q) <=> /\ Turn = {} /\ Turn' = {q}
                                /\ Log' = Append(Log, <<"user", q>>)
                                /\ UNCHANGED memory
           /\ Serial!Answer(q) <=> /\ Turn = {q} /\ Turn' = {}
                                   /\ Log' = Append(Log, <<"assistant", q>>)
                                   /\ memory' = memory \cup {q}
           /\ Serial!BreakOff(q) <=> /\ Turn = {q} /\ Turn' = {}
                                     /\ UNCHANGED <<Log, memory>>
<1>1. Serial!Ask(q) <=> /\ Turn = {} /\ Turn' = {q}
                        /\ Log' = Append(Log, <<"user", q>>)
                        /\ UNCHANGED memory
  BY DEF Serial!Ask, Turn, Log, MessageAt, Entry
<1>2. Serial!Answer(q) <=> /\ Turn = {q} /\ Turn' = {}
                           /\ Log' = Append(Log, <<"assistant", q>>)
                           /\ memory' = memory \cup {q}
  BY DEF Serial!Answer, Turn, Log, MessageAt, Entry
<1>3. Serial!BreakOff(q) <=> /\ Turn = {q} /\ Turn' = {}
                             /\ UNCHANGED <<Log, memory>>
  BY DEF Serial!BreakOff, Turn, Log, MessageAt, Entry
<1> QED BY <1>1, <1>2, <1>3

(***************************************************************************)
(* A step that leaves messages, memory and the handlers alone is none of   *)
(* the serial conversation.                                                *)
(***************************************************************************)
LEMMA SerialStutters ==
    ASSUME UNCHANGED <<messages, memory, pc>>
    PROVE  UNCHANGED <<Log, memory, Turn>>
<1>1. Log' = Log
  BY DEF Log, MessageAt, Entry
<1>2. Turn' = Turn
  BY DEF Turn, InTurn
<1> QED BY <1>1, <1>2

(***************************************************************************)
(* With one process the session is the serial conversation: turns do not   *)
(* overlap, and no run forgets what an earlier one has remembered, for any *)
(* number of questions and streams (create_message, _persist_run_result).  *)
(***************************************************************************)
THEOREM SessionIsSerial == ASSUME SingleProcess PROVE Spec => ImplementsSerialConversation
<1>1. Init => Serial!Init
  <2> SUFFICES ASSUME Init PROVE Log = <<>> /\ memory = {} /\ Turn = {}
    BY DEF Serial!Init, Turn, Log, MessageAt, Entry
  <2>1. Cardinality(messages) = 0
    BY FS_EmptySet DEF Init
  <2>2. Log = <<>>
    BY <2>1 DEF Log
  <2> QED BY <2>2 DEF Init, Turn, InTurn
<1>2. ConversationInvariant /\ SerialInvariant /\ [Next]_vars => [Serial!Next]_(Serial!vars)
  <2> SUFFICES ASSUME ConversationInvariant, SerialInvariant, [Next]_vars
               PROVE  (\E q \in Questions : Serial!Ask(q) \/ Serial!Answer(q) \/ Serial!BreakOff(q))
                      \/ UNCHANGED <<Log, memory, Turn>>
    BY DEF Serial!Next, Serial!vars, Turn, Log, MessageAt, Entry
  <2>1. ASSUME NEW q \in Questions, QuestionMoves(q)
        PROVE  (\E o \in Questions : Serial!Ask(o) \/ Serial!Answer(o) \/ Serial!BreakOff(o))
               \/ UNCHANGED <<Log, memory, Turn>>
    BY <2>1, QuestionsConverse, SerialSteps
  <2>2. ASSUME NEW s \in Streams, OpenStream(s) \/ StreamStep(s) \/ Disconnect(s)
        PROVE  UNCHANGED <<messages, memory, pc>>
    BY <2>2 DEF OpenStream, StreamStep, Disconnect, CheckRunning, LoadMessages,
       LoadSomething, LoadNothing, Send, tables, askVars
  <2>3. UNCHANGED vars => UNCHANGED <<messages, memory, pc>>
    BY DEF vars, tables, askVars
  <2> QED BY <2>1, <2>2, <2>3, SerialStutters DEF Next, QuestionMoves
<1> QED BY <1>1, <1>2, ConversationInvariantHolds, SerialInvariantHolds, PTL
        DEF Spec, ImplementsSerialConversation, Serial!Spec
=============================================================================
