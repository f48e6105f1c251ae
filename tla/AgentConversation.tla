-------------------------- MODULE AgentConversation --------------------------
(***************************************************************************)
(* One session of the repository agent: the requests that ask a question   *)
(* (AgentSessionService.create_message with the run that answers it) and   *)
(* the event streams that show the session (stream_events).  A question,   *)
(* its run and its request bear one name.  create_message awaits nothing:  *)
(* its handler holds the event loop from its first statement to its last,  *)
(* model calls included.  A stream is a generator that runs in a thread    *)
(* and needs the loop only to hand over what it has read.                  *)
(***************************************************************************)
EXTENDS Naturals, FiniteSets, FiniteSetsExt

CONSTANTS
    Questions,    \* the requests that ask
    Streams,      \* the requests that read the event stream
    Processes,    \* the API processes
    ProcessOf,    \* the process that serves a request
    LastEvent,    \* the number of events of a run; the last one is terminal
    DefaultIdle,  \* DEFAULT_IDLE_POLL_LIMIT
    ActiveIdle,   \* ACTIVE_RUN_IDLE_POLL_LIMIT
    Faults,       \* the faults the environment may produce
    Nobody, NoRow

ASSUME ConversationAssumption ==
    /\ Questions \cap Streams = {}
    /\ ProcessOf \in [Questions \cup Streams -> Processes]
    /\ LastEvent \in Nat \ {0}
    /\ DefaultIdle \in Nat \ {0} /\ ActiveIdle \in Nat \ {0}
    /\ Faults \subseteq {"exception"}
    /\ Nobody \notin Questions

VARIABLES
    messages,     \* the committed rows of agent_messages
    events,       \* the committed rows of agent_run_events
    running,      \* the runs whose committed status is running
    memory,       \* the committed memory_state: the questions it remembers
    lock,         \* who holds the row of the session FOR UPDATE
    nextMessage, nextEvent,  \* the sequences of the two primary keys
    pc,           \* where a question's handler is
    number,       \* the message number it has read
    draft,        \* the row it has inserted and not committed
    loaded,       \* the memory its run works on
    history,      \* the messages its prompt tells of
    spc,          \* where a stream is; the last position tells how it ended
    runningSeen, activeSeen, terminalSeen, idlePolls,  \* its local variables
    batch,        \* what it has read and not handed over
    sent          \* what its client has received

tables   == <<messages, events, running, memory>>
sequences == <<nextMessage, nextEvent>>
askVars  == <<pc, number, draft, loaded, history>>
flags    == <<runningSeen, activeSeen, terminalSeen, idlePolls>>
streamVars == <<spc, flags, batch, sent>>
vars     == <<tables, sequences, lock, askVars, streamVars>>

-----------------------------------------------------------------------------
Answered == {"replied", "raised"}

(* Mutant: the handler runs in a thread of its own.                        *)
HoldsLoopNever(q) == FALSE

HoldsLoop(q) == pc[q] \notin {"idle"} \cup Answered

LoopFree(r) ==
    \A q \in Questions : ProcessOf[q] = ProcessOf[r] => ~HoldsLoop(q)

Goto(q, position) == pc' = [pc EXCEPT ![q] = position]

Move(q, from, to) == pc[q] = from /\ Goto(q, to)

IsMessage(row) == row.kind = "message"

Question(q) == CHOOSE m \in messages : m.role = "user" /\ m.of = q

IsTerminal(row) == ~IsMessage(row) /\ row.step = LastEvent

-----------------------------------------------------------------------------
(* create_message.                                                         *)

Ask(q) ==
    /\ Move(q, "idle", "locking")
    /\ LoopFree(q)
    /\ UNCHANGED <<tables, sequences, lock, number, draft, loaded, history,
                   streamVars>>

(* An uncommitted event holds a key share lock on the row of the session   *)
(* (its foreign key), which FOR UPDATE excludes.                           *)
KeyShared(q) ==
    \E o \in Questions \ {q} : draft[o] # NoRow /\ ~IsMessage(draft[o])

NextNumber == Max({0} \cup {m.number : m \in messages}) + 1

(* Mutant: the session is read without FOR UPDATE.                         *)
ReadSession(q) ==
    /\ \/ Move(q, "locking", "asking")
       \/ Move(q, "relocking", "answering")
    /\ number' = [number EXCEPT ![q] = NextNumber]
    /\ UNCHANGED <<tables, sequences, lock, draft, loaded, history, streamVars>>

(* SELECT ... FOR UPDATE and, with the lock, the greatest number.          *)
LockSession(q) ==
    /\ \/ Move(q, "locking", "asking")
       \/ Move(q, "relocking", "answering")
    /\ lock = Nobody /\ ~KeyShared(q)
    /\ lock' = q
    /\ number' = [number EXCEPT ![q] = NextNumber]
    /\ UNCHANGED <<tables, sequences, draft, loaded, history, streamVars>>

InsertMessage(q) ==
    /\ \/ Move(q, "asking", "asked")
       \/ Move(q, "answering", "answered")
    /\ draft' = [draft EXCEPT ![q] =
          [kind |-> "message", role |-> IF pc[q] = "asking" THEN "user"
                                         ELSE "assistant",
           of |-> q, number |-> number[q], id |-> nextMessage]]
    /\ nextMessage' = nextMessage + 1
    /\ UNCHANGED <<tables, nextEvent, lock, number, loaded, history, streamVars>>

(* The question and its run, committed as running.                         *)
CommitQuestion(q) ==
    /\ Move(q, "asked", "starting")
    /\ messages' = messages \cup {draft[q]}
    /\ running' = running \cup {q}
    /\ draft' = [draft EXCEPT ![q] = NoRow]
    /\ lock' = Nobody
    /\ UNCHANGED <<events, memory, sequences, number, loaded, history, streamVars>>

(* Mutant: the history is not cut off at the question.                     *)
StartRunWithAll(q) ==
    /\ Move(q, "starting", "working")
    /\ loaded' = [loaded EXCEPT ![q] = memory]
    /\ history' = [history EXCEPT ![q] = messages \ {Question(q)}]
    /\ UNCHANGED <<tables, sequences, lock, number, draft, streamVars>>

(* _execute_run: the memory and the history that the run works on.         *)
StartRun(q) ==
    /\ Move(q, "starting", "working")
    /\ loaded' = [loaded EXCEPT ![q] = memory]
    /\ history' = [history EXCEPT ![q] =
                      {m \in messages : m.number < Question(q).number}]
    /\ UNCHANGED <<tables, sequences, lock, number, draft, streamVars>>

Recorded(q) == {e \in events : e.of = q}

(* _persist_live_run_event: every event in a transaction of its own.       *)
InsertEvent(q) ==
    /\ Move(q, "working", "recording")
    /\ lock = Nobody
    /\ draft' = [draft EXCEPT ![q] =
          [kind |-> "event", of |-> q, step |-> Cardinality(Recorded(q)) + 1,
           id |-> nextEvent]]
    /\ nextEvent' = nextEvent + 1
    /\ UNCHANGED <<tables, nextMessage, lock, number, loaded, history, streamVars>>

CommitEvent(q) ==
    /\ Move(q, "recording",
            IF draft[q].step = LastEvent THEN "relocking" ELSE "working")
    /\ events' = events \cup {draft[q]}
    /\ draft' = [draft EXCEPT ![q] = NoRow]
    /\ UNCHANGED <<messages, running, memory, sequences, lock, number, loaded,
                   history, streamVars>>

(* _persist_run_result: answer, status and memory in one transaction.      *)
CommitAnswer(q) ==
    /\ Move(q, "answered", "replied")
    /\ messages' = messages \cup {draft[q]}
    /\ running' = running \ {q}
    /\ memory' = loaded[q] \cup {q}
    /\ draft' = [draft EXCEPT ![q] = NoRow]
    /\ lock' = Nobody
    /\ UNCHANGED <<events, sequences, number, loaded, history, streamVars>>

(* Mutant: the failed request leaves its transaction open.                 *)
RaiseKeepsLock(q) ==
    /\ "exception" \in Faults
    /\ HoldsLoop(q)
    /\ Goto(q, "raised")
    /\ UNCHANGED <<tables, sequences, lock, number, draft, loaded, history,
                   streamVars>>

(* The platform, the model or the database raises, or the process dies:    *)
(* the open transaction is rolled back, what was committed stays.          *)
Raise(q) ==
    /\ "exception" \in Faults
    /\ HoldsLoop(q)
    /\ Goto(q, "raised")
    /\ draft' = [draft EXCEPT ![q] = NoRow]
    /\ lock' = IF lock = q THEN Nobody ELSE lock
    /\ UNCHANGED <<tables, sequences, number, loaded, history, streamVars>>

-----------------------------------------------------------------------------
(* stream_events.                                                          *)

Ended == {"complete", "gave_up", "disconnected"}

(* Mutant: one cursor for the ids of both tables.                          *)
LastIdOfAnything(s) == Max({0} \cup {r.id : r \in sent[s]})

(* The cursors: the greatest ids handed over.                              *)
LastMessageId(s) == Max({0} \cup {m.id : m \in {r \in sent[s] : IsMessage(r)}})
LastEventId(s)   == Max({0} \cup {e.id : e \in {r \in sent[s] : ~IsMessage(r)}})

OpenStream(s) ==
    /\ spc[s] = "idle" /\ LoopFree(s)
    /\ spc' = [spc EXCEPT ![s] = "polling"]
    /\ UNCHANGED <<tables, sequences, lock, askVars, flags, batch, sent>>

CheckRunning(s) ==
    /\ spc[s] = "polling"
    /\ spc' = [spc EXCEPT ![s] = "loading"]
    /\ runningSeen' = [runningSeen EXCEPT ![s] = running # {}]
    /\ activeSeen' = [activeSeen EXCEPT ![s] = @ \/ running # {}]
    /\ UNCHANGED <<tables, sequences, lock, askVars, terminalSeen, idlePolls,
                   batch, sent>>

LoadMessages(s) ==
    /\ spc[s] = "loading"
    /\ spc' = [spc EXCEPT ![s] = "merging"]
    /\ batch' = [batch EXCEPT ![s] = {m \in messages : m.id > LastMessageId(s)}]
    /\ UNCHANGED <<tables, sequences, lock, askVars, flags, sent>>

NewEvents(s) == {e \in events : e.id > LastEventId(s)}

LoadSomething(s) ==
    /\ spc[s] = "merging"
    /\ batch[s] \cup NewEvents(s) # {}
    /\ spc' = [spc EXCEPT ![s] = "sending"]
    /\ batch' = [batch EXCEPT ![s] = @ \cup NewEvents(s)]
    /\ idlePolls' = [idlePolls EXCEPT ![s] = 0]
    /\ UNCHANGED <<tables, sequences, lock, askVars, runningSeen, activeSeen,
                   terminalSeen, sent>>

IdleLimit(s) == IF activeSeen[s] THEN ActiveIdle ELSE DefaultIdle

(* Mutant: the polls are not counted while a run is going on.              *)
CountedIfQuiet(s) == IF runningSeen[s] THEN idlePolls[s] ELSE idlePolls[s] + 1

Counted(s) == idlePolls[s] + 1

(* Mutant: running runs are looked for after the rows were loaded.         *)
DoneByNow(s) == terminalSeen[s] /\ running = {}

Done(s) == terminalSeen[s] /\ ~runningSeen[s]

LoadNothing(s) ==
    /\ spc[s] = "merging"
    /\ batch[s] \cup NewEvents(s) = {}
    /\ IF Done(s)
       THEN /\ spc' = [spc EXCEPT ![s] = "complete"]
            /\ UNCHANGED idlePolls
       ELSE /\ idlePolls' = [idlePolls EXCEPT ![s] = Counted(s)]
            /\ spc' = [spc EXCEPT ![s] =
                  IF Counted(s) >= IdleLimit(s) THEN "gave_up" ELSE "polling"]
    /\ UNCHANGED <<tables, sequences, lock, askVars, runningSeen, activeSeen,
                   terminalSeen, batch, sent>>

Send(s) ==
    /\ spc[s] = "sending" /\ LoopFree(s)
    /\ spc' = [spc EXCEPT ![s] = "polling"]
    /\ sent' = [sent EXCEPT ![s] = @ \cup batch[s]]
    /\ activeSeen' = [activeSeen EXCEPT ![s] =
          @ \/ \E row \in batch[s] : ~IsMessage(row) /\ row.step = 1]
    /\ terminalSeen' = [terminalSeen EXCEPT ![s] =
          @ \/ \E row \in batch[s] : IsTerminal(row)]
    /\ batch' = [batch EXCEPT ![s] = {}]
    /\ UNCHANGED <<tables, sequences, lock, askVars, runningSeen, idlePolls>>

(* The client goes away; it may have received any part of the batch, which *)
(* no property of a finished stream looks at.                              *)
Disconnect(s) ==
    /\ spc[s] = "sending" /\ LoopFree(s)
    /\ spc' = [spc EXCEPT ![s] = "disconnected"]
    /\ UNCHANGED <<tables, sequences, lock, askVars, flags, batch, sent>>

-----------------------------------------------------------------------------
Init ==
    /\ messages = {} /\ events = {} /\ running = {} /\ memory = {}
    /\ lock = Nobody
    /\ nextMessage = 1 /\ nextEvent = 1
    /\ pc = [q \in Questions |-> "idle"]
    /\ number = [q \in Questions |-> 0]
    /\ draft = [q \in Questions |-> NoRow]
    /\ loaded = [q \in Questions |-> {}]
    /\ history = [q \in Questions |-> {}]
    /\ spc = [s \in Streams |-> "idle"]
    /\ runningSeen = [s \in Streams |-> FALSE]
    /\ activeSeen = [s \in Streams |-> FALSE]
    /\ terminalSeen = [s \in Streams |-> FALSE]
    /\ idlePolls = [s \in Streams |-> 0]
    /\ batch = [s \in Streams |-> {}]
    /\ sent = [s \in Streams |-> {}]

QuestionStep(q) ==
    \/ LockSession(q) \/ InsertMessage(q) \/ CommitQuestion(q) \/ StartRun(q)
    \/ InsertEvent(q) \/ CommitEvent(q) \/ CommitAnswer(q)

StreamStep(s) ==
    \/ CheckRunning(s) \/ LoadMessages(s)
    \/ LoadSomething(s) \/ LoadNothing(s) \/ Send(s)

Next ==
    \/ \E q \in Questions : Ask(q) \/ QuestionStep(q) \/ Raise(q)
    \/ \E s \in Streams : OpenStream(s) \/ StreamStep(s) \/ Disconnect(s)

Spec == Init /\ [][Next]_vars

(* The database answers, the model answers or raises, threads are run, and *)
(* the loop runs what is ready; nobody need ask or listen.                 *)
FairSpec ==
    /\ Spec
    /\ \A q \in Questions : WF_vars(QuestionStep(q))
    /\ \A s \in Streams : WF_vars(StreamStep(s))

-----------------------------------------------------------------------------
MessageRows ==
    [kind : {"message"}, role : {"user", "assistant"}, of : Questions,
     number : Nat \ {0}, id : Nat \ {0}]
EventRows ==
    [kind : {"event"}, of : Questions, step : 1..LastEvent, id : Nat \ {0}]

Positions ==
    {"idle", "locking", "asking", "asked", "starting", "working",
     "recording", "relocking", "answering", "answered"} \cup Answered

TypeOK ==
    /\ messages \subseteq MessageRows /\ events \subseteq EventRows
    /\ running \subseteq Questions /\ memory \subseteq Questions
    /\ lock \in Questions \cup {Nobody}
    /\ nextMessage \in Nat \ {0} /\ nextEvent \in Nat \ {0}
    /\ pc \in [Questions -> Positions]
    /\ number \in [Questions -> Nat]
    /\ draft \in [Questions -> MessageRows \cup EventRows \cup {NoRow}]
    /\ loaded \in [Questions -> SUBSET Questions]
    /\ history \in [Questions -> SUBSET messages]
    /\ spc \in [Streams -> {"idle", "polling", "loading", "merging", "sending"}
                             \cup Ended]
    /\ {runningSeen, activeSeen, terminalSeen} \subseteq [Streams -> BOOLEAN]
    /\ idlePolls \in [Streams -> Nat]
    /\ batch \in [Streams -> SUBSET (messages \cup events)]
    /\ sent \in [Streams -> SUBSET (messages \cup events)]

(***************************************************************************)
(* The number that a handler has read is free until its message is         *)
(* committed: the lock of the session keeps the handlers of all processes  *)
(* apart from the read to the commit, so the unique index of the numbers   *)
(* never refuses a message (_next_message_sequence).                       *)
(***************************************************************************)
Numbering(q) == pc[q] \in {"asking", "asked", "answering", "answered"}

NumbersStayFree ==
    \A q \in Questions, m \in messages : Numbering(q) => m.number < number[q]

(***************************************************************************)
(* What the prompt of a run told of the conversation stays the whole of    *)
(* what lies before its question: no message is ever put in behind it,     *)
(* whoever else asks in the session (_build_session_history).              *)
(***************************************************************************)
Started(q) == pc[q] \in {"working", "recording", "relocking", "answering",
                         "answered", "replied"}

HistoriesStayWhole ==
    \A q \in Questions :
        Started(q) => history[q] = {m \in messages : m.number < Question(q).number}

(***************************************************************************)
(* The cursor of a stream passes over no message: ids are drawn under the  *)
(* lock that is held until the commit, so they become visible in order     *)
(* (_load_stream_envelopes).                                               *)
(***************************************************************************)
NoMessageIsSkipped ==
    \A s \in Streams, m \in messages :
        m.id <= LastMessageId(s) => m \in sent[s]

(* What the lock of the session protects: the parts of an inductive        *)
(* invariant.                                                              *)

(* A handler holds the lock from its read of the numbers to its commit.    *)
LockIsHeld == \A q \in Questions : Numbering(q) <=> lock = q

DraftsFit ==
    \A q \in Questions :
        /\ pc[q] \in {"asked", "answered"} =>
              /\ draft[q] \in MessageRows
              /\ draft[q].of = q /\ draft[q].number = number[q]
              /\ draft[q].role = IF pc[q] = "asked" THEN "user"
                                                   ELSE "assistant"
        /\ pc[q] = "recording" => draft[q] \in EventRows

(* Ids grow with the commits; numbers never run ahead of them.             *)
IdsGrow ==
    /\ \A m \in messages : m.number <= m.id /\ m.id < nextMessage
    /\ \A q \in Questions :
          /\ Numbering(q) => number[q] \in 1..nextMessage
          /\ pc[q] \in {"asked", "answered"} =>
                /\ number[q] <= draft[q].id /\ draft[q].id < nextMessage
                /\ \A m \in messages : m.id < draft[q].id

Asks(m, q) == m.role = "user" /\ m.of = q

QuestionsAreUnique ==
    /\ \A q \in Questions :
          /\ pc[q] \in {"idle", "locking", "asking", "asked"}
                => \A m \in messages : ~Asks(m, q)
          /\ pc[q] = "starting" \/ Started(q) => \E m \in messages : Asks(m, q)
    /\ \A q \in Questions : \A m, n \in messages :
          Asks(m, q) /\ Asks(n, q) => m = n

(* The events of a run are numbered 1, 2, ... up to the terminal one.      *)
EventsInStep ==
    /\ IsFiniteSet(events)
    /\ \A q \in Questions :
          LET count == Cardinality(Recorded(q)) IN
          /\ \A e \in Recorded(q) : e.step <= count
          /\ pc[q] \in {"idle", "locking", "asking", "asked", "starting",
                        "working"} => count < LastEvent
          /\ pc[q] = "recording" => /\ draft[q].of = q
                                    /\ draft[q].step = count + 1
                                    /\ draft[q].step <= LastEvent

(* What lies before something that a stream has read was read as well.     *)
CursorsKeepUp ==
    \A s \in Streams : \A rows \in {sent[s], sent[s] \cup batch[s]} :
        \A m \in messages : \A n \in rows :
            IsMessage(n) /\ m.id <= n.id => m \in rows

ConversationInvariant ==
    /\ TypeOK
    /\ LockIsHeld
    /\ DraftsFit
    /\ EventsInStep
    /\ IdsGrow
    /\ NumbersStayFree
    /\ QuestionsAreUnique
    /\ HistoriesStayWhole
    /\ CursorsKeepUp

(***************************************************************************)
(* A stream that ends behind a terminal event has shown the answer of      *)
(* every question it has shown: running runs are looked for before the     *)
(* rows are loaded, and answer and status are committed together           *)
(* (stream_events).                                                        *)
(***************************************************************************)
CompleteStreamsShowAnswers ==
    \A s \in Streams : \A m \in sent[s] :
        spc[s] = "complete" /\ IsMessage(m) /\ m.role = "user"
            => \E n \in sent[s] :
                  IsMessage(n) /\ n.role = "assistant" /\ n.of = m.of

(* Why: what a stream knows of the answers between its look for running    *)
(* runs and its end.                                                       *)
HasAnswer(q, rows) == \E n \in rows : IsMessage(n) /\ n.role = "assistant" /\ n.of = q

AnswersAreSeen ==
    /\ \A m \in messages :
          m.role = "user" => m.of \in running \/ HasAnswer(m.of, messages)
    /\ \A s \in Streams : \A m \in sent[s] : IsMessage(m) /\ m.role = "user" =>
          /\ spc[s] = "loading" /\ ~runningSeen[s] => HasAnswer(m.of, messages)
          /\ spc[s] = "merging" /\ ~runningSeen[s]
                => HasAnswer(m.of, sent[s] \cup batch[s])
          /\ spc[s] = "complete" => HasAnswer(m.of, sent[s])

(***************************************************************************)
(* Every question is answered or refused, and every stream ends, also when *)
(* a run was broken off and its row says running for good.                 *)
(***************************************************************************)
EveryQuestionEnds ==
    \A q \in Questions : pc[q] # "idle" ~> pc[q] \in Answered

EveryStreamEnds ==
    \A s \in Streams : spc[s] # "idle" ~> spc[s] \in Ended

-----------------------------------------------------------------------------
(* With a single API process nothing overlaps: the handler holds the loop. *)
SingleProcess == \A q, o \in Questions : ProcessOf[q] = ProcessOf[o]

(***************************************************************************)
(* The cursor of a stream passes over no event of a run.                   *)
(***************************************************************************)
NoEventIsSkipped ==
    \A s \in Streams, e \in events :
        e.id <= LastEventId(s) => e \in sent[s]

(* Why: the handlers take turns, so events become visible in the order of  *)
(* their ids, and the memory that a run works on is the one it will replace*)
(* (_persist_run_result).  The numbers of the messages have no gaps with   *)
(* any number of processes.                                                *)
TurnsAreSerial ==
    \A q, o \in Questions : HoldsLoop(q) /\ HoldsLoop(o) => q = o

EventsInOrder ==
    /\ \A e \in events : e.id < nextEvent
    /\ \A q \in Questions : pc[q] = "recording" =>
          /\ draft[q].id < nextEvent
          /\ \A e \in events : e.id < draft[q].id
    /\ \A s \in Streams : \A rows \in {sent[s], sent[s] \cup batch[s]} :
          \A e \in events : \A n \in rows :
              ~IsMessage(n) /\ e.id <= n.id => e \in rows

NumbersAreDense ==
    /\ IsFiniteSet(messages)
    /\ \A m \in messages : m.number \in 1..Cardinality(messages)
    /\ \A n \in 1..Cardinality(messages) : \E m \in messages : m.number = n
    /\ \A m, n \in messages : m.number = n.number => m = n
    /\ \A q \in Questions :
          Numbering(q) => number[q] = Cardinality(messages) + 1

MemoryIsLoaded ==
    \A q \in Questions :
        Started(q) /\ pc[q] # "replied" => loaded[q] = memory

SerialInvariant ==
    TurnsAreSerial /\ EventsInOrder /\ NumbersAreDense /\ MemoryIsLoaded

(***************************************************************************)
(* The session is the serial conversation of SerialConversation: turns do  *)
(* not overlap, and no run forgets what an earlier one has remembered.     *)
(***************************************************************************)
InTurn(q) ==
    \/ pc[q] \in {"starting", "working", "recording", "relocking",
                  "answering", "answered"}

Serial == INSTANCE SerialConversation
          WITH log <- [n \in 1..Cardinality(messages) |->
                          LET m == CHOOSE m \in messages : m.number = n
                          IN  <<m.role, m.of>>],
               turn <- {q \in Questions : InTurn(q)}

ImplementsSerialConversation == Serial!Spec
=============================================================================
