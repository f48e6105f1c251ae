------------------------------ MODULE AgentRun ------------------------------
(***************************************************************************)
(* RunService.run: the bounded loop of prompts, model answers and tool     *)
(* calls behind a question, and the memory that one run of a session hands *)
(* to the next.  The runs of one session follow each other here; how they  *)
(* interfere across processes is the subject of AgentConversation.         *)
(***************************************************************************)
EXTENDS ToolGateway, PromptBudget, AgentProtocol

CONSTANTS
    Questions,    \* the questions asked, in order: [kind, words, length], and
                  \* outputs, what the model may put out for each
    DocNames,     \* doc_names of the snapshot service
    MaxAttempts,  \* max_attempts
    PrefixLength, \* the characters of the prefix
    EntryLength,  \* the characters a turn adds to the history
    Words,        \* the words of questions and answers
    Lists,        \* the lists a change request may have when it is first read
    RemoteFaults  \* whether the platform and the model may fail

Items == [id : 1 .. MaxItems, answers : 0 .. MaxItems, lines : Nat]

PathTools == {"list_files", "read_file", "search_code", "read_project_doc"}

(* What the model may put out and the lists of a change request are inputs:*)
(* paths are strings, a text has words and a length.                       *)
IsAction(a) ==
    \/ /\ a.tag = "tool"
       /\ a.call.tool \in PathTools => a.call.path \in Spellings
    \/ a.tag = "final" /\ a.words \subseteq Words

ASSUME RunAssumption ==
    /\ MaxAttempts \in Nat \ {0}
    /\ PrefixLength \in Nat /\ EntryLength \in Nat
    /\ Questions \in Seq(Range(Questions))
    /\ \A i \in DOMAIN Questions : /\ Questions[i].length \in Nat
                                   /\ \A out \in Questions[i].outputs :
                                         /\ out \in Seq(Range(out))
                                         /\ \A a \in Range(out) : IsAction(a)
    /\ Lists \subseteq Seq(Items) /\ \A list \in Lists : Len(list) <= MaxItems
    /\ DocNames \subseteq Paths
    /\ RemoteFaults \in BOOLEAN

VARIABLES
    pc,         \* where the run is
    asked,      \* how many questions have been put
    saved,      \* memory_state of the session
    memory,     \* the memory of the run
    ref,        \* head_sha of the snapshot
    tree,       \* the versions in the file tree of the snapshot
    docs,       \* the documents of the snapshot, with their versions
    attempts, toolSteps,
    calls,      \* ToolGateway.history
    history,    \* the characters of the history
    heard,      \* the paths that the last listing or search named
    prompt,     \* what the last prompt showed
    events,     \* the types of the recorded events
    reading     \* a paginated read under way, with what happened meanwhile

sessionVars == <<asked, saved>>
snapshotVars == <<ref, tree, docs>>
loopVars == <<attempts, toolSteps, calls, history, heard>>
recordVars == <<prompt, events>>
runVars == <<pc, sessionVars, memory, snapshotVars, loopVars, recordVars, reading>>
vars == <<platformVars, runVars>>

-----------------------------------------------------------------------------
NoRead == [call |-> Nothing, page |-> 0, items |-> <<>>, due |-> {}]

NoPrompt == [files |-> [p \in Spellings |-> Nothing], notes |-> {},
             length |-> 0, budget |-> SectionBudget]

Question == Questions[asked]

Goto(from, to) == pc = from /\ pc' = to

Record(types) == events' = events \o types

Grow(n) == history' = history + n

(* Folders have versions too, and nothing in the memory bears their name.  *)
Versions(entries, c) ==
    [p \in {e.path : e \in entries} \cap Paths |-> Version[c][p]]

-----------------------------------------------------------------------------
(* Building the snapshot.                                                  *)

Ask ==
    /\ Goto("idle", "resolve")
    /\ asked < Len(Questions)
    /\ asked' = asked + 1
    /\ memory' = Normalize(saved)
    /\ attempts' = 0 /\ toolSteps' = 0 /\ calls' = <<>> /\ heard' = {}
    /\ history' = asked * EntryLength
    /\ prompt' = NoPrompt /\ events' = <<>>
    /\ UNCHANGED <<platformVars, saved, snapshotVars, reading>>

ResolveHead ==
    /\ Goto("resolve", "tree")
    /\ ref' = head
    /\ UNCHANGED <<platformVars, sessionVars, memory, tree, docs, loopVars,
                   recordVars, reading>>

(* Mutant: the tree is read from the branch.                               *)
LoadTreeOfBranch ==
    /\ Goto("tree", "docs")
    /\ \E entries \in ListTree(Unlocked, Root) : tree' = Versions(entries, head)
    /\ UNCHANGED <<platformVars, sessionVars, memory, ref, docs, loopVars,
                   recordVars, reading>>

LoadTree ==
    /\ Goto("tree", "docs")
    /\ \E entries \in ListTree(ref, Root) : tree' = Versions(entries, ref)
    /\ UNCHANGED <<platformVars, sessionVars, memory, ref, docs, loopVars,
                   recordVars, reading>>

(* A document that is missing or no text is left out.                      *)
LoadDocs ==
    /\ Goto("docs", "commits")
    /\ docs' = [d \in {n \in DocNames : CanRead(ref, n)} |-> Version[ref][d]]
    /\ UNCHANGED <<platformVars, sessionVars, memory, ref, tree, loopVars,
                   recordVars, reading>>

(* With the commits the snapshot is complete; the memory is purged of what *)
(* has changed and the run is recorded as started.                         *)
StartLoop ==
    /\ Goto("commits", "prompt")
    /\ memory' = InvalidateStale(memory, tree)
    /\ Record(IF Invalidated(memory, tree) = {}
              THEN <<"run_started", "snapshot_resolved">>
              ELSE <<"run_started", "snapshot_resolved", "memory_invalidated">>)
    /\ UNCHANGED <<platformVars, sessionVars, snapshotVars, loopVars, prompt,
                   reading>>

-----------------------------------------------------------------------------
(* One attempt: a prompt and what the model makes of it.                   *)

RawLengths ==
    [s \in Sections |->
        IF s = "prefix" THEN PrefixLength
        ELSE IF s = "memory" THEN 1 + Cardinality(Shown(memory))
        ELSE IF s = "history" THEN history
        ELSE 1 + Cardinality(Relevant(memory, Question.words))]

BuildPrompt ==
    /\ Goto("prompt", "model")
    /\ attempts < MaxAttempts
    /\ attempts' = attempts + 1
    /\ LET budget == FinalBudget(RawLengths, Question.length) IN
       prompt' = [files |-> [p \in Spellings |->
                                IF p \in Shown(memory) THEN memory.files[p]
                                ELSE Nothing],
                  notes |-> Relevant(memory, Question.words),
                  length |-> PromptLength(RawLengths, Question.length, budget),
                  budget |-> budget]
    /\ Record(<<"prompt_built">>)
    /\ UNCHANGED <<platformVars, sessionVars, memory, snapshotVars, toolSteps,
                   calls, history, heard, reading>>

(* An output that is no action, or an answer that comes too early.         *)
Retry ==
    /\ Goto("model", "prompt")
    /\ Grow(EntryLength)
    /\ Record(<<"model_retry">>)
    /\ prompt' = NoPrompt /\ heard' = {}
    /\ UNCHANGED <<platformVars, sessionVars, memory, snapshotVars, attempts,
                   toolSteps, calls, reading>>

(* An answer that asks for leave to look, that guesses an entrypoint, or   *)
(* that answers a follow-up out of nothing.                                *)
IsPremature(answer) ==
    \/ answer.kind = "asks_leave"
    \/ /\ toolSteps = 0
       /\ \/ Question.kind = "entrypoint" /\ answer.kind = "names_file"
          \/ Question.kind = "follow_up" /\ history = 0

Reject(answer) == Retry /\ IsPremature(answer)

Accept(answer) ==
    /\ Goto("model", "completed")
    /\ ~IsPremature(answer)
    /\ memory' = RememberAnswer(memory, asked, answer.words)
    /\ Record(<<"assistant_delta", "final_answer">>)
    /\ prompt' = NoPrompt
    /\ UNCHANGED <<platformVars, sessionVars, snapshotVars, loopVars, reading>>

-----------------------------------------------------------------------------
(* Tool calls.                                                             *)

VersionOf(c) ==
    LET versions == IF c.tool = "read_file" THEN tree ELSE docs
    IN  IF c.path \in DOMAIN versions THEN versions[c.path] ELSE Nothing

(* What a call leaves in the memory, its string for the path as the key.   *)
Remember(c, text) ==
    memory' = IF c.tool \in {"read_file", "read_project_doc"}
              THEN RememberFile(memory, c.path, text, VersionOf(c))
              ELSE Normalize(memory)

Finish(c, text, names) ==
    /\ toolSteps' = toolSteps + 1
    /\ Remember(c, text)
    /\ heard' = names
    /\ Grow(EntryLength)
    /\ prompt' = NoPrompt
    /\ UNCHANGED <<platform, head, sessionVars, snapshotVars, attempts>>

Refuse(c) ==
    /\ IsRefused(c, docs, calls)
    /\ Goto("model", "prompt")
    /\ Finish(c, Error, {})
    /\ Record(<<"tool_called", "tool_result">>)
    /\ UNCHANGED <<change, added, calls, reading>>

(* A call that one answer of the platform, or the snapshot, serves.        *)
Text(c) ==
    IF c.tool = "read_file" THEN ReadText(c, ref)
    ELSE IF c.tool = "read_project_doc" THEN docs[c.path]
    ELSE Nothing

Call(c) ==
    /\ c.tool \notin PagedTools
    /\ ~IsRefused(c, docs, calls) /\ ~Raises(c, ref)
    /\ Goto("model", "prompt")
    /\ calls' = Append(calls, Canonical(c))
    /\ \E names \in Named(c, ref) : Finish(c, Text(c), names)
    /\ Record(<<"tool_called", "tool_result">>)
    /\ UNCHANGED <<change, added, reading>>

(* A call that is served page by page.  The list has come about while      *)
(* nobody looked at it.                                                    *)
OpenList(c, list) ==
    /\ c.tool \in PagedTools
    /\ ~IsRefused(c, docs, calls)
    /\ Goto("model", "paging")
    /\ calls' = Append(calls, Canonical(c))
    /\ Record(<<"tool_called">>)
    /\ change' = list /\ added' = Len(list)
    /\ reading' = [NoRead EXCEPT !.call = c, !.page = 1, !.due = Range(list)]
    /\ prompt' = NoPrompt
    /\ heard' = {}
    /\ UNCHANGED <<platform, head, sessionVars, memory, snapshotVars, attempts,
                   toolSteps, history>>

(* The pages are asked for one after the other.                            *)
ReadPage ==
    LET items == PageItems(reading.page) IN
    /\ pc = "paging"
    /\ reading' = [reading EXCEPT !.page = @ + 1, !.items = @ \o items]
    /\ IF IsLastPage(items) THEN pc' = "listed" ELSE UNCHANGED pc
    /\ UNCHANGED <<platformVars, sessionVars, memory, snapshotVars, loopVars,
                   recordVars>>

CloseList ==
    /\ Goto("listed", "prompt")
    /\ Finish(reading.call, Nothing, {})
    /\ Record(<<"tool_result">>)
    /\ reading' = NoRead /\ change' = <<>> /\ added' = 0
    /\ UNCHANGED calls

-----------------------------------------------------------------------------
(* How a run ends.                                                         *)

(* Mutant: one attempt more is waited for.                                 *)
GiveUpLater ==
    /\ Goto("prompt", "failed")
    /\ attempts > MaxAttempts
    /\ Record(<<"run_failed">>)
    /\ UNCHANGED <<platformVars, sessionVars, memory, snapshotVars, loopVars,
                   prompt, reading>>

GiveUp ==
    /\ Goto("prompt", "failed")
    /\ attempts >= MaxAttempts
    /\ Record(<<"run_failed">>)
    /\ UNCHANGED <<platformVars, sessionVars, memory, snapshotVars, loopVars,
                   prompt, reading>>

(* The variables of a run end with it.                                     *)
Forget ==
    /\ memory' = EmptyMemory /\ tree' = <<>> /\ docs' = <<>>
    /\ attempts' = 0 /\ toolSteps' = 0 /\ calls' = <<>> /\ history' = 0
    /\ heard' = {} /\ prompt' = NoPrompt /\ reading' = NoRead
    /\ change' = <<>> /\ added' = 0
    /\ UNCHANGED <<platform, head, asked, ref>>

(* A run that answered and one that gave up both hand over their memory.   *)
Return ==
    /\ pc \in {"completed", "failed"} /\ pc' = "idle"
    /\ saved' = memory
    /\ events' = <<>>
    /\ Forget

PlatformFails ==
    \/ RemoteFaults /\ pc \in {"resolve", "tree", "docs", "commits", "model",
                                "paging"}
    \/ /\ pc = "listed" /\ reading.call.tool = "list_commits"
       /\ ~ListsCommits(reading.items)

(* What the platform or the model raises leaves the run, and so does a     *)
(* call for what is no readable file.                                      *)
Raise ==
    /\ \/ PlatformFails /\ UNCHANGED events
       \/ /\ pc = "model"
          /\ \E out \in Question.outputs :
                /\ Parse(out).tag = "tool"
                /\ ~IsRefused(Parse(out).call, docs, calls)
                /\ Raises(Parse(out).call, ref)
          /\ Record(<<"tool_called">>)
    /\ pc' = "raised"
    /\ Forget
    /\ UNCHANGED saved

(* The next question finds the memory that was saved before.               *)
AfterRaise ==
    /\ Goto("raised", "idle")
    /\ events' = <<>>
    /\ UNCHANGED <<platformVars, sessionVars, memory, snapshotVars, loopVars,
                   prompt, reading>>

-----------------------------------------------------------------------------
(* The platform's users push, comment and delete at any time; an item that *)
(* stood behind one that was taken out is due no longer.                   *)
Behind(i) == {change[j] : j \in i .. Len(change)}

ChangeList(step, excused) ==
    /\ pc = "paging"
    /\ step
    /\ reading' = [reading EXCEPT !.due = @ \ excused]
    /\ UNCHANGED <<pc, sessionVars, memory, snapshotVars, loopVars, recordVars>>

PlatformStep ==
    \/ \E c \in Commits : Push(c) /\ UNCHANGED runVars
    \/ \E answers \in 0 .. MaxItems, atFront \in BOOLEAN :
          ChangeList(AddItem(answers, 1, atFront), {})
    \/ \E i \in DOMAIN change : ChangeList(RemoveItem(i), Behind(i))

RespondWith(response) ==
    \/ response.tag = "retry" /\ Retry
    \/ response.tag = "final" /\ (Reject(response) \/ Accept(response))
    \/ /\ response.tag = "tool"
       /\ \/ Refuse(response.call) \/ Call(response.call)
          \/ \E list \in Lists : OpenList(response.call, list)

Respond ==
    /\ pc = "model"
    /\ \E out \in Question.outputs : RespondWith(Parse(out))

RunStep ==
    \/ ResolveHead \/ LoadTree \/ LoadDocs \/ StartLoop
    \/ BuildPrompt \/ Respond \/ ReadPage \/ CloseList
    \/ GiveUp \/ Return \/ Raise \/ AfterRaise

Init ==
    /\ platform \in {"github", "gitlab"}
    /\ head \in Commits /\ change = <<>> /\ added = 0
    /\ pc = "idle" /\ asked = 0
    /\ saved = EmptyMemory /\ memory = EmptyMemory
    /\ ref = head /\ tree = <<>> /\ docs = <<>>
    /\ attempts = 0 /\ toolSteps = 0 /\ calls = <<>> /\ history = 0
    /\ heard = {} /\ prompt = NoPrompt /\ events = <<>> /\ reading = NoRead

Next == Ask \/ RunStep \/ PlatformStep

Spec == Init /\ [][Next]_vars

(* A run goes on as long as platform and model answer.                     *)
FairSpec == Spec /\ WF_vars(RunStep)

-----------------------------------------------------------------------------
(* What holds of every state.                                              *)

Summaries == [says : Blobs \cup {Error}, version : Blobs \cup {Nothing}]

Memories ==
    [task : Nat \cup {Nothing}, recent : Seq(Spellings),
     notes : Seq([words : SUBSET Words, index : Nat]), next : Nat,
     files : [Spellings -> Summaries \cup {Nothing}]]

EventTypes ==
    {"run_started", "snapshot_resolved", "memory_invalidated", "prompt_built",
     "model_retry", "tool_called", "tool_result", "assistant_delta",
     "final_answer", "run_failed"}

Building == {"resolve", "tree", "docs", "commits"}

Looping == {"prompt", "model", "paging", "listed", "completed", "failed"}

TypeOK ==
    /\ platform \in {"github", "gitlab"} /\ head \in Commits
    /\ change \in Seq(Items) /\ added \in 0 .. MaxItems
    /\ pc \in {"idle", "raised"} \cup Building \cup Looping
    /\ asked \in 0 .. Len(Questions) /\ (pc \in Building \cup Looping => asked > 0)
    /\ saved \in Memories /\ memory \in Memories
    /\ ref \in Commits
    /\ attempts \in 0 .. MaxAttempts /\ toolSteps \in Nat
    /\ events \in Seq(EventTypes)
    /\ history \in Nat
    /\ reading.page \in Nat /\ reading.items \in Seq(Items)
    /\ reading.due \subseteq Items

(* What is remembered of a path that is spelled as the platform does is    *)
(* filed under the version it was read in.                                 *)
FiledUnderItsVersion(m) ==
    \A p \in Spellings : m.files[p] # Nothing /\ m.files[p].says # Error =>
        /\ CanonicalPath[p] \in Paths
        /\ p \in Paths => m.files[p].version = m.files[p].says

(* In the loop the memory knows nothing but the commit of the snapshot.    *)
MemoryIsCurrent ==
    pc \in Looping =>
        \A p \in Spellings : memory.files[p] # Nothing /\ memory.files[p].says # Error =>
            memory.files[p].says = Version[ref][CanonicalPath[p]]

(* The tree and the documents are those of the commit that was resolved.   *)
SnapshotIsLocked ==
    /\ pc \in {"docs", "commits"} \cup Looping =>
          tree = [p \in FilesAt(ref) |-> Version[ref][p]]
    /\ pc \in {"commits"} \cup Looping =>
          docs = [d \in {n \in DocNames : CanRead(ref, n)} |-> Version[ref][d]]

PromptShowsMemory ==
    /\ pc # "model" => prompt = NoPrompt
    /\ \A p \in Spellings : prompt.files[p] \in {Nothing, memory.files[p]}
    /\ heard \cap Paths \subseteq FilesAt(ref)
    /\ pc \notin Looping => heard = {}

(* The notes that survive are the latest ones and bear different numbers,  *)
(* below the number the next one gets.                                     *)
NotesAreNumbered(m) ==
    /\ \A i, j \in DOMAIN m.notes : i < j => m.notes[i].index < m.notes[j].index
    /\ \A i \in DOMAIN m.notes : m.notes[i].index < m.next

(* Every run that returned has told its stream so, and nothing follows.    *)
Terminal == {"final_answer", "run_failed"}

ReturnedRunsAreClosed ==
    /\ pc \in {"completed", "failed"} =>
          events # <<>> /\ events[Len(events)] \in Terminal
    /\ \A i \in DOMAIN events : events[i] \in Terminal =>
          i = Len(events) /\ pc \in {"completed", "failed"}

(* An item that was there all along has been read or is still ahead.       *)
DueIsAhead ==
    /\ pc = "paging" =>
          /\ reading.page > 0
          /\ \A item \in reading.due :
               \/ item \in Range(reading.items)
               \/ \E i \in DOMAIN change :
                     change[i] = item /\ i > (reading.page - 1) * PerPage
    /\ pc = "listed" => reading.due \subseteq Range(reading.items)

(* A read under way is one of a list.                                      *)
ReadsAreOfLists ==
    pc \in {"paging", "listed"} => reading.call.tool \in PagedTools

(* The inductive invariant: a run works on the commit it locked, whatever  *)
(* is pushed meanwhile and whatever earlier runs left in the memory; its   *)
(* notes, events and page numbers are in order.                            *)
RunInvariant ==
    /\ TypeOK
    /\ FiledUnderItsVersion(saved) /\ FiledUnderItsVersion(memory)
    /\ MemoryIsCurrent
    /\ SnapshotIsLocked
    /\ PromptShowsMemory
    /\ NotesAreNumbered(saved) /\ NotesAreNumbered(memory)
    /\ ReturnedRunsAreClosed
    /\ DueIsAhead
    /\ ReadsAreOfLists

-----------------------------------------------------------------------------
(* Properties.                                                             *)

(* What the model is told of a file, by the memory or by a listing, is     *)
(* what the file is at the commit the run is about, or an error text: no   *)
(* earlier run, no push while it works and no other spelling of the path   *)
(* makes it anything else.                                                 *)
PromptsTellTheSnapshot ==
    /\ \A p \in Spellings :
          prompt.files[p] # Nothing /\ prompt.files[p].says # Error =>
              /\ CanonicalPath[p] \in Paths
              /\ prompt.files[p].says = Version[ref][CanonicalPath[p]]
    /\ heard \cap Paths \subseteq FilesAt(ref)

(* No prompt is longer than the budget while a section is above its floor; *)
(* no section gives up more than is needed, goes below its floor or gives  *)
(* up anything while one before it in the order is above its floor.        *)
PromptsAreTight ==
    prompt # NoPrompt =>
        /\ \/ prompt.length <= TotalBudget
           \/ \A s \in Sections : prompt.budget[s] <= SectionFloor[s]
        /\ \/ prompt.budget = SectionBudget
           \/ prompt.length >= TotalBudget
        /\ \A s \in Sections :
              prompt.budget[s] >= Min({SectionFloor[s], SectionBudget[s]})
        /\ \A i, j \in DOMAIN ReductionOrder :
              i < j /\ prompt.budget[ReductionOrder[j]]
                          < SectionBudget[ReductionOrder[j]] =>
                  prompt.budget[ReductionOrder[i]]
                      <= SectionFloor[ReductionOrder[i]]

(* A list read page by page lacks an item that was there all along only if *)
(* an item listed before it was taken out meanwhile, or if it says that it *)
(* was cut.                                                                *)
ListsMissOnlyAfterRemovals ==
    pc = "listed" =>
        LET result == JsonResult(Entries(reading.call.tool, reading.items))
        IN  \/ result.count > Len(result.shown)
            \/ {item.id : item \in reading.due} \subseteq UNION Range(result.shown)

(* Every question comes to an end, whatever the model answers.             *)
EveryRunEnds == pc = "resolve" ~> pc = "idle"
=============================================================================
