--------------------------- MODULE AgentRunProofs ---------------------------
(***************************************************************************)
(* Proofs about AgentRun: for any repository, any tool calls the model    *)
(* may put out and any number of questions.                                *)
(***************************************************************************)
EXTENDS AgentRun, TLAPS, WellFoundedInduction, FiniteSetTheorems,
        SequenceTheorems

(***************************************************************************)
(* The shape of a memory as far as the files in it are concerned.          *)
(***************************************************************************)
Fields == {"task", "recent", "notes", "next", "files"}

Remembers(m) ==
    /\ m = [f \in Fields |-> m[f]]
    /\ m.files \in [Spellings -> Summaries \cup {Nothing}]

ShapeOK ==
    /\ Remembers(saved) /\ Remembers(memory)
    /\ head \in Commits /\ ref \in Commits
    /\ prompt = NoPrompt \/ pc = "model"

SnapshotInvariant ==
    /\ ShapeOK
    /\ FiledUnderItsVersion(saved) /\ FiledUnderItsVersion(memory)
    /\ MemoryIsCurrent
    /\ SnapshotIsLocked
    /\ PromptShowsMemory

(***************************************************************************)
(* What goes through Normalize keeps its files.                            *)
(***************************************************************************)
LEMMA NormalizeKeepsFiles ==
    ASSUME NEW m, Remembers(m)
    PROVE  Remembers(Normalize(m)) /\ Normalize(m).files = m.files
BY DEF Remembers, Normalize, Fields

(***************************************************************************)
(* A file of a commit has a content that is no mark of anything else, and  *)
(* a locked read is a read of the commit.                                  *)
(***************************************************************************)
LEMMA FilesHaveContents ==
    ASSUME NEW c \in Commits
    PROVE  /\ At(c) = c
           /\ \A p \in FilesAt(c) : /\ p \in Paths /\ p \in Spellings
                                    /\ CanonicalPath[p] = p
                                    /\ Version[c][p] \in Blobs
                                    /\ Version[c][p] # Nothing /\ Version[c][p] # Error
BY RepositoryAssumption, GatewayAssumption DEF At, FilesAt

(***************************************************************************)
(* A tree that is listed from its root names the files of the commit and   *)
(* otherwise folders only.                                                 *)
(***************************************************************************)
LEMMA TreesNameTheFiles ==
    ASSUME NEW c \in Commits, NEW scope, NEW entries \in ListTree(c, scope)
    PROVE  /\ {e.path : e \in entries} \cap Paths \subseteq FilesAt(c)
           /\ scope = Root => {e.path : e \in entries} \cap Paths = FilesAt(c)
<1>1. At(c) = c
  BY FilesHaveContents
<1>2. \A e \in FolderEntries(c) : e.path \in Directories
  <2>1. SUFFICES ASSUME NEW p \in FilesAt(c), NEW d \in Above[p]
                 PROVE  d \in Directories
    BY DEF FolderEntries
  <2> QED
    BY RepositoryAssumption DEF FilesAt
<1>3. \A e \in FileEntries(c) : e.path \in FilesAt(c)
  BY DEF FileEntries
<1>4. Directories \cap Paths = {}
  BY RepositoryAssumption
<1>5. /\ entries \subseteq FileEntries(c) \cup FolderEntries(c)
      /\ scope = Root => FileEntries(c) \subseteq entries
  BY <1>1 DEF ListTree, GitHubTrees, GitLabTree, WalkContents, Scoped, MatchesScope
<1>6. \A p \in FilesAt(c) : [path |-> p, type |-> "blob"] \in FileEntries(c)
  BY DEF FileEntries
<1>7. FilesAt(c) \subseteq Paths
  BY DEF FilesAt
<1>8. \A e \in entries : e.path \in Paths => e.path \in FilesAt(c)
  BY <1>2, <1>3, <1>4, <1>5
<1>9. ASSUME scope = Root, NEW p \in FilesAt(c)
      PROVE  p \in {e.path : e \in entries}
  <2>1. [path |-> p, type |-> "blob"] \in entries
    BY <1>5, <1>6, <1>9
  <2> QED
    BY <2>1
<1> QED
  BY <1>7, <1>8, <1>9

-----------------------------------------------------------------------------
(***************************************************************************)
(* A memory that tells of a commit, and how the operations on memories     *)
(* keep it so.                                                             *)
(***************************************************************************)
TellsOf(m, c) ==
    \A p \in Spellings : m.files[p] # Nothing /\ m.files[p].says # Error =>
        m.files[p].says = Version[c][CanonicalPath[p]]

(***************************************************************************)
(* A text that may be remembered of a path: none, an error, or that of the *)
(* file it denotes, under the version of that file.                        *)
(***************************************************************************)
MayBeFiled(c, path, text, version) ==
    \/ text \in {Nothing, Error}
    \/ /\ path \in Spellings => CanonicalPath[path] \in FilesAt(c)
       /\ text = Version[c][CanonicalPath[path]]
       /\ path \in Paths => version = text

(* A file that is filed under the version of its text leaves a memory      *)
(* whose texts are still under their versions.                             *)
LEMMA RememberFileFits ==
    ASSUME NEW m, Remembers(m), FiledUnderItsVersion(m),
           NEW c \in Commits, TellsOf(m, c),
           NEW path, NEW text \in Blobs \cup {Nothing, Error},
           NEW version \in Blobs \cup {Nothing},
           MayBeFiled(c, path, text, version)
    PROVE  LET n == RememberFile(m, path, text, version)
           IN  Remembers(n) /\ FiledUnderItsVersion(n) /\ TellsOf(n, c)
<1> DEFINE base == [m EXCEPT
                !.recent = Append(Without(@, path), path),
                !.files[path] = IF text = Nothing THEN Nothing
                                ELSE [says |-> text, version |-> version]]
           n == RememberFile(m, path, text, version)
<1>1. n = Normalize(base)
  BY DEF RememberFile
<1>2. [says |-> text, version |-> version] \in Summaries \/ text = Nothing
  BY DEF Summaries
<1>3. Remembers(base)
  BY <1>2 DEF Remembers, Fields
<1>4. \A p \in Spellings : base.files[p] =
          IF p = path
          THEN IF text = Nothing THEN Nothing ELSE [says |-> text, version |-> version]
          ELSE m.files[p]
  BY DEF Remembers, Fields
<1> HIDE DEF base
<1>5. Remembers(n) /\ n.files = base.files
  BY <1>1, <1>3, NormalizeKeepsFiles
<1>6. \A p \in FilesAt(c) : p \in Paths
  BY FilesHaveContents
<1> HIDE DEF n
<1>7. FiledUnderItsVersion(n)
  BY <1>4, <1>5, <1>6 DEF FiledUnderItsVersion, MayBeFiled
<1>8. TellsOf(n, c)
  BY <1>4, <1>5 DEF TellsOf, MayBeFiled
<1> QED
  BY <1>5, <1>7, <1>8 DEF n

(* An answer joins the memory and leaves its files as they were.           *)
LEMMA RememberAnswerKeepsFiles ==
    ASSUME NEW m, Remembers(m), NEW task, NEW words
    PROVE  LET n == RememberAnswer(m, task, words)
           IN  Remembers(n) /\ n.files = m.files
<1> DEFINE base == [m EXCEPT !.task = task,
                 !.notes = Append(@, [words |-> words, index |-> m.next]),
                 !.next = @ + 1]
<1>1. Remembers(base) /\ base.files = m.files
  BY DEF Remembers, Fields
<1> HIDE DEF base
<1>2. Remembers(Normalize(base)) /\ Normalize(base).files = m.files
  BY <1>1, NormalizeKeepsFiles
<1> QED
  BY <1>2 DEF RememberAnswer, base

(***************************************************************************)
(* After the purge the memory tells of the commit of the tree.             *)
(***************************************************************************)
LEMMA PurgedMemoryIsCurrent ==
    ASSUME NEW m, Remembers(m), FiledUnderItsVersion(m), NEW c \in Commits,
           NEW versions, versions = [p \in FilesAt(c) |-> Version[c][p]]
    PROVE  LET n == InvalidateStale(m, versions)
           IN  Remembers(n) /\ FiledUnderItsVersion(n) /\ TellsOf(n, c)
<1> DEFINE n == InvalidateStale(m, versions)
<1>1. Remembers(Normalize(m)) /\ Normalize(m).files = m.files
  BY NormalizeKeepsFiles
<1>2. n = [Normalize(m) EXCEPT !.files =
             [p \in Spellings |->
                IF /\ p \in DOMAIN versions
                   /\ m.files[p] # Nothing
                   /\ versions[p] \in {Nothing, m.files[p].version}
                THEN m.files[p] ELSE Nothing]]
  BY <1>1 DEF InvalidateStale
<1>3. \A p \in Spellings : m.files[p] \in Summaries \cup {Nothing}
  BY DEF Remembers
<1>4. Remembers(n)
  BY <1>1, <1>2, <1>3 DEF Remembers, Fields
<1>5. \A p \in Spellings : n.files[p] # Nothing =>
          /\ n.files[p] = m.files[p]
          /\ p \in FilesAt(c)
          /\ Version[c][p] \in {Nothing, m.files[p].version}
  BY <1>1, <1>2 DEF Remembers, Fields
<1> HIDE DEF n
<1>6. \A p \in FilesAt(c) :
          p \in Paths /\ CanonicalPath[p] = p /\ Version[c][p] # Nothing
  BY FilesHaveContents
<1>7. FiledUnderItsVersion(n)
  BY <1>5 DEF FiledUnderItsVersion
<1>8. TellsOf(n, c)
  BY <1>5, <1>6 DEF TellsOf, FiledUnderItsVersion
<1> QED
  BY <1>4, <1>7, <1>8 DEF n

-----------------------------------------------------------------------------
(***************************************************************************)
(* Steps.  First the end of a tool call, whatever it returned.             *)
(***************************************************************************)
LEMMA EmptyMemoryIsFine ==
    /\ Remembers(EmptyMemory) /\ FiledUnderItsVersion(EmptyMemory)
BY DEF Remembers, EmptyMemory, Fields, FiledUnderItsVersion

(* Before the first prompt nothing is shown of any file.                   *)
LEMMA NoPromptIsEmpty == \A p \in Spellings : NoPrompt.files[p] = Nothing
BY DEF NoPrompt

(* The version a call names is a text or none.                             *)
LEMMA VersionsAreContents ==
    ASSUME SnapshotInvariant, pc \in Looping, NEW c
    PROVE  VersionOf(c) \in Blobs \cup {Nothing}
<1>1. \A p \in FilesAt(ref) : Version[ref][p] \in Blobs
  BY FilesHaveContents DEF SnapshotInvariant, ShapeOK
<1>2. tree = [p \in FilesAt(ref) |-> Version[ref][p]]
  BY DEF SnapshotInvariant, SnapshotIsLocked
<1>3. docs = [d \in {n \in DocNames : CanRead(ref, n)} |-> Version[ref][d]]
  BY DEF SnapshotInvariant, SnapshotIsLocked, Looping
<1>4. At(ref) = ref
  BY FilesHaveContents DEF SnapshotInvariant, ShapeOK
<1>5. \A d \in DOMAIN docs : d \in FilesAt(ref) /\ docs[d] = Version[ref][d]
  BY <1>3, <1>4 DEF CanRead, IsFile
<1> QED
  BY <1>1, <1>2, <1>5 DEF VersionOf

(* A call that ends files what it read at the commit of the snapshot.      *)
LEMMA FinishKeepsSnapshot ==
    ASSUME SnapshotInvariant, pc \in {"model", "listed"}, pc' = "prompt",
           NEW c, NEW text \in Blobs \cup {Nothing, Error}, NEW names,
           Finish(c, text, names),
           c.tool \in {"read_file", "read_project_doc"} =>
               MayBeFiled(ref, c.path, text, VersionOf(c)),
           names \cap Paths \subseteq FilesAt(ref)
    PROVE  SnapshotInvariant'
<1> USE DEF SnapshotInvariant
<1>1. pc \in Looping /\ pc' \in Looping /\ pc' # "model"
  BY DEF Looping
<1>2. TellsOf(memory, ref) /\ ref \in Commits
  BY <1>1 DEF MemoryIsCurrent, TellsOf, ShapeOK
<1>3. /\ head' = head /\ saved' = saved /\ ref' = ref /\ tree' = tree /\ docs' = docs
      /\ heard' = names /\ prompt' = NoPrompt
      /\ Remember(c, text)
  BY DEF Finish, sessionVars, snapshotVars
<1>4. Remembers(memory') /\ FiledUnderItsVersion(memory') /\ TellsOf(memory', ref)
  <2>1. CASE c.tool \in {"read_file", "read_project_doc"}
    <3>1. VersionOf(c) \in Blobs \cup {Nothing}
      BY <1>1, VersionsAreContents
    <3>2. memory' = RememberFile(memory, c.path, text, VersionOf(c))
      BY <1>3, <2>1 DEF Remember
    <3>3. MayBeFiled(ref, c.path, text, VersionOf(c))
      BY <2>1
    <3> QED
      BY <1>2, <3>1, <3>2, <3>3, RememberFileFits DEF ShapeOK
  <2>2. CASE c.tool \notin {"read_file", "read_project_doc"}
    <3>1. memory' = Normalize(memory)
      BY <1>3, <2>2 DEF Remember
    <3>2. Remembers(memory') /\ memory'.files = memory.files
      BY <3>1, NormalizeKeepsFiles DEF ShapeOK
    <3> QED
      BY <1>2, <3>2 DEF TellsOf, FiledUnderItsVersion
  <2> QED
    BY <2>1, <2>2
<1>5. ShapeOK'
  BY <1>3, <1>4 DEF ShapeOK
<1>6. FiledUnderItsVersion(saved)' /\ FiledUnderItsVersion(memory)'
  BY <1>3, <1>4
<1>7. MemoryIsCurrent'
  BY <1>3, <1>4 DEF MemoryIsCurrent, TellsOf
<1>8. SnapshotIsLocked'
  <2>1. /\ tree = [p \in FilesAt(ref) |-> Version[ref][p]]
        /\ docs = [d \in {n \in DocNames : CanRead(ref, n)} |-> Version[ref][d]]
    BY <1>1 DEF SnapshotIsLocked
  <2>2. \A n : CanRead(ref, n)' <=> CanRead(ref, n)
    BY <1>2, <1>3, RepositoryAssumption DEF CanRead, IsFile, Decodes, At, FilesAt
  <2> QED
    BY <1>3, <2>1, <2>2 DEF SnapshotIsLocked, FilesAt
<1>9. PromptShowsMemory'
  BY <1>1, <1>3, NoPromptIsEmpty DEF PromptShowsMemory, FilesAt
<1> QED
  BY <1>5, <1>6, <1>7, <1>8, <1>9

(***************************************************************************)
(* The documents and files of a commit do not depend on where the branch   *)
(* is now.                                                                 *)
(***************************************************************************)
LEMMA CommitsStay ==
    ASSUME ref \in Commits, ref' = ref
    PROVE  /\ FilesAt(ref)' = FilesAt(ref)
           /\ \A n : CanRead(ref, n)' <=> CanRead(ref, n)
BY RepositoryAssumption DEF CanRead, IsFile, Decodes, At, FilesAt

(***************************************************************************)
(* A step that leaves memory and snapshot alone, and the prompt or its     *)
(* place, cannot harm.                                                     *)
(***************************************************************************)
LEMMA QuietSteps ==
    ASSUME SnapshotInvariant,
           UNCHANGED <<saved, memory, snapshotVars>>,
           head' \in Commits,
           pc' \in Looping => pc \in Looping,
           pc' \in {"docs", "commits"} => pc' = pc,
           \/ prompt' = NoPrompt
           \/ (prompt' = prompt /\ pc' = pc),
           heard' = {} \/ (heard' = heard /\ (pc' \in Looping \/ pc' = pc))
    PROVE  SnapshotInvariant'
<1> USE DEF SnapshotInvariant
<1>1. /\ ref' = ref /\ tree' = tree /\ docs' = docs /\ memory' = memory /\ saved' = saved
      /\ ref \in Commits
  BY DEF snapshotVars, ShapeOK
<1>2. ShapeOK'
  BY <1>1 DEF ShapeOK
<1>3. FiledUnderItsVersion(saved)' /\ FiledUnderItsVersion(memory)'
  BY <1>1
<1>4. MemoryIsCurrent'
  BY <1>1 DEF MemoryIsCurrent
<1>5. SnapshotIsLocked'
  BY <1>1, CommitsStay DEF SnapshotIsLocked, FilesAt
<1>6. PromptShowsMemory'
  BY <1>1, NoPromptIsEmpty DEF PromptShowsMemory, FilesAt
<1> QED
  BY <1>2, <1>3, <1>4, <1>5, <1>6

(***************************************************************************)
(* A step that forgets the run.                                            *)
(***************************************************************************)
LEMMA ForgettingSteps ==
    ASSUME SnapshotInvariant, Forget, pc' \in {"idle", "raised"},
           saved' \in {saved, memory}
    PROVE  SnapshotInvariant'
<1> USE DEF SnapshotInvariant
<1>1. /\ memory' = EmptyMemory /\ prompt' = NoPrompt /\ heard' = {}
      /\ ref' = ref /\ head' = head
  BY DEF Forget
<1>2. ShapeOK'
  BY <1>1, EmptyMemoryIsFine DEF ShapeOK
<1>3. FiledUnderItsVersion(saved)' /\ FiledUnderItsVersion(memory)'
  BY <1>1, EmptyMemoryIsFine
<1>4. MemoryIsCurrent' /\ SnapshotIsLocked'
  BY DEF MemoryIsCurrent, SnapshotIsLocked, Looping
<1>5. PromptShowsMemory'
  BY <1>1, NoPromptIsEmpty DEF PromptShowsMemory
<1> QED
  BY <1>2, <1>3, <1>4, <1>5

-----------------------------------------------------------------------------
(* A run begins with nothing filed.                                        *)
LEMMA InitIsFine == Init => SnapshotInvariant
<1> SUFFICES ASSUME Init PROVE SnapshotInvariant
  OBVIOUS
<1>1. ShapeOK /\ FiledUnderItsVersion(saved) /\ FiledUnderItsVersion(memory)
  BY EmptyMemoryIsFine DEF Init, ShapeOK
<1>2. MemoryIsCurrent /\ SnapshotIsLocked
  BY DEF Init, MemoryIsCurrent, SnapshotIsLocked, Looping
<1>3. PromptShowsMemory
  BY NoPromptIsEmpty DEF Init, PromptShowsMemory
<1> QED
  BY <1>1, <1>2, <1>3 DEF SnapshotInvariant

(***************************************************************************)
(* The snapshot is built of the commit that was resolved, and the memory   *)
(* is purged of everything else.                                           *)
(***************************************************************************)
LEMMA BuildingKeepsSnapshot ==
    SnapshotInvariant /\ (Ask \/ ResolveHead \/ LoadTree \/ LoadDocs \/ StartLoop)
        => SnapshotInvariant'
<1> SUFFICES ASSUME SnapshotInvariant PROVE
        Ask \/ ResolveHead \/ LoadTree \/ LoadDocs \/ StartLoop => SnapshotInvariant'
  OBVIOUS
<1> USE DEF SnapshotInvariant
<1>1. ref \in Commits /\ head \in Commits
  BY DEF ShapeOK
<1>2. ASSUME Ask PROVE SnapshotInvariant'
  <2>1. /\ memory' = Normalize(saved) /\ saved' = saved /\ ref' = ref /\ head' = head
        /\ prompt' = NoPrompt /\ heard' = {} /\ pc' = "resolve"
    BY <1>2 DEF Ask, Goto, platformVars, snapshotVars
  <2>2. Remembers(memory') /\ memory'.files = saved.files
    BY <2>1, NormalizeKeepsFiles DEF ShapeOK
  <2>3. ShapeOK' /\ FiledUnderItsVersion(saved)' /\ FiledUnderItsVersion(memory)'
    BY <2>1, <2>2 DEF ShapeOK, FiledUnderItsVersion
  <2>4. MemoryIsCurrent' /\ SnapshotIsLocked' /\ PromptShowsMemory'
    BY <2>1, NoPromptIsEmpty DEF MemoryIsCurrent, SnapshotIsLocked, PromptShowsMemory, Looping
  <2> QED
    BY <2>3, <2>4
<1>3. ASSUME ResolveHead PROVE SnapshotInvariant'
  <2>1. /\ memory' = memory /\ saved' = saved /\ ref' = head /\ head' = head
        /\ prompt' = prompt /\ heard' = heard /\ pc' = "tree" /\ pc = "resolve"
    BY <1>3 DEF ResolveHead, Goto, platformVars, sessionVars, loopVars, recordVars
  <2>2. prompt = NoPrompt /\ heard = {}
    BY <2>1 DEF PromptShowsMemory, Looping
  <2>3. ShapeOK' /\ FiledUnderItsVersion(saved)' /\ FiledUnderItsVersion(memory)'
    BY <1>1, <2>1, <2>2 DEF ShapeOK
  <2>4. MemoryIsCurrent' /\ SnapshotIsLocked' /\ PromptShowsMemory'
    BY <2>1, <2>2, NoPromptIsEmpty
    DEF MemoryIsCurrent, SnapshotIsLocked, PromptShowsMemory, Looping
  <2> QED
    BY <2>3, <2>4
<1>4. ASSUME LoadTree PROVE SnapshotInvariant'
  <2>1. /\ memory' = memory /\ saved' = saved /\ ref' = ref /\ head' = head
        /\ prompt' = prompt /\ heard' = heard /\ pc' = "docs" /\ pc = "tree"
    BY <1>4 DEF LoadTree, Goto, platformVars, sessionVars, loopVars, recordVars
  <2>2. PICK entries \in ListTree(ref, Root) : tree' = Versions(entries, ref)
    BY <1>4 DEF LoadTree
  <2>3. {e.path : e \in entries} \cap Paths = FilesAt(ref)
    BY <1>1, TreesNameTheFiles
  <2>4. tree' = [p \in FilesAt(ref) |-> Version[ref][p]]
    BY <2>2, <2>3 DEF Versions
  <2>5. prompt = NoPrompt /\ heard = {}
    BY <2>1 DEF PromptShowsMemory, Looping
  <2>6. ShapeOK' /\ FiledUnderItsVersion(saved)' /\ FiledUnderItsVersion(memory)'
    BY <2>1, <2>5 DEF ShapeOK
  <2>7. MemoryIsCurrent' /\ SnapshotIsLocked' /\ PromptShowsMemory'
    BY <2>1, <2>4, <2>5, NoPromptIsEmpty
    DEF MemoryIsCurrent, SnapshotIsLocked, PromptShowsMemory, Looping, FilesAt
  <2> QED
    BY <2>6, <2>7
<1>5. ASSUME LoadDocs PROVE SnapshotInvariant'
  <2>1. /\ memory' = memory /\ saved' = saved /\ ref' = ref /\ head' = head /\ tree' = tree
        /\ prompt' = prompt /\ heard' = heard /\ pc' = "commits" /\ pc = "docs"
        /\ docs' = [d \in {n \in DocNames : CanRead(ref, n)} |-> Version[ref][d]]
    BY <1>5 DEF LoadDocs, Goto, platformVars, sessionVars, loopVars, recordVars
  <2>2. prompt = NoPrompt /\ heard = {}
    BY <2>1 DEF PromptShowsMemory, Looping
  <2>3. ShapeOK' /\ FiledUnderItsVersion(saved)' /\ FiledUnderItsVersion(memory)'
    BY <2>1, <2>2 DEF ShapeOK
  <2>4. SnapshotIsLocked'
    BY <1>1, <2>1, CommitsStay DEF SnapshotIsLocked, Looping, FilesAt
  <2>5. MemoryIsCurrent' /\ PromptShowsMemory'
    BY <2>1, <2>2, NoPromptIsEmpty DEF MemoryIsCurrent, PromptShowsMemory, Looping
  <2> QED
    BY <2>3, <2>4, <2>5
<1>6. ASSUME StartLoop PROVE SnapshotInvariant'
  <2>1. /\ memory' = InvalidateStale(memory, tree) /\ saved' = saved /\ ref' = ref
        /\ head' = head /\ tree' = tree /\ docs' = docs
        /\ prompt' = prompt /\ heard' = heard /\ pc' = "prompt" /\ pc = "commits"
    BY <1>6 DEF StartLoop, Goto, platformVars, sessionVars, snapshotVars, loopVars
  <2>2. tree = [p \in FilesAt(ref) |-> Version[ref][p]]
    BY <2>1 DEF SnapshotIsLocked
  <2>3. Remembers(memory') /\ FiledUnderItsVersion(memory') /\ TellsOf(memory', ref)
    BY <1>1, <2>1, <2>2, PurgedMemoryIsCurrent DEF ShapeOK
  <2>4. prompt = NoPrompt /\ heard = {}
    BY <2>1 DEF PromptShowsMemory, Looping
  <2>5. ShapeOK' /\ FiledUnderItsVersion(saved)' /\ FiledUnderItsVersion(memory)'
    BY <2>1, <2>3, <2>4 DEF ShapeOK
  <2>6. MemoryIsCurrent'
    BY <2>1, <2>3 DEF MemoryIsCurrent, TellsOf
  <2>7. SnapshotIsLocked'
    BY <1>1, <2>1, CommitsStay DEF SnapshotIsLocked, Looping, FilesAt
  <2>8. PromptShowsMemory'
    BY <2>1, <2>4, NoPromptIsEmpty DEF PromptShowsMemory
  <2> QED
    BY <2>5, <2>6, <2>7, <2>8
<1> QED
  BY <1>2, <1>3, <1>4, <1>5, <1>6

(***************************************************************************)
(* A prompt shows of every file what the memory has, or nothing.           *)
(***************************************************************************)
LEMMA PromptsKeepSnapshot ==
    SnapshotInvariant /\ BuildPrompt => SnapshotInvariant'
<1> SUFFICES ASSUME SnapshotInvariant, BuildPrompt PROVE SnapshotInvariant'
  OBVIOUS
<1> USE DEF SnapshotInvariant
<1>1. /\ memory' = memory /\ saved' = saved /\ ref' = ref /\ head' = head
      /\ tree' = tree /\ docs' = docs /\ heard' = heard
      /\ pc = "prompt" /\ pc' = "model"
  BY DEF BuildPrompt, Goto, platformVars, sessionVars, snapshotVars
<1>2. \A p \in Spellings : prompt'.files[p] \in {Nothing, memory.files[p]}
  BY DEF BuildPrompt
<1>3. ShapeOK' /\ FiledUnderItsVersion(saved)' /\ FiledUnderItsVersion(memory)'
  BY <1>1 DEF ShapeOK
<1>4. MemoryIsCurrent'
  BY <1>1 DEF MemoryIsCurrent, Looping
<1>5. SnapshotIsLocked'
  BY <1>1, CommitsStay DEF SnapshotIsLocked, Looping, ShapeOK, FilesAt
<1>6. PromptShowsMemory'
  BY <1>1, <1>2 DEF PromptShowsMemory, FilesAt, Looping
<1> QED
  BY <1>3, <1>4, <1>5, <1>6

(***************************************************************************)
(* What a call returns and names is of the commit.                         *)
(***************************************************************************)
LEMMA CallsTellTheCommit ==
    ASSUME SnapshotInvariant, pc = "model", NEW c,
           c.tool \notin PagedTools, ~IsRefused(c, docs, calls), ~Raises(c, ref)
    PROVE  /\ Text(c) \in Blobs \cup {Nothing}
           /\ c.tool \in {"read_file", "read_project_doc"} =>
                  MayBeFiled(ref, c.path, Text(c), VersionOf(c))
           /\ \A names \in Named(c, ref) : names \cap Paths \subseteq FilesAt(ref)
<1> USE DEF SnapshotInvariant
<1>1. ref \in Commits /\ At(ref) = ref
  BY FilesHaveContents DEF ShapeOK
<1>2. /\ tree = [p \in FilesAt(ref) |-> Version[ref][p]]
      /\ docs = [d \in {n \in DocNames : CanRead(ref, n)} |-> Version[ref][d]]
  BY DEF SnapshotIsLocked, Looping
<1>3. \A p \in FilesAt(ref) : /\ p \in Paths /\ p \in Spellings /\ CanonicalPath[p] = p
                              /\ Version[ref][p] \in Blobs
  BY <1>1, FilesHaveContents
<1>4. \A p \in Paths : CanonicalPath[p] = p
  BY GatewayAssumption
<1>5. CASE c.tool = "read_file"
  <2>1. CanonicalPath[c.path] \in FilesAt(ref)
    BY <1>1, <1>5 DEF Raises, CanRead, IsFile
  <2>2. Text(c) \in {Nothing, Version[ref][CanonicalPath[c.path]]}
    BY <1>1, <1>5 DEF Text, ReadText
  <2>3. c.path \in Paths => VersionOf(c) = Version[ref][CanonicalPath[c.path]]
    BY <1>2, <1>4, <1>5, <2>1 DEF VersionOf
  <2>4. Named(c, ref) = {{}}
    BY <1>5 DEF Named
  <2> QED
    BY <1>3, <2>1, <2>2, <2>3, <2>4 DEF MayBeFiled
<1>6. CASE c.tool = "read_project_doc"
  <2>1. c.path \in DOMAIN docs
    BY <1>6 DEF IsRefused, IsValid, ChangeTools
  <2>2. c.path \in FilesAt(ref)
    BY <1>1, <1>2, <2>1 DEF CanRead, IsFile
  <2>3. Text(c) = Version[ref][c.path] /\ VersionOf(c) = Version[ref][c.path]
    BY <1>2, <1>6, <2>1 DEF Text, VersionOf
  <2>4. Named(c, ref) = {{}}
    BY <1>6 DEF Named
  <2> QED
    BY <1>3, <2>2, <2>3, <2>4 DEF MayBeFiled
<1>7. CASE c.tool \notin {"read_file", "read_project_doc"}
  <2>1. Text(c) = Nothing
    BY <1>7 DEF Text
  <2>2. ASSUME NEW names \in Named(c, ref)
        PROVE  names \cap Paths \subseteq FilesAt(ref)
    <3>1. CASE c.tool = "list_files"
      <4>1. PICK entries \in ListTree(ref, CanonicalPath[c.path]) :
                names \subseteq {e.path : e \in entries}
        BY <2>2, <3>1 DEF Named, Cut
      <4>2. {e.path : e \in entries} \cap Paths \subseteq FilesAt(ref)
        BY <1>1, TreesNameTheFiles
      <4> QED
        BY <4>1, <4>2
    <3>2. CASE c.tool = "search_code"
      BY <1>1, <2>2, <3>2 DEF Named, Cut, SearchCode
    <3>3. CASE c.tool \notin {"list_files", "search_code"}
      BY <2>2, <3>3 DEF Named
    <3> QED
      BY <3>1, <3>2, <3>3
  <2> QED
    BY <1>7, <2>1, <2>2
<1> QED
  BY <1>5, <1>6, <1>7

(* Whatever the model answers, what is filed was read at the commit of the *)
(* run.                                                                    *)
LEMMA ResponsesKeepSnapshot ==
    SnapshotInvariant /\ Respond => SnapshotInvariant'
<1> SUFFICES ASSUME SnapshotInvariant, Respond PROVE SnapshotInvariant'
  OBVIOUS
<1>1. pc = "model" /\ ref \in Commits /\ head \in Commits
  BY DEF Respond, SnapshotInvariant, ShapeOK
<1>2. PICK out \in Question.outputs : RespondWith(Parse(out))
  BY DEF Respond
<1> DEFINE response == Parse(out)
<1> HIDE DEF response
<1>3. RespondWith(response)
  BY <1>2 DEF response
<1>4. ASSUME Retry PROVE SnapshotInvariant'
  BY <1>1, <1>4, QuietSteps DEF Retry, Goto, platformVars, sessionVars, Looping
<1>5. ASSUME Accept(response) PROVE SnapshotInvariant'
  <2>1. /\ memory' = RememberAnswer(memory, asked, response.words)
        /\ saved' = saved /\ ref' = ref /\ head' = head /\ tree' = tree /\ docs' = docs
        /\ prompt' = NoPrompt /\ heard' = heard /\ pc' = "completed"
    BY <1>5 DEF Accept, Goto, platformVars, sessionVars, snapshotVars, loopVars
  <2>2. Remembers(memory') /\ memory'.files = memory.files
    BY <2>1, RememberAnswerKeepsFiles DEF SnapshotInvariant, ShapeOK
  <2>3. ShapeOK' /\ FiledUnderItsVersion(saved)' /\ FiledUnderItsVersion(memory)'
    BY <2>1, <2>2 DEF SnapshotInvariant, ShapeOK, FiledUnderItsVersion
  <2>4. MemoryIsCurrent'
    BY <1>1, <2>1, <2>2 DEF SnapshotInvariant, MemoryIsCurrent, Looping
  <2>5. SnapshotIsLocked'
    BY <1>1, <2>1, CommitsStay
    DEF SnapshotInvariant, SnapshotIsLocked, Looping, FilesAt
  <2>6. PromptShowsMemory'
    BY <1>1, <2>1, NoPromptIsEmpty
    DEF SnapshotInvariant, PromptShowsMemory, FilesAt, Looping
  <2> QED
    BY <2>3, <2>4, <2>5, <2>6 DEF SnapshotInvariant
<1> DEFINE c == response.call
<1> HIDE DEF c
<1>6. ASSUME Refuse(c) PROVE SnapshotInvariant'
  <2>1. Finish(c, Error, {}) /\ pc' = "prompt"
    BY <1>6 DEF Refuse, Goto
  <2>2. MayBeFiled(ref, c.path, Error, VersionOf(c))
    BY DEF MayBeFiled
  <2> QED
    BY <1>1, <2>1, <2>2, FinishKeepsSnapshot
<1>7. ASSUME Call(c) PROVE SnapshotInvariant'
  <2>1. /\ pc' = "prompt"
        /\ c.tool \notin PagedTools /\ ~IsRefused(c, docs, calls) /\ ~Raises(c, ref)
    BY <1>7 DEF Call, Goto
  <2>2. PICK names \in Named(c, ref) : Finish(c, Text(c), names)
    BY <1>7 DEF Call
  <2>3. /\ Text(c) \in Blobs \cup {Nothing, Error}
        /\ c.tool \in {"read_file", "read_project_doc"} =>
               MayBeFiled(ref, c.path, Text(c), VersionOf(c))
        /\ names \cap Paths \subseteq FilesAt(ref)
    BY <1>1, <2>1, CallsTellTheCommit
  <2> QED
    BY <1>1, <2>1, <2>2, <2>3, FinishKeepsSnapshot
<1>8. ASSUME NEW list, OpenList(c, list) PROVE SnapshotInvariant'
  BY <1>1, <1>8, QuietSteps DEF OpenList, Goto, sessionVars, Looping
<1> QED
  BY <1>3, <1>4, <1>5, <1>6, <1>7, <1>8 DEF RespondWith, Reject, c

(* Pages, lists that end and the ends of a run file nothing at another     *)
(* commit.                                                                 *)
LEMMA EndingsKeepSnapshot ==
    SnapshotInvariant /\ (ReadPage \/ CloseList \/ GiveUp \/ Return \/ Raise \/ AfterRaise)
        => SnapshotInvariant'
<1> SUFFICES ASSUME SnapshotInvariant
             PROVE  ReadPage \/ CloseList \/ GiveUp \/ Return \/ Raise \/ AfterRaise
                        => SnapshotInvariant'
  OBVIOUS
<1>1. head \in Commits
  BY DEF SnapshotInvariant, ShapeOK
<1>2. ASSUME ReadPage PROVE SnapshotInvariant'
  <2>1. prompt = NoPrompt /\ pc = "paging"
    BY <1>2 DEF ReadPage, SnapshotInvariant, ShapeOK
  <2>2. /\ UNCHANGED <<saved, memory, snapshotVars>> /\ head' = head
        /\ prompt' = prompt /\ heard' = heard /\ pc' \in {"paging", "listed"}
    BY <1>2, <2>1
    DEF ReadPage, platformVars, sessionVars, loopVars, recordVars
  <2> QED
    BY <1>1, <2>1, <2>2, QuietSteps DEF Looping
<1>3. ASSUME CloseList PROVE SnapshotInvariant'
  <2>1. /\ Finish(reading.call, Nothing, {}) /\ pc = "listed" /\ pc' = "prompt"
        /\ MayBeFiled(ref, reading.call.path, Nothing, VersionOf(reading.call))
    BY <1>3 DEF CloseList, Goto, MayBeFiled
  <2> QED
    BY <2>1, FinishKeepsSnapshot
<1>4. ASSUME GiveUp PROVE SnapshotInvariant'
  <2>1. pc = "prompt" /\ pc' = "failed" /\ prompt = NoPrompt
    BY <1>4 DEF GiveUp, Goto, SnapshotInvariant, ShapeOK
  <2> QED
    BY <1>1, <1>4, <2>1, QuietSteps DEF GiveUp, platformVars, sessionVars, loopVars, Looping
<1>5. ASSUME Return PROVE SnapshotInvariant'
  BY <1>5, ForgettingSteps DEF Return
<1>6. ASSUME Raise PROVE SnapshotInvariant'
  BY <1>6, ForgettingSteps DEF Raise
<1>7. ASSUME AfterRaise PROVE SnapshotInvariant'
  <2>1. pc = "raised" /\ pc' = "idle" /\ prompt = NoPrompt /\ heard = {}
    BY <1>7 DEF AfterRaise, Goto, SnapshotInvariant, ShapeOK, PromptShowsMemory, Looping
  <2>2. /\ UNCHANGED <<saved, memory, snapshotVars>> /\ head' = head
        /\ prompt' = prompt /\ heard' = heard
    BY <1>7 DEF AfterRaise, platformVars, sessionVars, loopVars
  <2>3. prompt' = NoPrompt \/ (prompt' = prompt /\ pc' = pc)
    BY <2>1, <2>2
  <2>4. heard' = {} \/ (heard' = heard /\ (pc' \in Looping \/ pc' = pc))
    BY <2>1, <2>2
  <2>5. pc' \in Looping => pc \in Looping
    BY <2>1 DEF Looping
  <2>6. pc' \in {"docs", "commits"} => pc' = pc
    BY <2>1
  <2>7. head' \in Commits
    BY <1>1, <2>2
  <2> QED
    BY <2>2, <2>3, <2>4, <2>5, <2>6, <2>7, QuietSteps
<1> QED
  BY <1>2, <1>3, <1>4, <1>5, <1>6, <1>7

(* The platform moves its branches and its lists, never what a commit      *)
(* holds.                                                                  *)
LEMMA PlatformKeepsSnapshot ==
    SnapshotInvariant /\ PlatformStep => SnapshotInvariant'
<1> SUFFICES ASSUME SnapshotInvariant, PlatformStep PROVE SnapshotInvariant'
  OBVIOUS
<1>1. /\ UNCHANGED <<pc, saved, memory, snapshotVars, prompt, heard>>
      /\ head' \in Commits
  <2>1. head \in Commits
    BY DEF SnapshotInvariant, ShapeOK
  <2>2. ASSUME NEW c \in Commits, Push(c), UNCHANGED runVars PROVE <1>1
    BY <2>2 DEF Push, runVars, sessionVars, loopVars, recordVars
  <2>3. ASSUME NEW step, NEW excused, ChangeList(step, excused), head' = head PROVE <1>1
    BY <2>1, <2>3 DEF ChangeList, sessionVars, loopVars, recordVars
  <2>4. ASSUME NEW answers, NEW front, ChangeList(AddItem(answers, 1, front), {}) PROVE <1>1
    BY <2>3, <2>4 DEF ChangeList, AddItem, sessionVars, loopVars, recordVars
  <2>5. ASSUME NEW k, ChangeList(RemoveItem(k), Behind(k)) PROVE <1>1
    BY <2>1, <2>5 DEF ChangeList, RemoveItem, sessionVars, loopVars, recordVars
  <2> QED
    BY <2>2, <2>4, <2>5 DEF PlatformStep
<1> QED
  BY <1>1, QuietSteps

-----------------------------------------------------------------------------
(***************************************************************************)
(* The run works on the commit it locked: snapshot and memory tell of no   *)
(* other, whatever is pushed and whatever earlier runs remembered.         *)
(***************************************************************************)
THEOREM SnapshotHolds == Spec => []SnapshotInvariant
<1>1. SnapshotInvariant /\ [Next]_vars => SnapshotInvariant'
  <2> SUFFICES ASSUME SnapshotInvariant, [Next]_vars PROVE SnapshotInvariant'
    OBVIOUS
  <2>1. CASE Next
    BY <2>1, BuildingKeepsSnapshot, PromptsKeepSnapshot, ResponsesKeepSnapshot,
       EndingsKeepSnapshot, PlatformKeepsSnapshot
    DEF Next, RunStep
  <2>2. CASE UNCHANGED vars
    <3>1. UNCHANGED <<pc, saved, memory, snapshotVars, prompt, heard, head>>
      BY <2>2 DEF vars, platformVars, runVars, sessionVars, loopVars, recordVars
    <3>2. head' \in Commits
      BY <3>1 DEF SnapshotInvariant, ShapeOK
    <3> QED
      BY <3>1, <3>2, QuietSteps
  <2> QED
    BY <2>1, <2>2
<1> QED
  BY <1>1, InitIsFine, PTL DEF Spec

(***************************************************************************)
(* What the model is told of a file is what the file is at the commit the  *)
(* run is about, or an error.                                              *)
(***************************************************************************)
THEOREM PromptsTrue == Spec => []PromptsTellTheSnapshot
<1>1. SnapshotInvariant => PromptsTellTheSnapshot
  <2> SUFFICES ASSUME SnapshotInvariant PROVE PromptsTellTheSnapshot
    OBVIOUS
  <2> USE DEF SnapshotInvariant
  <2>1. ASSUME NEW p \in Spellings, prompt.files[p] # Nothing, prompt.files[p].says # Error
        PROVE  /\ CanonicalPath[p] \in Paths
               /\ prompt.files[p].says = Version[ref][CanonicalPath[p]]
    <3>1. prompt.files[p] = memory.files[p]
      BY <2>1 DEF PromptShowsMemory
    <3>2. pc \in Looping
      BY <2>1, NoPromptIsEmpty DEF ShapeOK, Looping
    <3> QED
      BY <2>1, <3>1, <3>2 DEF FiledUnderItsVersion, MemoryIsCurrent
  <2> QED
    BY <2>1 DEF PromptsTellTheSnapshot, PromptShowsMemory
<1> QED
  BY <1>1, SnapshotHolds, PTL

-----------------------------------------------------------------------------
(* Numbers and positions.                                                  *)

(***************************************************************************)
(* A set of naturals that is not empty contains its minimum.               *)
(***************************************************************************)
LEMMA MinIsLeast ==
    ASSUME NEW S, S \subseteq Nat, S # {}
    PROVE  Min(S) \in S /\ \A x \in S : Min(S) <= x
<1>1. PICK u \in S : \A v \in S : ~(<<v, u>> \in OpToRel(<, Nat))
  BY NatLessThanWellFounded, WFMin
<1>2. \A v \in S : u <= v
  <2>1. SUFFICES ASSUME NEW v \in S, v < u PROVE FALSE
    OBVIOUS
  <2>2. <<v, u>> \in {p \in Nat \X Nat : p[1] < p[2]}
    BY <2>1
  <2>3. <<v, u>> \in OpToRel(<, Nat)
    BY <2>2, Zenon DEF OpToRel
  <2> QED BY <1>1, <2>3
<1> QED BY <1>2 DEF Min

(***************************************************************************)
(* A set of integers that is not empty and has an upper bound contains its *)
(* maximum: what is least in the distance to the bound.                    *)
(***************************************************************************)
LEMMA MaxIsGreatest ==
    ASSUME NEW S, S \subseteq Int, S # {},
           NEW b \in Int, \A x \in S : x <= b
    PROVE  Max(S) \in S /\ \A x \in S : x <= Max(S)
<1> DEFINE Gaps == {b - x : x \in S}
<1>1. Gaps \subseteq Nat /\ Gaps # {}
  <2>1. \A x \in S : b - x \in Nat
    OBVIOUS
  <2>2. PICK x \in S : TRUE
    OBVIOUS
  <2>3. b - x \in Gaps
    BY <2>2
  <2> QED BY <2>1, <2>3
<1>2. PICK g \in Gaps : \A h \in Gaps : g <= h
  <2> HIDE DEF Gaps
  <2> QED BY <1>1, MinIsLeast
<1>3. PICK m \in S : g = b - m
  OBVIOUS
<1>4. \A x \in S : m >= x
  <2>1. \A x \in S : b - m <= b - x
    BY <1>2, <1>3
  <2> QED BY <1>3, <2>1
<1> QED BY <1>4 DEF Max

(***************************************************************************)
(* The positions of a finite set are enumerated from the first to the last *)
(* one, each once.                                                         *)
(***************************************************************************)
LEMMA AscendingEnumerates ==
    ASSUME NEW I, I \subseteq Nat, IsFiniteSet(I)
    PROVE  /\ Cardinality(I) \in Nat
           /\ Ascending(I) \in [1 .. Cardinality(I) -> I]
           /\ \A i \in I : \E n \in 1 .. Cardinality(I) : Ascending(I)[n] = i
<1> DEFINE N == Cardinality(I)
           UpTo(i) == {j \in I : j <= i}
           rank == [i \in I |-> Cardinality(UpTo(i))]
<1>1. N \in Nat
  BY FS_CardinalityType
<1>2. ASSUME NEW i \in I
      PROVE  IsFiniteSet(UpTo(i)) /\ rank[i] \in 1 .. N
  <2>1. IsFiniteSet(UpTo(i)) /\ Cardinality(UpTo(i)) <= N
    BY FS_Subset
  <2>2. Cardinality(UpTo(i)) \in Nat /\ UpTo(i) # {}
    BY <2>1, FS_CardinalityType
  <2>3. Cardinality(UpTo(i)) # 0
    BY <2>1, <2>2, FS_EmptySet
  <2> QED BY <1>1, <2>1, <2>2, <2>3
<1>3. ASSUME NEW i \in I, NEW j \in I, i < j
      PROVE  rank[i] < rank[j]
  <2>1. UpTo(i) \in SUBSET UpTo(j) /\ UpTo(i) # UpTo(j)
    <3>1. \A k \in I : k <= i => k <= j
      BY <1>3
    <3>2. j \in UpTo(j) /\ j \notin UpTo(i)
      BY <1>3
    <3> QED BY <3>1, <3>2
  <2>2. Cardinality(UpTo(i)) <= Cardinality(UpTo(j)) /\ Cardinality(UpTo(i)) # Cardinality(UpTo(j))
    <3> HIDE DEF UpTo
    <3> QED BY <1>2, <2>1, FS_Subset
  <2> QED BY <1>1, <1>2, <2>2
<1>4. rank \in [I -> 1 .. N] /\ \A i \in I, j \in I : rank[i] = rank[j] => i = j
  <2>1. \A i \in I : rank[i] \in 1 .. N
    BY <1>2
  <2>2. \A i \in I, j \in I : i < j => rank[i] < rank[j]
    BY <1>3
  <2>3. rank \in [I -> 1 .. N]
    BY <2>1
  <2> HIDE DEF rank
  <2>4. ASSUME NEW i \in I, NEW j \in I, rank[i] = rank[j]
        PROVE  i = j
    BY <1>1, <2>1, <2>2, <2>4
  <2> QED BY <2>3, <2>4
<1>5. rank \in Surjection(I, 1 .. N)
  <2>1. IsFiniteSet(1 .. N) /\ Cardinality(1 .. N) = N
    BY <1>1, FS_Interval
  <2>2. rank \in Injection(I, 1 .. N)
    BY <1>4 DEF Injection, IsInjective
  <2> HIDE DEF rank
  <2> QED BY <2>1, <2>2, FS_Injection
<1>6. \A n \in 1 .. N : \E i \in I : Rank(I, i) = n
  BY <1>5 DEF Surjection, Rank
<1>7. ASSUME NEW n \in 1 .. N
      PROVE  Ascending(I)[n] \in I /\ Rank(I, Ascending(I)[n]) = n
  BY <1>6 DEF Ascending
<1>8. ASSUME NEW i \in I
      PROVE  \E n \in 1 .. N : Ascending(I)[n] = i
  <2>1. Rank(I, i) \in 1 .. N /\ Rank(I, i) = rank[i]
    BY <1>2 DEF Rank
  <2>2. PICK n \in 1 .. N : n = Rank(I, i)
    BY <2>1
  <2>3. Ascending(I)[n] \in I /\ rank[Ascending(I)[n]] = rank[i]
    BY <1>7, <2>1, <2>2 DEF Rank
  <2> HIDE DEF rank
  <2> QED BY <1>4, <2>3
<1> QED BY <1>1, <1>7, <1>8 DEF Ascending

(***************************************************************************)
(* What is picked from a sequence is a sequence of its elements, and every *)
(* position that was asked for is in it.                                   *)
(***************************************************************************)
LEMMA PickReturnsElements ==
    ASSUME NEW S, NEW s \in Seq(S), NEW I, I \subseteq DOMAIN s
    PROVE  /\ Pick(s, I) \in Seq(S)
           /\ \A i \in I : \E n \in DOMAIN Pick(s, I) : Pick(s, I)[n] = s[i]
<1>1. Len(s) \in Nat /\ DOMAIN s = 1 .. Len(s) /\ \A i \in DOMAIN s : s[i] \in S
  OBVIOUS
<1>2. IsFiniteSet(I) /\ I \subseteq Nat
  <2>1. IsFiniteSet(1 .. Len(s))
    BY <1>1, FS_Interval
  <2>2. IsFiniteSet(I)
    BY <1>1, <2>1, FS_Subset
  <2> QED BY <1>1, <2>2
<1> DEFINE a == Ascending(I)
<1>3. /\ Cardinality(I) \in Nat /\ a \in [1 .. Cardinality(I) -> I]
      /\ \A i \in I : \E n \in 1 .. Cardinality(I) : a[n] = i
  BY <1>2, AscendingEnumerates
<1>4. Pick(s, I) = [n \in DOMAIN a |-> s[a[n]]]
  BY DEF Pick
<1> HIDE DEF a
<1>5. Pick(s, I) = [n \in 1 .. Cardinality(I) |-> s[a[n]]]
  BY <1>3, <1>4
<1>6. \A n \in 1 .. Cardinality(I) : s[a[n]] \in S
  BY <1>1, <1>3
<1>7. Pick(s, I) \in Seq(S)
  BY <1>3, <1>5, <1>6, IsASeq
<1>8. \A i \in I : \E n \in DOMAIN Pick(s, I) : Pick(s, I)[n] = s[i]
  BY <1>3, <1>5
<1> QED BY <1>7, <1>8

-----------------------------------------------------------------------------
(* The memory: its type and the order of its notes.                        *)

IsNumbered(m) == m \in Memories /\ NotesAreNumbered(m)

(***************************************************************************)
(* The last elements of a sequence are a sequence of elements of it, in    *)
(* the same order.                                                         *)
(***************************************************************************)
LEMMA LastOfIsSuffix ==
    ASSUME NEW S, NEW s \in Seq(S), NEW n \in Nat \ {0}
    PROVE  /\ LastOf(s, n) \in Seq(S)
           /\ \E o \in 0 .. Len(s) : /\ Len(LastOf(s, n)) = Len(s) - o
                                     /\ \A i \in 1 .. Len(s) - o : LastOf(s, n)[i] = s[i + o]
<1> DEFINE o == IF Len(s) > n THEN Len(s) - n ELSE 0
<1>1. Len(s) \in Nat /\ o \in 0 .. Len(s)
  OBVIOUS
<1>2. LastOf(s, n) = SubSeq(s, o + 1, Len(s))
  BY <1>1 DEF LastOf
<1> HIDE DEF o
<1>3. /\ SubSeq(s, o + 1, Len(s)) \in Seq(S)
      /\ Len(SubSeq(s, o + 1, Len(s))) = Len(s) - o
      /\ \A i \in 1 .. Len(s) - o : SubSeq(s, o + 1, Len(s))[i] = s[i + o]
  BY <1>1
<1> QED BY <1>1, <1>2, <1>3

(***************************************************************************)
(* The next number is a number and lies beyond those of all notes.         *)
(***************************************************************************)
LEMMA NextIndexIsFree ==
    ASSUME NEW notes \in Seq([words : SUBSET Words, index : Nat]),
           \A i, j \in DOMAIN notes : i < j => notes[i].index < notes[j].index,
           NEW next \in Nat
    PROVE  /\ NextIndex(notes, next) \in Nat
           /\ \A i \in DOMAIN notes : notes[i].index < NextIndex(notes, next)
<1> DEFINE Used == {notes[i].index + 1 : i \in DOMAIN notes}
           All == {next} \cup Used
<1>1. Len(notes) \in Nat /\ DOMAIN notes = 1 .. Len(notes)
      /\ \A i \in DOMAIN notes : notes[i].index \in Nat
  <2> DEFINE Notes == [words : SUBSET Words, index : Nat]
  <2>1. \A x \in Notes : x.index \in Nat
    OBVIOUS
  <2> HIDE DEF Notes
  <2>2. notes \in Seq(Notes)
    BY DEF Notes
  <2>3. Len(notes) \in Nat /\ DOMAIN notes = 1 .. Len(notes)
        /\ \A i \in DOMAIN notes : notes[i] \in Notes
    BY <2>2
  <2> QED BY <2>1, <2>3
<1>2. \A i \in DOMAIN notes : notes[i].index + 1 \in Nat
  BY <1>1
<1>3. All \subseteq Int /\ All # {} /\ All \subseteq Nat
  BY <1>2
<1>4. PICK b \in Int : \A x \in All : x <= b
  <2>1. CASE Len(notes) = 0
    <3>1. DOMAIN notes = {}
      BY <1>1, <2>1
    <3>2. next \in Int /\ \A x \in All : x <= next
      BY <3>1
    <3> HIDE DEF All
    <3> QED BY <3>2
  <2>2. CASE Len(notes) # 0
    <3> DEFINE last == notes[Len(notes)].index
    <3>1. Len(notes) \in DOMAIN notes /\ last \in Nat
      BY <1>1, <2>2
    <3>2. \A i \in DOMAIN notes : i # Len(notes) => notes[i].index < last
      BY <1>1, <3>1
    <3>3. \A i \in DOMAIN notes : notes[i].index <= last
      BY <1>1, <3>1, <3>2
    <3> HIDE DEF last
    <3>4. \A x \in All : x <= next + last + 1
      BY <1>1, <3>1, <3>3
    <3>5. next + last + 1 \in Int
      BY <3>1
    <3> QED BY <3>4, <3>5
  <2> QED BY <2>1, <2>2
<1>5. \A i \in DOMAIN notes : notes[i].index + 1 \in All
  OBVIOUS
<1>6. NextIndex(notes, next) = Max(All)
  BY DEF NextIndex
<1> HIDE DEF All, Used
<1>7. Max(All) \in All /\ \A x \in All : x <= Max(All)
  BY <1>3, <1>4, MaxIsGreatest
<1>8. Max(All) \in Nat
  BY <1>3, <1>7
<1>9. \A i \in DOMAIN notes : notes[i].index < Max(All)
  BY <1>1, <1>5, <1>7, <1>8
<1> QED BY <1>6, <1>8, <1>9

(***************************************************************************)
(* Normalize bounds a memory and keeps it in order: the notes it keeps are *)
(* the latest and lie below the next number.                               *)
(***************************************************************************)
LEMMA NormalizeNumbers ==
    ASSUME NEW m \in Memories,
           \A i, j \in DOMAIN m.notes : i < j => m.notes[i].index < m.notes[j].index
    PROVE  IsNumbered(Normalize(m))
<1> DEFINE Notes == [words : SUBSET Words, index : Nat]
           kept == LastOf(m.notes, NoteLimit)
           n == Normalize(m)
<1>1. m.notes \in Seq(Notes) /\ m.recent \in Seq(Spellings) /\ m.next \in Nat
  BY DEF Memories
<1>2. PICK o \in 0 .. Len(m.notes) :
          /\ kept \in Seq(Notes) /\ Len(kept) = Len(m.notes) - o
          /\ \A i \in 1 .. Len(m.notes) - o : kept[i] = m.notes[i + o]
  <2> HIDE DEF Notes
  <2> QED BY <1>1, LastOfIsSuffix, MemoryAssumption
<1>3. \A i, j \in DOMAIN kept : i < j => kept[i].index < kept[j].index
  <2> HIDE DEF kept, Notes
  <2>1. /\ DOMAIN kept = 1 .. Len(m.notes) - o
        /\ DOMAIN m.notes = 1 .. Len(m.notes) /\ Len(m.notes) \in Nat
    BY <1>1, <1>2
  <2> SUFFICES ASSUME NEW i \in DOMAIN kept, NEW j \in DOMAIN kept, i < j
               PROVE  kept[i].index < kept[j].index
    OBVIOUS
  <2>2. i + o \in DOMAIN m.notes /\ j + o \in DOMAIN m.notes /\ i + o < j + o
    BY <2>1
  <2>3. kept[i] = m.notes[i + o] /\ kept[j] = m.notes[j + o]
    BY <1>2, <2>1
  <2> QED BY <2>2, <2>3
<1>4. NextIndex(kept, m.next) \in Nat
      /\ \A i \in DOMAIN kept : kept[i].index < NextIndex(kept, m.next)
  <2> HIDE DEF kept
  <2> QED BY <1>1, <1>2, <1>3, NextIndexIsFree
<1>5. Distinct(m.recent) \in Seq(Spellings)
  BY <1>1, PickReturnsElements DEF Distinct
<1>6. LastOf(Distinct(m.recent), RecentLimit) \in Seq(Spellings)
  BY <1>5, LastOfIsSuffix, MemoryAssumption
<1>7. n = [m EXCEPT !.recent = LastOf(Distinct(m.recent), RecentLimit),
                    !.notes = kept, !.next = NextIndex(kept, m.next)]
  BY DEF Normalize
<1> HIDE DEF kept
<1>8. n.notes = kept /\ n.next = NextIndex(kept, m.next) /\ n \in Memories
  BY <1>2, <1>4, <1>6, <1>7 DEF Memories
<1> HIDE DEF n
<1> QED BY <1>3, <1>4, <1>8 DEF IsNumbered, NotesAreNumbered, n

(***************************************************************************)
(* Every operation on memories keeps their type and the order of the notes.*)
(***************************************************************************)
LEMMA NumberedMemories ==
    /\ IsNumbered(EmptyMemory)
    /\ \A m : IsNumbered(m) => IsNumbered(Normalize(m))
    /\ \A m, versions : IsNumbered(m) => IsNumbered(InvalidateStale(m, versions))
<1>1. IsNumbered(EmptyMemory)
  BY DEF IsNumbered, NotesAreNumbered, EmptyMemory, Memories
<1>2. ASSUME NEW m, IsNumbered(m)
      PROVE  IsNumbered(Normalize(m))
  BY <1>2, NormalizeNumbers DEF IsNumbered, NotesAreNumbered
<1>3. ASSUME NEW m, NEW versions, IsNumbered(m)
      PROVE  IsNumbered(InvalidateStale(m, versions))
  <2> DEFINE n == Normalize(m)
             files == [p \in Spellings |->
                          IF /\ p \in DOMAIN versions
                             /\ n.files[p] # Nothing
                             /\ versions[p] \in {Nothing, n.files[p].version}
                          THEN n.files[p] ELSE Nothing]
  <2>1. IsNumbered(n)
    BY <1>2, <1>3
  <2>2. InvalidateStale(m, versions) = [n EXCEPT !.files = files]
    BY DEF InvalidateStale
  <2> HIDE DEF n
  <2>3. files \in [Spellings -> Summaries \cup {Nothing}]
    BY <2>1 DEF IsNumbered, Memories
  <2> HIDE DEF files
  <2>4. /\ [n EXCEPT !.files = files] \in Memories
        /\ [n EXCEPT !.files = files].notes = n.notes
        /\ [n EXCEPT !.files = files].next = n.next
    BY <2>1, <2>3 DEF IsNumbered, Memories
  <2> QED BY <2>1, <2>2, <2>4 DEF IsNumbered, NotesAreNumbered
<1> QED BY <1>1, <1>2, <1>3

(* Filing a text keeps the order of the memory and its numbers.            *)
LEMMA RememberedFilesAreNumbered ==
    ASSUME NEW m, IsNumbered(m), NEW path \in Spellings,
           NEW text \in Blobs \cup {Nothing, Error}, NEW version \in Blobs \cup {Nothing}
    PROVE  IsNumbered(RememberFile(m, path, text, version))
<1> DEFINE recent == Append(Without(m.recent, path), path)
           summary == IF text = Nothing THEN Nothing ELSE [says |-> text, version |-> version]
           base == [m EXCEPT !.recent = recent, !.files[path] = summary]
<1>1. RememberFile(m, path, text, version) = Normalize(base)
  BY DEF RememberFile
<1>2. recent \in Seq(Spellings)
  <2>1. m.recent \in Seq(Spellings)
    BY DEF IsNumbered, Memories
  <2>2. Without(m.recent, path) \in Seq(Spellings)
    BY <2>1, PickReturnsElements DEF Without
  <2> QED BY <2>2
<1>3. summary \in Summaries \cup {Nothing}
  BY DEF Summaries
<1> HIDE DEF recent, summary
<1>4. base \in Memories /\ base.notes = m.notes
  BY <1>2, <1>3 DEF IsNumbered, Memories
<1> HIDE DEF base
<1>5. \A i, j \in DOMAIN base.notes : i < j => base.notes[i].index < base.notes[j].index
  BY <1>4 DEF IsNumbered, NotesAreNumbered
<1> QED BY <1>1, <1>4, <1>5, NormalizeNumbers

(* Filing an answer keeps the order of the memory and its numbers.         *)
LEMMA RememberedAnswersAreNumbered ==
    ASSUME NEW m, IsNumbered(m), NEW task \in Nat, NEW words \in SUBSET Words
    PROVE  IsNumbered(RememberAnswer(m, task, words))
<1> DEFINE Notes == [words : SUBSET Words, index : Nat]
           note == [words |-> words, index |-> m.next]
           base == [m EXCEPT !.task = task, !.notes = Append(m.notes, note),
                             !.next = m.next + 1]
<1>1. RememberAnswer(m, task, words) = Normalize(base)
  BY DEF RememberAnswer
<1>2. m.notes \in Seq(Notes) /\ m.next \in Nat /\ m \in Memories
  BY DEF IsNumbered, Memories
<1>3. note \in Notes /\ note.index = m.next
  BY <1>2
<1>4. base \in Memories /\ base.notes = Append(m.notes, note)
  <2>1. Append(m.notes, note) \in Seq(Notes)
    <3> HIDE DEF Notes, note
    <3> QED BY <1>2, <1>3
  <2> DEFINE longer == Append(m.notes, note)
             lists == Seq(Notes)
  <2>2. longer \in lists /\ m.next + 1 \in Nat
    BY <1>2, <2>1
  <2>3. base = [m EXCEPT !.task = task, !.notes = longer, !.next = m.next + 1]
    OBVIOUS
  <2>4. Memories = [task : Nat \cup {Nothing}, recent : Seq(Spellings), notes : lists,
                    next : Nat, files : [Spellings -> Summaries \cup {Nothing}]]
    BY DEF Memories
  <2> HIDE DEF longer, lists, base
  <2>5. base \in Memories /\ base.notes = longer
    BY <1>2, <2>2, <2>3, <2>4
  <2> QED BY <2>5 DEF longer
<1> HIDE DEF base, Notes, note
<1>5. ASSUME NEW i \in DOMAIN base.notes, NEW j \in DOMAIN base.notes, i < j
      PROVE  base.notes[i].index < base.notes[j].index
  <2>1. /\ DOMAIN base.notes = 1 .. Len(m.notes) + 1 /\ DOMAIN m.notes = 1 .. Len(m.notes)
        /\ Len(m.notes) \in Nat /\ i \in DOMAIN m.notes
        /\ base.notes[i] = m.notes[i]
        /\ base.notes[j] = IF j = Len(m.notes) + 1 THEN note ELSE m.notes[j]
    BY <1>2, <1>3, <1>4, <1>5
  <2>2. CASE j = Len(m.notes) + 1
    BY <1>3, <2>1, <2>2 DEF IsNumbered, NotesAreNumbered
  <2>3. CASE j # Len(m.notes) + 1
    <3>1. j \in DOMAIN m.notes
      BY <2>1, <2>3
    <3> QED BY <1>5, <2>1, <2>3, <3>1 DEF IsNumbered, NotesAreNumbered
  <2> QED BY <2>2, <2>3
<1> QED BY <1>1, <1>4, <1>5, NormalizeNumbers

-----------------------------------------------------------------------------
(* The rest of what holds of a run: types, notes, events and pages.        *)

OrderInvariant ==
    /\ TypeOK
    /\ NotesAreNumbered(saved) /\ NotesAreNumbered(memory)
    /\ ReturnedRunsAreClosed
    /\ DueIsAhead
    /\ ReadsAreOfLists

(***************************************************************************)
(* What an output is taken for is one of its actions or a notice.          *)
(***************************************************************************)
LEMMA ParsedAction ==
    ASSUME asked \in 1 .. Len(Questions), NEW out \in Question.outputs
    PROVE  Parse(out).tag = "retry" \/ IsAction(Parse(out))
<1>1. asked \in DOMAIN Questions
  BY RunAssumption
<1>2. out \in Seq(Range(out)) /\ \A a \in Range(out) : IsAction(a)
  BY <1>1, RunAssumption DEF Question
<1>3. Len(out) \in Nat /\ \A i \in DOMAIN out : out[i] \in Range(out)
  BY <1>2
<1> DEFINE tools == Tagged(out, "tool")
           wanted == {out[i] : i \in tools}
<1>4. Len(out) = 1 \/ Len(out) > 1 => Head(out) \in Range(out)
  BY <1>2, <1>3
<1>5. Cardinality(tools) > 1 => (CHOOSE c \in wanted : TRUE) \in Range(out)
  <2>1. SUFFICES ASSUME Cardinality(tools) > 1
                 PROVE  (CHOOSE c \in wanted : TRUE) \in Range(out)
    OBVIOUS
  <2>2. tools # {}
    <3> HIDE DEF tools
    <3>1. tools = {} => Cardinality(tools) = 0
      BY FS_EmptySet
    <3> QED BY <2>1, <3>1
  <2>3. wanted # {} /\ wanted \subseteq Range(out)
    BY <1>3, <2>2 DEF Tagged
  <2> QED BY <2>3
<1>6. \/ Parse(out) = RetryNotice
      \/ Parse(out) = Head(out) /\ (Len(out) = 1 \/ Len(out) > 1)
      \/ Parse(out) = (CHOOSE c \in wanted : TRUE) /\ Cardinality(tools) > 1
  BY Zenon DEF Parse
<1>7. RetryNotice.tag = "retry"
  BY DEF RetryNotice
<1> HIDE DEF tools, wanted
<1>8. Parse(out) = RetryNotice \/ Parse(out) \in Range(out)
  BY <1>4, <1>5, <1>6, Zenon
<1> QED BY <1>2, <1>7, <1>8, Zenon

-----------------------------------------------------------------------------
(* Events.                                                                 *)

(* Events whose terminal one, if there is one, is the last.                *)
EndsAt(es) == \A i \in DOMAIN es : es[i] \in Terminal => i = Len(es)

Unended(es) == \A i \in DOMAIN es : es[i] \notin Terminal

(* Events are added to a run that has not ended: if one of them ends it,   *)
(* it is the last.                                                         *)
LEMMA RecordedEvents ==
    ASSUME NEW es \in Seq(EventTypes), Unended(es), NEW types \in Seq(EventTypes), EndsAt(types)
    PROVE  /\ es \o types \in Seq(EventTypes) /\ EndsAt(es \o types)
           /\ Unended(types) => Unended(es \o types)
           /\ Len(types) > 0 => /\ es \o types # <<>>
                                /\ (es \o types)[Len(es \o types)] = types[Len(types)]
<1> DEFINE all == es \o types
<1>1. /\ all \in Seq(EventTypes) /\ Len(all) = Len(es) + Len(types)
      /\ Len(es) \in Nat /\ Len(types) \in Nat
      /\ DOMAIN es = 1 .. Len(es) /\ DOMAIN types = 1 .. Len(types)
      /\ DOMAIN all = 1 .. Len(es) + Len(types)
      /\ \A i \in 1 .. Len(es) : all[i] = es[i]
      /\ \A i \in 1 .. Len(types) : all[Len(es) + i] = types[i]
  OBVIOUS
<1> HIDE DEF all
<1>2. ASSUME NEW i \in DOMAIN all, i \notin DOMAIN es
      PROVE  i - Len(es) \in DOMAIN types /\ all[i] = types[i - Len(es)]
  <2>1. i \in Nat /\ i <= Len(es) + Len(types) /\ ~(1 <= i /\ i <= Len(es)) /\ 1 <= i
    BY <1>1, <1>2
  <2>2. i - Len(es) \in 1 .. Len(types) /\ Len(es) + (i - Len(es)) = i
    BY <1>1, <2>1
  <2> QED BY <1>1, <2>2
<1>3. EndsAt(all)
  <2> SUFFICES ASSUME NEW i \in DOMAIN all, all[i] \in Terminal
               PROVE  i = Len(all)
    BY DEF EndsAt
  <2>1. i \notin DOMAIN es
    BY <1>1 DEF Unended
  <2>2. i - Len(es) = Len(types)
    BY <1>2, <2>1 DEF EndsAt
  <2>3. i \in Nat
    BY <1>1
  <2> QED BY <1>1, <2>2, <2>3
<1>4. Unended(types) => Unended(all)
  BY <1>1, <1>2 DEF Unended
<1>5. Len(types) > 0 => all # <<>> /\ all[Len(all)] = types[Len(types)]
  BY <1>1
<1> QED BY <1>1, <1>3, <1>4, <1>5 DEF all

(***************************************************************************)
(* The state of the record, with its type.                                 *)
(***************************************************************************)
Recorded == events \in Seq(EventTypes) /\ ReturnedRunsAreClosed

(* A step that records events keeps the record closed if a terminal event  *)
(* comes last and with the end of the run.                                 *)
LEMMA RecordedTypes ==
    ASSUME Recorded, pc \notin {"completed", "failed"},
           NEW types \in Seq(EventTypes), Record(types)
    PROVE  /\ Unended(types) /\ pc' \notin {"completed", "failed"} => Recorded'
           /\ EndsAt(types) /\ types # <<>> /\ types[Len(types)] \in Terminal
              /\ pc' \in {"completed", "failed"} => Recorded'
<1>1. Unended(events)
  BY DEF Recorded, ReturnedRunsAreClosed, Unended
<1>2. events' = events \o types
  BY DEF Record
<1> DEFINE Closes == /\ EndsAt(types) /\ types # <<>> /\ types[Len(types)] \in Terminal
                     /\ pc' \in {"completed", "failed"}
<1>3. Unended(types) => EndsAt(types)
  BY DEF Unended, EndsAt
<1>4. ASSUME Unended(types), pc' \notin {"completed", "failed"}
      PROVE  Recorded'
  BY <1>1, <1>2, <1>3, <1>4, RecordedEvents DEF Recorded, ReturnedRunsAreClosed, Unended
<1>5. ASSUME Closes PROVE Recorded'
  <2>1. Len(types) > 0
    BY <1>5
  <2> QED BY <1>1, <1>2, <1>5, <2>1, RecordedEvents
          DEF Recorded, ReturnedRunsAreClosed, EndsAt
<1> QED BY <1>4, <1>5

(* A run that has returned has ended its record with one terminal event,   *)
(* after every step.                                                       *)
LEMMA EventsStayClosed ==
    ASSUME Recorded, [Next]_vars
    PROVE  Recorded'
<1>1. /\ Unended(<<"tool_called">>) /\ Unended(<<"tool_result">>)
      /\ Unended(<<"tool_called", "tool_result">>) /\ Unended(<<"model_retry">>)
      /\ Unended(<<"prompt_built">>) /\ Unended(<<"run_started", "snapshot_resolved">>)
      /\ Unended(<<"run_started", "snapshot_resolved", "memory_invalidated">>)
  BY DEF Unended, Terminal
<1>2. ASSUME NEW types \in {<<"tool_called">>, <<"tool_result">>, <<"model_retry">>,
                  <<"tool_called", "tool_result">>, <<"prompt_built">>,
                  <<"run_started", "snapshot_resolved">>,
                  <<"run_started", "snapshot_resolved", "memory_invalidated">>},
             Record(types), pc \notin {"completed", "failed"},
             pc' \notin {"completed", "failed"}
      PROVE  Recorded'
  <2>1. types \in Seq(EventTypes)
    <3>1. \A x, y, z \in EventTypes :
             /\ <<x>> \in Seq(EventTypes) /\ <<x, y>> \in Seq(EventTypes)
             /\ <<x, y, z>> \in Seq(EventTypes)
      BY SMTT(30)
    <3>2. /\ "tool_called" \in EventTypes /\ "tool_result" \in EventTypes
          /\ "model_retry" \in EventTypes /\ "prompt_built" \in EventTypes
          /\ "run_started" \in EventTypes /\ "snapshot_resolved" \in EventTypes
          /\ "memory_invalidated" \in EventTypes
      BY DEF EventTypes
    <3> QED BY <1>2, <3>1, <3>2, ZenonT(30)
  <2>2. Unended(types)
    BY <1>1, <1>2
  <2> QED BY <1>2, <2>1, <2>2, RecordedTypes
<1>3. ASSUME events' = <<>>, pc' \notin {"completed", "failed"}
      PROVE  Recorded'
  BY <1>3 DEF Recorded, ReturnedRunsAreClosed
<1>4. ASSUME events' = events, pc \notin {"completed", "failed"},
             pc' \notin {"completed", "failed"}
      PROVE  Recorded'
  BY <1>4 DEF Recorded, ReturnedRunsAreClosed
<1>5. ASSUME events' = events, pc' = pc
      PROVE  Recorded'
  BY <1>5 DEF Recorded, ReturnedRunsAreClosed
<1>6. CASE Ask
  BY <1>3, <1>6 DEF Ask, Goto
<1>7. CASE ResolveHead \/ LoadTree \/ LoadDocs
  <2>1. events' = events /\ pc \in {"resolve", "tree", "docs"} /\ pc' \in {"tree", "docs", "commits"}
    BY <1>7 DEF ResolveHead, LoadTree, LoadDocs, Goto, recordVars
  <2> QED BY <1>4, <2>1
<1>8. CASE StartLoop
  <2>1. pc = "commits" /\ pc' = "prompt"
    BY <1>8 DEF StartLoop, Goto
  <2>2. \/ Record(<<"run_started", "snapshot_resolved">>)
        \/ Record(<<"run_started", "snapshot_resolved", "memory_invalidated">>)
    BY <1>8 DEF StartLoop, Record
  <2> QED BY <1>2, <2>1, <2>2
<1>9. CASE BuildPrompt
  <2>1. pc = "prompt" /\ pc' = "model" /\ Record(<<"prompt_built">>)
    BY <1>9 DEF BuildPrompt, Goto
  <2> QED BY <1>2, <2>1
<1>10. ASSUME NEW response, pc = "model", RespondWith(response)
       PROVE  Recorded'
  <2>1. CASE Retry
    <3>1. pc' = "prompt" /\ Record(<<"model_retry">>)
      BY <2>1 DEF Retry, Goto
    <3> QED BY <1>2, <1>10, <3>1
  <2>2. CASE Accept(response)
    <3>1. pc' = "completed" /\ Record(<<"assistant_delta", "final_answer">>)
      BY <2>2 DEF Accept, Goto
    <3>2. EndsAt(<<"assistant_delta", "final_answer">>)
      BY DEF EndsAt, Terminal
    <3>3. <<"assistant_delta", "final_answer">>[Len(<<"assistant_delta", "final_answer">>)]
              \in Terminal
      BY DEF Terminal
    <3>4. <<"assistant_delta", "final_answer">> \in Seq(EventTypes)
          /\ <<"assistant_delta", "final_answer">> # <<>>
      BY DEF EventTypes
    <3> QED BY <1>10, <3>1, <3>2, <3>3, <3>4, RecordedTypes
  <2>3. CASE Refuse(response.call) \/ Call(response.call)
    <3>1. pc' = "prompt" /\ Record(<<"tool_called", "tool_result">>)
      BY <2>3 DEF Refuse, Call, Goto
    <3> QED BY <1>2, <1>10, <3>1
  <2>4. CASE \E list \in Lists : OpenList(response.call, list)
    <3>1. pc' = "paging" /\ Record(<<"tool_called">>)
      BY <2>4 DEF OpenList, Goto
    <3> QED BY <1>2, <1>10, <3>1
  <2> QED BY <1>10, <2>1, <2>2, <2>3, <2>4 DEF RespondWith, Reject
<1>11. CASE ReadPage
  <2>1. events' = events /\ pc = "paging" /\ pc' \in {"paging", "listed"}
    BY <1>11 DEF ReadPage, recordVars
  <2> QED BY <1>4, <2>1
<1>12. CASE CloseList
  <2>1. pc = "listed" /\ pc' = "prompt" /\ Record(<<"tool_result">>)
    BY <1>12 DEF CloseList, Goto
  <2> QED BY <1>2, <2>1
<1>13. CASE GiveUp
  <2>1. pc = "prompt" /\ pc' = "failed" /\ Record(<<"run_failed">>)
    BY <1>13 DEF GiveUp, Goto
  <2>2. EndsAt(<<"run_failed">>) /\ <<"run_failed">>[Len(<<"run_failed">>)] \in Terminal
    BY DEF EndsAt, Terminal
  <2>3. <<"run_failed">> \in Seq(EventTypes) /\ <<"run_failed">> # <<>>
    BY DEF EventTypes
  <2> QED BY <2>1, <2>2, <2>3, RecordedTypes
<1>14. CASE Return \/ AfterRaise
  <2>1. events' = <<>> /\ pc' = "idle"
    BY <1>14 DEF Return, AfterRaise, Goto
  <2> QED BY <1>3, <2>1
<1>15. CASE Raise
  <2>1. pc' = "raised" /\ pc \notin {"completed", "failed"}
        /\ (events' = events \/ Record(<<"tool_called">>))
    BY <1>15 DEF Raise, PlatformFails
  <2> QED BY <1>2, <1>4, <2>1
<1>16. CASE PlatformStep
  <2>1. events' = events /\ pc' = pc
    BY <1>16 DEF PlatformStep, ChangeList, runVars, recordVars
  <2> QED BY <1>5, <2>1
<1>17. CASE UNCHANGED vars
  <2>1. events' = events /\ pc' = pc
    BY <1>17 DEF vars, runVars, recordVars
  <2> QED BY <1>5, <2>1
<1> QED BY <1>6, <1>7, <1>8, <1>9, <1>10, <1>11, <1>12, <1>13, <1>14, <1>15, <1>16, <1>17
        DEF Next, RunStep, Respond

-----------------------------------------------------------------------------
(* Lists that are read page by page while they change.                     *)

IsReading(r) == r = [f \in {"call", "page", "items", "due"} |-> r[f]]

PagesAhead(r, list) ==
    \A item \in r.due :
        \/ item \in Range(r.items)
        \/ \E i \in DOMAIN list : list[i] = item /\ i > (r.page - 1) * PerPage

Reads ==
    /\ change \in Seq(Items) /\ added \in 0 .. MaxItems
    /\ IsReading(reading) /\ reading.page \in Nat
    /\ reading.items \in Seq(Items) /\ reading.due \subseteq Items
    /\ DueIsAhead /\ ReadsAreOfLists

(***************************************************************************)
(* A page brings what lies between its bounds, and the last one brings     *)
(* what was still ahead.                                                   *)
(***************************************************************************)
LEMMA PagesBringTheirItems ==
    ASSUME change \in Seq(Items), NEW page \in Nat \ {0}
    PROVE  LET items == PageItems(page)
           IN  /\ items \in Seq(Items)
               /\ \A i \in DOMAIN change : i > (page - 1) * PerPage =>
                     \/ change[i] \in Range(items)
                     \/ i > page * PerPage /\ ~IsLastPage(items)
<1> DEFINE lo == (page - 1) * PerPage
           hi == page * PerPage
           top == Min({hi, Len(change)})
           items == PageItems(page)
<1>1. lo \in Nat /\ hi \in Nat /\ hi = lo + PerPage /\ PerPage \in Nat /\ PerPage >= 1
  BY RepositoryAssumption
<1> DEFINE len == Len(change)
<1>2. len \in Nat /\ DOMAIN change = 1 .. len
  OBVIOUS
<1> HIDE DEF lo, hi, len
<1>3. top = IF hi <= len THEN hi ELSE len
  <2>1. {hi, len} \subseteq Nat /\ {hi, len} # {}
    BY <1>1, <1>2
  <2>2. Min({hi, len}) \in {hi, len} /\ \A x \in {hi, len} : Min({hi, len}) <= x
    BY <2>1, MinIsLeast
  <2>3. top = Min({hi, len})
    BY DEF len
  <2> HIDE DEF top
  <2> QED BY <1>1, <1>2, <2>2, <2>3
<1>4. items = SubSeq(change, lo + 1, top)
  BY DEF PageItems, lo, hi
<1> HIDE DEF top, items
<1>5. top \in Nat /\ top <= len
  BY <1>1, <1>2, <1>3
<1>6. /\ items \in Seq(Items)
      /\ Len(items) = (IF lo + 1 <= top THEN top - lo ELSE 0)
      /\ \A k \in 1 .. top - lo : items[k] = change[lo + k]
  <2>1. \A k \in lo + 1 .. top : k \in DOMAIN change
    BY <1>1, <1>2, <1>5
  <2>2. SubSeq(change, lo + 1, top) \in Seq(Items)
    BY <1>1, <1>2, <1>5, <2>1, SubSeqProperties
  <2> QED BY <1>1, <1>2, <1>4, <1>5, <2>2, SubSeqProperties
<1>7. ASSUME NEW i \in DOMAIN change, i > lo, i <= hi
      PROVE  change[i] \in Range(items)
  <2>1. i \in Nat /\ i <= top
    BY <1>1, <1>2, <1>3, <1>7
  <2>2. i - lo \in 1 .. top - lo /\ lo + (i - lo) = i
    BY <1>1, <1>5, <1>7, <2>1
  <2>3. lo + 1 <= top
    BY <1>1, <1>5, <1>7, <2>1
  <2>4. i - lo \in DOMAIN items
    BY <1>6, <2>2, <2>3
  <2> QED BY <1>6, <2>2, <2>4 DEF Range
<1>8. ASSUME NEW i \in DOMAIN change, i > hi
      PROVE  ~IsLastPage(items)
  <2>1. top = hi
    BY <1>1, <1>2, <1>3, <1>8
  <2>2. Len(items) = PerPage
    BY <1>1, <1>6, <2>1
  <2> QED BY <1>1, <2>2 DEF IsLastPage
<1>9. \A i \in DOMAIN change : i > lo =>
          change[i] \in Range(items) \/ (i > hi /\ ~IsLastPage(items))
  BY <1>1, <1>2, <1>7, <1>8
<1> QED BY <1>6, <1>9 DEF items, lo, hi

(***************************************************************************)
(* An item that is put in or taken out moves only what lies behind it.     *)
(***************************************************************************)
LEMMA AddedItemsPush ==
    ASSUME change \in Seq(Items), NEW item \in Items, NEW new,
           new = <<item>> \o change \/ new = Append(change, item)
    PROVE  /\ new \in Seq(Items)
           /\ \A i \in DOMAIN change : \E j \in DOMAIN new : new[j] = change[i] /\ j >= i
<1>1. Len(change) \in Nat /\ DOMAIN change = 1 .. Len(change) /\ <<item>> \in Seq(Items)
  OBVIOUS
<1>2. CASE new = <<item>> \o change
  <2>1. new \in Seq(Items) /\ DOMAIN new = 1 .. Len(change) + 1
        /\ \A i \in 1 .. Len(change) : new[i + 1] = change[i]
    BY <1>1, <1>2
  <2>2. ASSUME NEW i \in DOMAIN change
        PROVE  i + 1 \in DOMAIN new /\ new[i + 1] = change[i] /\ i + 1 >= i
    BY <1>1, <2>1
  <2> QED BY <2>1, <2>2
<1>3. CASE new = Append(change, item)
  <2>1. new \in Seq(Items) /\ DOMAIN new = 1 .. Len(change) + 1
        /\ \A i \in 1 .. Len(change) : new[i] = change[i]
    BY <1>1, <1>3
  <2>2. ASSUME NEW i \in DOMAIN change
        PROVE  i \in DOMAIN new /\ new[i] = change[i] /\ i >= i
    BY <1>1, <2>1
  <2> QED BY <2>1, <2>2
<1> QED BY <1>2, <1>3

(* What stands before a removed item of a list stays where it is.          *)
LEMMA RemovedItemsPull ==
    ASSUME change \in Seq(Items), NEW k \in DOMAIN change
    PROVE  /\ RemoveAt(change, k) \in Seq(Items)
           /\ \A i \in DOMAIN change : i < k =>
                 i \in DOMAIN RemoveAt(change, k) /\ RemoveAt(change, k)[i] = change[i]
<1>1. Len(change) \in Nat /\ DOMAIN change = 1 .. Len(change) /\ k \in 1 .. Len(change)
  OBVIOUS
<1> DEFINE front == SubSeq(change, 1, k - 1)
           back == SubSeq(change, k + 1, Len(change))
<1>2. front \in Seq(Items) /\ Len(front) = k - 1 /\ \A i \in 1 .. k - 1 : front[i] = change[i]
  BY <1>1
<1>3. back \in Seq(Items)
  BY <1>1
<1>4. RemoveAt(change, k) = front \o back
  BY DEF RemoveAt
<1> HIDE DEF front, back
<1>5. /\ front \o back \in Seq(Items)
      /\ \A i \in 1 .. Len(front) : i \in DOMAIN (front \o back) /\ (front \o back)[i] = front[i]
  BY <1>2, <1>3
<1> QED BY <1>1, <1>2, <1>4, <1>5

(***************************************************************************)
(* A concatenation contains the elements of both of its parts.             *)
(***************************************************************************)
LEMMA ConcatenationKeepsElements ==
    ASSUME NEW S, NEW s \in Seq(S), NEW t \in Seq(S)
    PROVE  s \o t \in Seq(S) /\ Range(s) \cup Range(t) \subseteq Range(s \o t)
<1>1. /\ Len(s) \in Nat /\ DOMAIN s = 1 .. Len(s) /\ Len(t) \in Nat /\ DOMAIN t = 1 .. Len(t)
      /\ s \o t \in Seq(S) /\ DOMAIN (s \o t) = 1 .. Len(s) + Len(t)
      /\ \A i \in DOMAIN s : (s \o t)[i] = s[i]
      /\ \A i \in DOMAIN t : (s \o t)[Len(s) + i] = t[i]
  OBVIOUS
<1>2. \A i \in DOMAIN s : i \in DOMAIN (s \o t)
  BY <1>1
<1>3. \A i \in DOMAIN t : Len(s) + i \in DOMAIN (s \o t)
  BY <1>1
<1>4. PICK u : u = s \o t
  OBVIOUS
<1> QED BY <1>1, <1>2, <1>3, <1>4 DEF Range

(***************************************************************************)
(* Every step keeps a read in order: what was due has been read or is      *)
(* still ahead.                                                            *)
(***************************************************************************)
LEMMA NoReadIsFine == IsReading(NoRead) /\ NoRead.page = 0 /\ NoRead.items = <<>>
                      /\ NoRead.due = {}
BY DEF IsReading, NoRead

(* A page that is read takes the next items of the list, or ends it.       *)
LEMMA PagesAreRead ==
    ASSUME Reads, ReadPage
    PROVE  Reads'
<1> DEFINE items == PageItems(reading.page)
<1>1. /\ reading' = [reading EXCEPT !.page = @ + 1, !.items = @ \o items]
      /\ pc = "paging" /\ pc' = IF IsLastPage(items) THEN "listed" ELSE pc
      /\ change' = change /\ added' = added /\ platform' = platform
  BY DEF ReadPage, platformVars
<1>2. reading.page \in Nat \ {0} /\ PagesAhead(reading, change)
  BY <1>1 DEF Reads, DueIsAhead, PagesAhead
<1>3. /\ items \in Seq(Items)
      /\ \A i \in DOMAIN change : i > (reading.page - 1) * PerPage =>
            change[i] \in Range(items) \/ (i > reading.page * PerPage /\ ~IsLastPage(items))
  BY <1>2, PagesBringTheirItems DEF Reads
<1> HIDE DEF items
<1>4. /\ IsReading(reading') /\ reading'.page = reading.page + 1
      /\ reading'.items = reading.items \o items
      /\ reading'.due = reading.due /\ reading'.call = reading.call
  BY <1>1 DEF Reads, IsReading
<1>5. /\ reading'.items \in Seq(Items)
      /\ Range(reading.items) \cup Range(items) \subseteq Range(reading'.items)
  <2>1. reading.items \in Seq(Items)
    BY DEF Reads
  <2> QED BY <1>3, <1>4, <2>1, ConcatenationKeepsElements
<1>6. ASSUME NEW item \in reading.due
      PROVE  \/ item \in Range(reading'.items)
             \/ ~IsLastPage(items) /\ \E i \in DOMAIN change :
                   change[i] = item /\ i > reading.page * PerPage
  BY <1>2, <1>3, <1>5 DEF PagesAhead
<1>7. (reading'.page - 1) * PerPage = reading.page * PerPage
  <2>1. reading'.page - 1 = reading.page
    BY <1>2, <1>4
  <2> QED BY <2>1
<1>8. DueIsAhead'
  BY <1>1, <1>2, <1>4, <1>6, <1>7 DEF DueIsAhead
<1>9. ReadsAreOfLists'
  BY <1>1, <1>4 DEF Reads, ReadsAreOfLists, PagedTools
<1> QED BY <1>1, <1>2, <1>4, <1>5, <1>8, <1>9 DEF Reads

(* While the platform removes items or adds them at the end, what is still *)
(* due stays ahead of the pages read.                                      *)
LEMMA ListsChange ==
    ASSUME Reads, PlatformStep
    PROVE  Reads'
<1>1. CASE \E c \in Commits : Push(c) /\ UNCHANGED runVars
  BY <1>1 DEF Push, runVars, Reads, DueIsAhead, ReadsAreOfLists, PagedTools
<1>2. ASSUME NEW step, NEW excused, ChangeList(step, excused), platform' = platform,
             change' \in Seq(Items), added' \in 0 .. MaxItems,
             \A i \in DOMAIN change : change[i] \in reading.due \ excused =>
                 \E j \in DOMAIN change' : change'[j] = change[i] /\ j >= i
      PROVE  Reads'
  <2>1. /\ pc = "paging" /\ pc' = pc
        /\ reading' = [reading EXCEPT !.due = reading.due \ excused]
    BY <1>2 DEF ChangeList
  <2>2. /\ IsReading(reading') /\ reading'.page = reading.page
        /\ reading'.items = reading.items /\ reading'.call = reading.call
        /\ reading'.due = reading.due \ excused
    BY <2>1 DEF Reads, IsReading
  <2>3. reading.page \in Nat \ {0} /\ (reading.page - 1) * PerPage \in Nat
    <3>1. reading.page \in Nat \ {0}
      BY <2>1 DEF Reads, DueIsAhead
    <3>2. reading.page - 1 \in Nat /\ PerPage \in Nat
      BY <3>1, RepositoryAssumption
    <3> QED BY <3>1, <3>2
  <2>4. PagesAhead(reading, change)
    BY <2>1 DEF Reads, DueIsAhead, PagesAhead
  <2>5. \A i \in DOMAIN change : i \in Nat
    BY DEF Reads
  <2>6. \A j \in DOMAIN change' : j \in Nat
    BY <1>2
  <2> DEFINE bound == (reading.page - 1) * PerPage
  <2>7. \A item \in reading.due \ excused :
            \/ item \in Range(reading.items)
            \/ \E j \in DOMAIN change' : change'[j] = item /\ j > bound
    <3> SUFFICES ASSUME NEW item \in reading.due \ excused, item \notin Range(reading.items)
                 PROVE  \E j \in DOMAIN change' : change'[j] = item /\ j > bound
      OBVIOUS
    <3>1. PICK i \in DOMAIN change : change[i] = item /\ i > bound
      BY <2>4 DEF PagesAhead
    <3>2. PICK j \in DOMAIN change' : change'[j] = change[i] /\ j >= i
      BY <1>2, <3>1
    <3> HIDE DEF bound
    <3>3. j > bound
      BY <2>3, <2>5, <2>6, <3>1, <3>2 DEF bound
    <3> QED BY <3>1, <3>2, <3>3
  <2>8. (reading'.page - 1) * PerPage = bound
    BY <2>2
  <2> HIDE DEF bound
  <2>9. DueIsAhead'
    BY <2>1, <2>2, <2>3, <2>7, <2>8 DEF DueIsAhead
  <2> QED BY <1>2, <2>1, <2>2, <2>9 DEF Reads, ReadsAreOfLists, PagedTools
<1>3. ASSUME NEW answers \in 0 .. MaxItems, NEW atFront \in BOOLEAN,
             ChangeList(AddItem(answers, 1, atFront), {})
      PROVE  Reads'
  <2> DEFINE item == [id |-> added + 1, answers |-> answers, lines |-> 1]
  <2>1. /\ added < MaxItems /\ added' = added + 1 /\ platform' = platform
        /\ change' = <<item>> \o change \/ change' = Append(change, item)
    BY <1>3 DEF ChangeList, AddItem
  <2>2. added' \in 0 .. MaxItems /\ added + 1 \in 1 .. MaxItems
    BY <2>1, RepositoryAssumption DEF Reads
  <2>3. item \in Items
    BY <2>2 DEF Items
  <2> HIDE DEF item
  <2>4. /\ change' \in Seq(Items)
        /\ \A i \in DOMAIN change : \E j \in DOMAIN change' : change'[j] = change[i] /\ j >= i
    BY <2>1, <2>3, AddedItemsPush DEF Reads
  <2> QED BY <1>2, <1>3, <2>1, <2>2, <2>4
<1>4. ASSUME NEW k \in DOMAIN change, ChangeList(RemoveItem(k), Behind(k))
      PROVE  Reads'
  <2>1. change' = RemoveAt(change, k) /\ added' = added /\ platform' = platform
    BY <1>4 DEF ChangeList, RemoveItem
  <2>2. /\ change' \in Seq(Items)
        /\ \A i \in DOMAIN change : i < k => i \in DOMAIN change' /\ change'[i] = change[i]
    BY <2>1, RemovedItemsPull DEF Reads
  <2>3. Len(change) \in Nat /\ DOMAIN change = 1 .. Len(change)
    BY DEF Reads
  <2>4. ASSUME NEW i \in DOMAIN change, change[i] \notin Behind(k)
        PROVE  i < k /\ i >= i
    BY <2>3, <2>4 DEF Behind
  <2>5. \A i \in DOMAIN change : change[i] \in reading.due \ Behind(k) =>
            \E j \in DOMAIN change' : change'[j] = change[i] /\ j >= i
    BY <2>2, <2>4
  <2> QED BY <1>2, <1>4, <2>1, <2>2, <2>5 DEF Reads
<1> QED BY <1>1, <1>3, <1>4 DEF PlatformStep

(* No step leaves a due item behind the pages read.                        *)
LEMMA ReadsStayAhead ==
    ASSUME Reads, [Next]_vars
    PROVE  Reads'
<1>1. ASSUME UNCHANGED <<change, added, reading>>, pc' \notin {"paging", "listed"}
      PROVE  Reads'
  BY <1>1 DEF Reads, DueIsAhead, ReadsAreOfLists
<1>2. ASSUME change' = <<>>, added' = 0, reading' = NoRead, pc' \notin {"paging", "listed"}
      PROVE  Reads'
  <2>1. <<>> \in Seq(Items) /\ 0 \in 0 .. MaxItems
    BY RepositoryAssumption
  <2> QED BY <1>2, <2>1, NoReadIsFine DEF Reads, DueIsAhead, ReadsAreOfLists
<1>3. CASE Ask
  BY <1>1, <1>3 DEF Ask, Goto, platformVars
<1>4. CASE ResolveHead \/ LoadTree \/ LoadDocs \/ StartLoop \/ BuildPrompt
  BY <1>1, <1>4 DEF ResolveHead, LoadTree, LoadDocs, StartLoop, BuildPrompt, Goto, platformVars
<1>5. CASE GiveUp \/ AfterRaise
  BY <1>1, <1>5 DEF GiveUp, AfterRaise, Goto, platformVars
<1>6. CASE Return \/ Raise
  BY <1>2, <1>6 DEF Return, Raise, Forget
<1>7. CASE CloseList
  BY <1>2, <1>7 DEF CloseList, Goto
<1>8. ASSUME NEW c, NEW list \in Lists, OpenList(c, list)
      PROVE  Reads'
  <2>1. /\ pc' = "paging" /\ change' = list /\ added' = Len(list) /\ platform' = platform
        /\ c.tool \in PagedTools
        /\ reading' = [NoRead EXCEPT !.call = c, !.page = 1, !.due = Range(list)]
    BY <1>8 DEF OpenList, Goto
  <2>2. list \in Seq(Items) /\ Len(list) \in 0 .. MaxItems
    BY RunAssumption, RepositoryAssumption
  <2>3. /\ IsReading(reading') /\ reading'.page = 1 /\ reading'.items = <<>>
        /\ reading'.due = Range(list) /\ reading'.call = c
    BY <2>1 DEF NoRead, IsReading
  <2>4. Range(list) \subseteq Items /\ <<>> \in Seq(Items)
    BY <2>2 DEF Range
  <2>5. (1 - 1) * PerPage = 0
    BY RepositoryAssumption
  <2>6. \A item \in Range(list) : \E i \in DOMAIN list : list[i] = item /\ i > 0
    BY <2>2 DEF Range
  <2>7. DueIsAhead'
    BY <2>1, <2>3, <2>5, <2>6 DEF DueIsAhead
  <2>8. ReadsAreOfLists'
    BY <2>1, <2>3 DEF ReadsAreOfLists, PagedTools
  <2>9. change' \in Seq(Items) /\ added' \in 0 .. MaxItems
    BY <2>1, <2>2
  <2>10. reading'.page \in Nat /\ reading'.items \in Seq(Items) /\ reading'.due \subseteq Items
    BY <2>3, <2>4
  <2> QED BY <2>3, <2>7, <2>8, <2>9, <2>10 DEF Reads
<1>9. ASSUME NEW response, RespondWith(response)
      PROVE  Reads'
  <2>1. CASE Retry
    BY <1>1, <2>1 DEF Retry, Goto, platformVars
  <2>2. CASE Accept(response)
    BY <1>1, <2>2 DEF Accept, Goto, platformVars
  <2>3. CASE Refuse(response.call) \/ Call(response.call)
    BY <1>1, <2>3 DEF Refuse, Call, Goto
  <2>4. CASE \E list \in Lists : OpenList(response.call, list)
    <3>1. PICK list \in Lists : OpenList(response.call, list)
      BY <2>4
    <3> QED BY <1>8, <3>1
  <2> QED BY <1>9, <2>1, <2>2, <2>3, <2>4 DEF RespondWith, Reject
<1>10. CASE UNCHANGED vars
  BY <1>10 DEF vars, runVars, platformVars, Reads, DueIsAhead, ReadsAreOfLists, PagedTools
<1> QED BY <1>3, <1>4, <1>5, <1>6, <1>7, <1>9, <1>10, PagesAreRead, ListsChange
        DEF Next, RunStep, Respond

-----------------------------------------------------------------------------
(* The memory through the steps of a run.                                  *)

(***************************************************************************)
(* What a call leaves in the memory keeps type and order.                  *)
(***************************************************************************)
LEMMA CallsAreRemembered ==
    ASSUME SnapshotInvariant, pc \in Looping, IsNumbered(memory), NEW c,
           c.tool \in {"read_file", "read_project_doc"} => c.path \in Spellings,
           NEW text \in Blobs \cup {Nothing, Error}, Remember(c, text)
    PROVE  IsNumbered(memory')
<1>1. CASE c.tool \in {"read_file", "read_project_doc"}
  <2>1. memory' = RememberFile(memory, c.path, text, VersionOf(c))
    BY <1>1 DEF Remember
  <2>2. VersionOf(c) \in Blobs \cup {Nothing}
    BY VersionsAreContents
  <2> QED BY <1>1, <2>1, <2>2, RememberedFilesAreNumbered
<1>2. CASE c.tool \notin {"read_file", "read_project_doc"}
  BY <1>2, NumberedMemories DEF Remember
<1> QED BY <1>1, <1>2

MemoriesAreNumbered == IsNumbered(saved) /\ IsNumbered(memory)

(* Every step keeps the saved memory and the one of the run numbered.      *)
LEMMA MemoriesStayNumbered ==
    ASSUME SnapshotInvariant, TypeOK, ReadsAreOfLists, MemoriesAreNumbered, [Next]_vars
    PROVE  MemoriesAreNumbered'
<1> USE DEF MemoriesAreNumbered
<1>1. ASSUME UNCHANGED <<saved, memory>> PROVE MemoriesAreNumbered'
  BY <1>1
<1>2. CASE Ask
  BY <1>2, NumberedMemories DEF Ask
<1>3. CASE ResolveHead \/ LoadTree \/ LoadDocs \/ BuildPrompt \/ ReadPage \/ GiveUp \/ AfterRaise
  BY <1>1, <1>3 DEF ResolveHead, LoadTree, LoadDocs, BuildPrompt, ReadPage, GiveUp,
                    AfterRaise, sessionVars
<1>4. CASE StartLoop
  BY <1>4, NumberedMemories DEF StartLoop, sessionVars
<1>5. CASE Return \/ Raise
  BY <1>5, NumberedMemories DEF Return, Raise, Forget
<1>6. CASE CloseList
  <2>1. Remember(reading.call, Nothing) /\ saved' = saved /\ pc = "listed"
    BY <1>6 DEF CloseList, Finish, Goto, sessionVars
  <2>2. reading.call.tool \notin {"read_file", "read_project_doc"}
    BY <2>1 DEF ReadsAreOfLists, PagedTools, ChangeTools
  <2>3. pc \in Looping
    BY <2>1 DEF Looping
  <2> QED BY <2>1, <2>2, <2>3, CallsAreRemembered
<1>7. CASE PlatformStep
  BY <1>1, <1>7 DEF PlatformStep, ChangeList, runVars, sessionVars
<1>8. CASE UNCHANGED vars
  BY <1>1, <1>8 DEF vars, runVars, sessionVars
<1>9. CASE Respond
  <2>1. PICK out \in Question.outputs : RespondWith(Parse(out))
    BY <1>9 DEF Respond
  <2> DEFINE response == Parse(out)
             c == response.call
  <2>2. pc = "model" /\ pc \in Looping /\ asked \in 1 .. Len(Questions) /\ asked \in Nat
    BY <1>9, RunAssumption DEF Respond, TypeOK, Looping
  <2>3. response.tag = "retry" \/ IsAction(response)
    BY <2>2, ParsedAction
  <2> HIDE DEF response, c
  <2>4. RespondWith(response)
    BY <2>1 DEF response
  <2>5. response.tag = "tool" =>
            (c.tool \in {"read_file", "read_project_doc"} => c.path \in Spellings)
    BY <2>3 DEF IsAction, PathTools, c
  <2>6. CASE Retry
    BY <1>1, <2>6 DEF Retry, sessionVars
  <2>7. CASE response.tag = "final" /\ Accept(response)
    <3>1. response.words \in SUBSET Words
      BY <2>3, <2>7 DEF IsAction
    <3>2. memory' = RememberAnswer(memory, asked, response.words) /\ saved' = saved
      BY <2>7 DEF Accept, sessionVars
    <3> QED BY <2>2, <3>1, <3>2, RememberedAnswersAreNumbered
  <2>8. CASE response.tag = "tool" /\ Refuse(c)
    <3>1. Remember(c, Error) /\ saved' = saved
      BY <2>8 DEF Refuse, Finish, sessionVars
    <3> QED BY <2>2, <2>5, <2>8, <3>1, CallsAreRemembered
  <2>9. CASE response.tag = "tool" /\ Call(c)
    <3>1. Remember(c, Text(c)) /\ saved' = saved
      BY <2>9 DEF Call, Finish, sessionVars
    <3>2. Text(c) \in Blobs \cup {Nothing, Error}
      BY <2>2, <2>9, CallsTellTheCommit DEF Call
    <3> QED BY <2>2, <2>5, <2>9, <3>1, <3>2, CallsAreRemembered
  <2>10. CASE \E list \in Lists : OpenList(c, list)
    BY <1>1, <2>10 DEF OpenList, sessionVars
  <2> QED BY <2>4, <2>6, <2>7, <2>8, <2>9, <2>10 DEF RespondWith, Reject, c
<1> QED BY <1>2, <1>3, <1>4, <1>5, <1>6, <1>7, <1>8, <1>9 DEF Next, RunStep

-----------------------------------------------------------------------------
(* Places and counters.                                                    *)

Frame ==
    /\ platform \in {"github", "gitlab"} /\ head \in Commits /\ ref \in Commits
    /\ pc \in {"idle", "raised"} \cup Building \cup Looping
    /\ asked \in 0 .. Len(Questions) /\ (pc \in Building \cup Looping => asked > 0)
    /\ attempts \in 0 .. MaxAttempts /\ toolSteps \in Nat /\ history \in Nat

(***************************************************************************)
(* Every step keeps places and counters within their bounds.               *)
(***************************************************************************)
LEMMA FrameStays ==
    ASSUME Frame, [Next]_vars
    PROVE  Frame'
<1>1. Len(Questions) \in Nat /\ MaxAttempts \in Nat /\ EntryLength \in Nat
  BY RunAssumption
<1>2. ASSUME UNCHANGED <<platform, head, ref, asked>>, asked > 0 \/ pc' \in {"idle", "raised"},
             pc' \in {"idle", "raised"} \cup Building \cup Looping,
             attempts' \in 0 .. MaxAttempts, toolSteps' \in Nat, history' \in Nat
      PROVE  Frame'
  <2>1. {"idle", "raised"} \cap (Building \cup Looping) = {}
    BY DEF Building, Looping
  <2> QED BY <1>2, <2>1 DEF Frame
<1>3. CASE Ask
  <2>1. /\ UNCHANGED <<platform, head, ref>> /\ pc' = "resolve" /\ asked' = asked + 1
        /\ attempts' = 0 /\ toolSteps' = 0 /\ history' = asked * EntryLength
        /\ asked < Len(Questions)
    BY <1>3 DEF Ask, Goto, platformVars, snapshotVars
  <2>2. asked * EntryLength \in Nat /\ asked + 1 \in 0 .. Len(Questions) /\ asked + 1 > 0
    <3>1. asked \in Nat
      BY <1>1 DEF Frame
    <3>2. \A a, b \in Nat : a * b \in Nat
      OBVIOUS
    <3> QED BY <1>1, <2>1, <3>1, <3>2
  <2>3. 0 \in 0 .. MaxAttempts /\ 0 \in Nat
    BY <1>1
  <2>4. "resolve" \in Building
    BY DEF Building
  <2> QED BY <2>1, <2>2, <2>3, <2>4 DEF Frame
<1>4. CASE ResolveHead
  BY <1>4 DEF ResolveHead, Goto, platformVars, sessionVars, loopVars, Frame, Building, Looping
<1>5. CASE LoadTree \/ LoadDocs \/ StartLoop \/ GiveUp \/ AfterRaise
  <2>1. /\ UNCHANGED <<platform, head, ref, asked, attempts, toolSteps, history>>
        /\ pc \in Building \cup Looping \cup {"raised"}
        /\ pc' \in {"idle"} \cup Building \cup Looping
        /\ pc = "raised" => pc' = "idle"
    BY <1>5 DEF LoadTree, LoadDocs, StartLoop, GiveUp, AfterRaise, Goto, platformVars,
                sessionVars, snapshotVars, loopVars, Building, Looping
  <2> QED BY <1>2, <2>1 DEF Frame
<1>6. CASE BuildPrompt
  <2>1. /\ UNCHANGED <<platform, head, ref, asked, toolSteps, history>>
        /\ pc = "prompt" /\ pc' = "model" /\ attempts < MaxAttempts /\ attempts' = attempts + 1
    BY <1>6 DEF BuildPrompt, Goto, platformVars, sessionVars, snapshotVars
  <2>2. attempts' \in 0 .. MaxAttempts
    BY <1>1, <2>1 DEF Frame
  <2> QED BY <1>2, <2>1, <2>2 DEF Frame, Looping
<1>7. CASE ReadPage
  <2>1. /\ UNCHANGED <<platform, head, ref, asked, attempts, toolSteps, history>>
        /\ pc = "paging" /\ pc' \in {"paging", "listed"}
    BY <1>7 DEF ReadPage, platformVars, sessionVars, snapshotVars, loopVars
  <2> QED BY <1>2, <2>1 DEF Frame, Looping
<1>8. ASSUME NEW c, NEW text, NEW names, Finish(c, text, names),
             pc \in {"model", "listed"}, pc' = "prompt"
      PROVE  Frame'
  <2>1. /\ UNCHANGED <<platform, head, ref, asked, attempts>>
        /\ toolSteps' = toolSteps + 1 /\ history' = history + EntryLength
    BY <1>8 DEF Finish, Grow, sessionVars, snapshotVars
  <2> QED BY <1>1, <1>2, <1>8, <2>1 DEF Frame, Looping
<1>9. CASE CloseList
  BY <1>8, <1>9 DEF CloseList, Goto
<1>10. CASE Return \/ Raise
  <2>1. /\ UNCHANGED <<platform, head, ref, asked>> /\ pc' \in {"idle", "raised"}
        /\ attempts' = 0 /\ toolSteps' = 0 /\ history' = 0
    BY <1>10 DEF Return, Raise, Forget
  <2> QED BY <1>1, <1>2, <2>1
<1>11. CASE PlatformStep
  <2>1. /\ UNCHANGED <<platform, ref, asked, attempts, toolSteps, history, pc>>
        /\ head' \in Commits
    BY <1>11 DEF PlatformStep, Push, ChangeList, AddItem, RemoveItem, runVars, sessionVars,
                 snapshotVars, loopVars, Frame
  <2> QED BY <2>1 DEF Frame
<1>12. CASE UNCHANGED vars
  BY <1>12 DEF vars, runVars, platformVars, sessionVars, snapshotVars, loopVars, Frame
<1>13. ASSUME NEW response, pc = "model", RespondWith(response)
       PROVE  Frame'
  <2>1. CASE Retry
    <3>1. /\ UNCHANGED <<platform, head, ref, asked, attempts, toolSteps>>
          /\ pc' = "prompt" /\ history' = history + EntryLength
      BY <2>1 DEF Retry, Goto, Grow, platformVars, sessionVars, snapshotVars
    <3> QED BY <1>1, <1>2, <1>13, <3>1 DEF Frame, Looping
  <2>2. CASE Accept(response)
    <3>1. /\ UNCHANGED <<platform, head, ref, asked, attempts, toolSteps, history>>
          /\ pc' = "completed"
      BY <2>2 DEF Accept, Goto, platformVars, sessionVars, snapshotVars, loopVars
    <3> QED BY <1>2, <1>13, <3>1 DEF Frame, Looping
  <2>3. CASE Refuse(response.call)
    <3>1. Finish(response.call, Error, {}) /\ pc' = "prompt"
      BY <2>3 DEF Refuse, Goto
    <3> QED BY <1>8, <1>13, <3>1
  <2>4. CASE Call(response.call)
    <3>1. PICK names : Finish(response.call, Text(response.call), names) /\ pc' = "prompt"
      BY <2>4 DEF Call, Goto
    <3> QED BY <1>8, <1>13, <3>1
  <2>5. CASE \E list \in Lists : OpenList(response.call, list)
    <3>1. /\ UNCHANGED <<platform, head, ref, asked, attempts, toolSteps, history>>
          /\ pc' = "paging"
      BY <2>5 DEF OpenList, Goto, sessionVars, snapshotVars
    <3> QED BY <1>2, <1>13, <3>1 DEF Frame, Looping
  <2> QED BY <1>13, <2>1, <2>2, <2>3, <2>4, <2>5 DEF RespondWith, Reject
<1> QED BY <1>3, <1>4, <1>5, <1>6, <1>7, <1>9, <1>10, <1>11, <1>12, <1>13
        DEF Next, RunStep, Respond

-----------------------------------------------------------------------------
(***************************************************************************)
(* The parts of the invariant of a run, as the lemmas keep them.           *)
(***************************************************************************)
RunParts == Frame /\ MemoriesAreNumbered /\ Recorded /\ Reads

(* The inductive parts hold what TypeOK and ReadsAreOfLists say.           *)
LEMMA PartsAreTypeOK == RunParts => TypeOK /\ ReadsAreOfLists
BY DEF RunParts, Frame, MemoriesAreNumbered, IsNumbered, Recorded, Reads, TypeOK

(***************************************************************************)
(* Every reachable state of a run is in order: its types, what its memory, *)
(* its snapshot and its prompt tell, the numbers of its notes, its events  *)
(* and the pages it reads, for any repository, outputs and limits.         *)
(***************************************************************************)
THEOREM RunInvariantHolds == Spec => []RunInvariant
<1>1. Init => RunParts
  <2> SUFFICES ASSUME Init PROVE RunParts
    OBVIOUS
  <2>1. Frame
    <3>1. 0 \in 0 .. MaxAttempts /\ 0 \in 0 .. Len(Questions) /\ 0 \in Nat
      BY RunAssumption
    <3>2. "idle" \notin Building \cup Looping
      BY DEF Building, Looping
    <3> QED BY <3>1, <3>2 DEF Init, Frame
  <2>2. MemoriesAreNumbered
    BY NumberedMemories DEF Init, MemoriesAreNumbered
  <2>3. Recorded
    BY DEF Init, Recorded, ReturnedRunsAreClosed
  <2>4. Reads
    <3>1. <<>> \in Seq(Items) /\ 0 \in 0 .. MaxItems
      BY RepositoryAssumption
    <3> QED BY <3>1, NoReadIsFine DEF Init, Reads, DueIsAhead, ReadsAreOfLists
  <2> QED BY <2>1, <2>2, <2>3, <2>4 DEF RunParts
<1>2. SnapshotInvariant /\ RunParts /\ [Next]_vars => RunParts'
  BY PartsAreTypeOK, FrameStays, MemoriesStayNumbered, EventsStayClosed, ReadsStayAhead
     DEF RunParts
<1>3. SnapshotInvariant /\ RunParts => RunInvariant
  BY PartsAreTypeOK
     DEF RunParts, MemoriesAreNumbered, IsNumbered, Recorded, Reads, SnapshotInvariant, RunInvariant
<1> QED BY <1>1, <1>2, <1>3, SnapshotHolds, PTL DEF Spec

-----------------------------------------------------------------------------
(* What the model is told of a list.                                       *)

(***************************************************************************)
(* Every item of a list is told of in one of its entries, a reply in that  *)
(* of its thread.                                                          *)
(***************************************************************************)
LEMMA EntriesTellTheItems ==
    ASSUME NEW tool, NEW items \in Seq(Items)
    PROVE  LET e == Entries(tool, items)
           IN  /\ e \in Seq(SUBSET {items[i].id : i \in DOMAIN items})
               /\ \A i \in DOMAIN items : \E t \in DOMAIN e : items[i].id \in e[t]
<1> DEFINE ids == {items[i].id : i \in DOMAIN items}
           plain == [i \in DOMAIN items |-> {items[i].id}]
<1>1. Len(items) \in Nat /\ DOMAIN items = 1 .. Len(items)
  OBVIOUS
<1>2. plain \in Seq(SUBSET ids) /\ \A i \in DOMAIN items : \E t \in DOMAIN plain : items[i].id \in plain[t]
  <2>1. \A i \in 1 .. Len(items) : {items[i].id} \in SUBSET ids
    BY <1>1
  <2>2. [i \in 1 .. Len(items) |-> {items[i].id}] \in Seq(SUBSET ids)
    <3> HIDE DEF ids
    <3> QED BY <1>1, <2>1, IsASeq
  <2> QED BY <1>1, <2>2
<1> DEFINE InThread(i) == {j \in DOMAIN items : ThreadOf(items[j]) = ThreadOf(items[i])}
           First == {i \in DOMAIN items : i = Min(InThread(i))}
           firsts == Ascending(First)
           threads == [t \in DOMAIN firsts |-> {items[j].id : j \in InThread(firsts[t])}]
<1>3. ASSUME NEW i \in DOMAIN items
      PROVE  \E f \in First : i \in InThread(f)
  <2>1. InThread(i) \subseteq Nat /\ i \in InThread(i)
    BY <1>1
  <2>2. PICK f : f = Min(InThread(i))
    OBVIOUS
  <2>3. f \in InThread(i)
    BY <2>1, <2>2, MinIsLeast
  <2>4. InThread(f) = InThread(i)
    BY <2>3
  <2> QED BY <2>1, <2>2, <2>3, <2>4
<1>4. First \subseteq Nat /\ IsFiniteSet(First)
  <2>1. First \in SUBSET (1 .. Len(items))
    BY <1>1
  <2> HIDE DEF First
  <2>2. IsFiniteSet(1 .. Len(items))
    BY <1>1, FS_Interval
  <2>3. IsFiniteSet(First)
    BY <2>1, <2>2, FS_Subset
  <2> QED BY <2>1, <2>3
<1>5. /\ Cardinality(First) \in Nat /\ firsts \in [1 .. Cardinality(First) -> First]
      /\ \A f \in First : \E t \in 1 .. Cardinality(First) : firsts[t] = f
  <2> HIDE DEF First
  <2> QED BY <1>4, AscendingEnumerates
<1> HIDE DEF firsts, First
<1>6. threads \in Seq(SUBSET ids)
  <2> DEFINE thread(t) == {items[j].id : j \in InThread(firsts[t])}
  <2>1. \A t \in 1 .. Cardinality(First) : thread(t) \in SUBSET ids
    OBVIOUS
  <2>2. threads = [t \in 1 .. Cardinality(First) |-> thread(t)]
    BY <1>5
  <2> HIDE DEF thread, threads, ids
  <2> QED BY <1>5, <2>1, <2>2, IsASeq
<1>7. \A i \in DOMAIN items : \E t \in DOMAIN threads : items[i].id \in threads[t]
  <2> SUFFICES ASSUME NEW i \in DOMAIN items
               PROVE  \E t \in DOMAIN threads : items[i].id \in threads[t]
    OBVIOUS
  <2>1. PICK f \in First : i \in InThread(f)
    BY <1>3
  <2>2. PICK t \in 1 .. Cardinality(First) : firsts[t] = f
    BY <1>5
  <2>3. t \in DOMAIN threads /\ threads[t] = {items[j].id : j \in InThread(f)}
    BY <1>5, <2>2
  <2> HIDE DEF threads, InThread
  <2> QED BY <2>1, <2>3
<1>8. Entries(tool, items) \in {plain, threads}
  BY DEF Entries, GitHubEntries, GitLabEntries, firsts, First
<1> HIDE DEF plain, threads, ids
<1>9. /\ Entries(tool, items) \in Seq(SUBSET ids)
      /\ \A i \in DOMAIN items : \E t \in DOMAIN Entries(tool, items) :
            items[i].id \in Entries(tool, items)[t]
  BY <1>2, <1>6, <1>7, <1>8
<1> QED BY <1>9 DEF ids

(***************************************************************************)
(* A result is the whole list or says that it is not.                      *)
(***************************************************************************)
LEMMA ResultsSayWhenTheyAreCut ==
    ASSUME NEW S, NEW e \in Seq(S)
    PROVE  LET result == JsonResult(e)
           IN  result.count > Len(result.shown) \/ result.shown = e
<1>1. Len(e) \in Nat /\ DOMAIN e = 1 .. Len(e) /\ Preview \in Nat
  BY GatewayAssumption
<1> DEFINE top == Min({Preview, Len(e)})
<1>2. top \in Nat /\ top <= Len(e)
  <2>1. {Preview, Len(e)} \subseteq Nat /\ Len(e) \in {Preview, Len(e)}
    BY <1>1
  <2> QED BY <2>1, MinIsLeast
<1>3. JsonResult(e).count = Len(e)
      /\ (JsonResult(e).shown = e \/ JsonResult(e).shown = SubSeq(e, 1, top))
  BY DEF JsonResult
<1> HIDE DEF top
<1>4. Len(SubSeq(e, 1, top)) = top
  BY <1>1, <1>2
<1> DEFINE len == Len(e)
<1>5. len \in Nat /\ top \in Nat /\ top <= len
  BY <1>1, <1>2
<1>6. top < Len(e) => JsonResult(e).count > Len(JsonResult(e).shown) \/ JsonResult(e).shown = e
  BY <1>1, <1>2, <1>3, <1>4
<1>7. ASSUME top = Len(e)
      PROVE  JsonResult(e).count > Len(JsonResult(e).shown) \/ JsonResult(e).shown = e
  <2>1. SubSeq(e, 1, Len(e)) = e
    BY SubSeqFull
  <2> QED BY <1>3, <1>7, <2>1
<1>8. top < Len(e) \/ top = Len(e)
  <2> HIDE DEF len
  <2>1. top < len \/ top = len
    BY <1>5
  <2> QED BY <2>1 DEF len
<1>9. JsonResult(e).count > Len(JsonResult(e).shown) \/ JsonResult(e).shown = e
  BY <1>6, <1>7, <1>8
<1> QED BY <1>9

(***************************************************************************)
(* A list read page by page lacks an item that was there all along only if *)
(* an item listed before it was taken out meanwhile, or if it says that it *)
(* was cut (_request_paginated_list, _json_result).                        *)
(***************************************************************************)
THEOREM ListsAreComplete == Spec => []ListsMissOnlyAfterRemovals
<1>1. RunInvariant => ListsMissOnlyAfterRemovals
  <2> SUFFICES ASSUME RunInvariant, pc = "listed"
               PROVE  LET result == JsonResult(Entries(reading.call.tool, reading.items))
                      IN  \/ result.count > Len(result.shown)
                          \/ {item.id : item \in reading.due} \subseteq UNION Range(result.shown)
    BY DEF ListsMissOnlyAfterRemovals
  <2>1. reading.items \in Seq(Items) /\ reading.due \subseteq Range(reading.items)
    BY DEF RunInvariant, TypeOK, DueIsAhead
  <2> DEFINE e == Entries(reading.call.tool, reading.items)
             ids == {reading.items[i].id : i \in DOMAIN reading.items}
  <2>2. /\ e \in Seq(SUBSET ids)
        /\ \A i \in DOMAIN reading.items : \E t \in DOMAIN e : reading.items[i].id \in e[t]
    BY <2>1, EntriesTellTheItems
  <2> HIDE DEF e
  <2>3. {item.id : item \in reading.due} \subseteq UNION Range(e)
    BY <2>1, <2>2 DEF Range
  <2> HIDE DEF ids
  <2>4. JsonResult(e).count > Len(JsonResult(e).shown) \/ JsonResult(e).shown = e
    BY <2>2, ResultsSayWhenTheyAreCut
  <2> QED BY <2>3, <2>4 DEF e
<1> QED BY <1>1, RunInvariantHolds, PTL

-----------------------------------------------------------------------------
(* The budgets of a prompt.                                                *)

Overflow(raw, request, b) == PromptLength(raw, request, b) - TotalBudget

(* What holds of the budgets of a prompt however far the reduction is.     *)
CutBack(raw, request, b) ==
    /\ b \in [Sections -> Nat]
    /\ \A s \in Sections : /\ b[s] <= SectionBudget[s]
                           /\ b[s] >= SectionFloor[s] \/ b[s] = SectionBudget[s]
    /\ b = SectionBudget \/ PromptLength(raw, request, b) >= TotalBudget
    /\ \A i, j \in DOMAIN ReductionOrder :
          i < j /\ b[ReductionOrder[j]] < SectionBudget[ReductionOrder[j]] =>
              b[ReductionOrder[i]] <= SectionFloor[ReductionOrder[i]]

(***************************************************************************)
(* The minimum and the maximum of two numbers.                             *)
(***************************************************************************)
LEMMA MinMaxOfTwo ==
    ASSUME NEW x \in Int, NEW y \in Int
    PROVE  /\ x >= 0 /\ y >= 0 => Min({x, y}) = IF x <= y THEN x ELSE y
           /\ Max({x, y}) = IF x <= y THEN y ELSE x
<1>1. ASSUME x >= 0, y >= 0
      PROVE  Min({x, y}) = IF x <= y THEN x ELSE y
  <2>1. {x, y} \subseteq Nat /\ {x, y} # {}
    BY <1>1
  <2>2. PICK m : m = Min({x, y})
    OBVIOUS
  <2>3. m \in {x, y} /\ m <= x /\ m <= y
    BY <2>1, <2>2, MinIsLeast
  <2> QED BY <2>2, <2>3
<1>2. Max({x, y}) = IF x <= y THEN y ELSE x
  <2>1. PICK b \in Int : x <= b /\ y <= b
    <3>1. CASE x <= y
      BY <3>1
    <3>2. CASE y <= x
      BY <3>2
    <3> QED BY <3>1, <3>2
  <2>2. {x, y} \subseteq Int /\ {x, y} # {} /\ \A z \in {x, y} : z <= b
    BY <2>1
  <2>3. PICK m : m = Max({x, y})
    OBVIOUS
  <2>4. m \in {x, y} /\ x <= m /\ y <= m
    BY <2>1, <2>2, <2>3, MaxIsGreatest
  <2> QED BY <2>3, <2>4
<1> QED BY <1>1, <1>2

(***************************************************************************)
(* The first section that can give something up is one, and those before   *)
(* it cannot.                                                              *)
(***************************************************************************)
LEMMA FirstIsReducible ==
    ASSUME NEW b \in [Sections -> Nat], Reducible(b) # {}
    PROVE  \E m \in DOMAIN ReductionOrder :
               /\ FirstReducible(b) = ReductionOrder[m]
               /\ b[ReductionOrder[m]] > SectionFloor[ReductionOrder[m]]
               /\ \A i \in DOMAIN ReductionOrder :
                     i < m => b[ReductionOrder[i]] <= SectionFloor[ReductionOrder[i]]
<1>1. DOMAIN ReductionOrder = 1 .. Cardinality(Sections)
  BY BudgetAssumption
<1>2. DOMAIN ReductionOrder \subseteq Nat
  BY <1>1
<1>3. Reducible(b) \subseteq Nat
  BY <1>2 DEF Reducible
<1>4. PICK m : m = Min(Reducible(b))
  OBVIOUS
<1>5. m \in Reducible(b) /\ \A i \in Reducible(b) : m <= i
  BY <1>3, <1>4, MinIsLeast
<1>6. m \in Nat
  BY <1>3, <1>5
<1>7. ASSUME NEW i \in DOMAIN ReductionOrder, i < m
      PROVE  b[ReductionOrder[i]] <= SectionFloor[ReductionOrder[i]]
  <2>1. i \in Nat /\ i \notin Reducible(b)
    BY <1>2, <1>5, <1>6, <1>7
  <2>2. ReductionOrder[i] \in Sections
    BY BudgetAssumption
  <2> QED BY <2>1, <2>2, BudgetAssumption DEF Reducible
<1> QED BY <1>4, <1>5, <1>7 DEF Reducible, FirstReducible

(***************************************************************************)
(* The lengths of a prompt are numbers, and clipping one section less      *)
(* shortens it by no more than that.                                       *)
(***************************************************************************)
LEMMA ClippedLengths ==
    ASSUME NEW raw \in [Sections -> Nat], NEW request \in Nat,
           NEW b \in [Sections -> Nat]
    PROVE  /\ PromptLength(raw, request, b) \in Nat
           /\ \A s \in Sections : \A n \in Nat : n <= b[s] =>
                 PromptLength(raw, request, [b EXCEPT ![s] = n])
                     >= PromptLength(raw, request, b) - (b[s] - n)
<1> DEFINE clip(x, y) == IF x <= y THEN x ELSE y
<1> HIDE DEF clip
<1>1. ASSUME NEW c \in [Sections -> Nat]
      PROVE  PromptLength(raw, request, c) =
                 clip(raw["prefix"], c["prefix"]) + clip(raw["memory"], c["memory"])
                 + clip(raw["relevant_memory"], c["relevant_memory"])
                 + clip(raw["history"], c["history"]) + request + Joints
  <2>1. ASSUME NEW s \in Sections
        PROVE  Rendered(raw, c)[s] = clip(raw[s], c[s])
    <3>1. raw[s] \in Nat /\ c[s] \in Nat
      OBVIOUS
    <3> QED BY <3>1, MinMaxOfTwo DEF Rendered, clip
  <2>2. {"prefix", "memory", "relevant_memory", "history"} \subseteq Sections
    BY DEF Sections
  <2>3. PromptLength(raw, request, c) =
            Rendered(raw, c)["prefix"] + Rendered(raw, c)["memory"]
            + Rendered(raw, c)["relevant_memory"] + Rendered(raw, c)["history"]
            + request + Joints
    BY DEF PromptLength, Sum4
  <2>4. /\ Rendered(raw, c)["prefix"] = clip(raw["prefix"], c["prefix"])
        /\ Rendered(raw, c)["memory"] = clip(raw["memory"], c["memory"])
        /\ Rendered(raw, c)["relevant_memory"]
               = clip(raw["relevant_memory"], c["relevant_memory"])
        /\ Rendered(raw, c)["history"] = clip(raw["history"], c["history"])
    BY <2>1, <2>2
  <2>5. PromptLength(raw, request, c) =
            clip(raw["prefix"], c["prefix"]) + clip(raw["memory"], c["memory"])
            + clip(raw["relevant_memory"], c["relevant_memory"])
            + clip(raw["history"], c["history"]) + request + Joints
    <3> DEFINE p == clip(raw["prefix"], c["prefix"])
               q == clip(raw["memory"], c["memory"])
               u == clip(raw["relevant_memory"], c["relevant_memory"])
               h == clip(raw["history"], c["history"])
    <3> HIDE DEF p, q, u, h
    <3>1. PromptLength(raw, request, c) = p + q + u + h + request + Joints
      BY <2>3, <2>4 DEF p, q, u, h
    <3> QED BY <3>1 DEF p, q, u, h
  <2> QED BY <2>5
<1>2. request \in Nat /\ Joints \in Nat
  BY BudgetAssumption
<1>3. ASSUME NEW c \in [Sections -> Nat]
      PROVE  PromptLength(raw, request, c) \in Nat
  <2>1. \A s \in Sections : clip(raw[s], c[s]) \in Nat
    BY DEF clip
  <2> QED BY <1>1, <1>2, <2>1 DEF Sections
<1>4. ASSUME NEW s \in Sections, NEW n \in Nat, n <= b[s]
      PROVE  PromptLength(raw, request, [b EXCEPT ![s] = n])
                 >= PromptLength(raw, request, b) - (b[s] - n)
  <2>1. [b EXCEPT ![s] = n] \in [Sections -> Nat]
    OBVIOUS
  <2> DEFINE d == [b EXCEPT ![s] = n]
  <2>2. /\ \A t \in Sections : clip(raw[t], b[t]) \in Nat /\ clip(raw[t], d[t]) \in Nat
        /\ \A t \in Sections : t # s => clip(raw[t], d[t]) = clip(raw[t], b[t])
        /\ clip(raw[s], d[s]) >= clip(raw[s], b[s]) - (b[s] - n)
        /\ d \in [Sections -> Nat]
    BY <1>4, <2>1 DEF clip
  <2>3. b[s] - n \in Nat
    BY <1>4
  <2> HIDE DEF d
  <2>4. PromptLength(raw, request, d) >= PromptLength(raw, request, b) - (b[s] - n)
    BY <1>1, <1>2, <2>2, <2>3 DEF Sections
  <2> QED BY <2>4 DEF d
<1> QED BY <1>3, <1>4

(***************************************************************************)
(* A reduction takes a character at least, and no more than is needed, from*)
(* the first section that has some to spare.                               *)
(***************************************************************************)
LEMMA ReductionsKeepTheOrder ==
    ASSUME NEW raw \in [Sections -> Nat], NEW request \in Nat, NEW b,
           CutBack(raw, request, b), ~Settled(raw, request, b)
    PROVE  /\ CutBack(raw, request, Reduce(raw, request, b))
           /\ Sum4(Reduce(raw, request, b)) < Sum4(b)
<1>1. b \in [Sections -> Nat] /\ Reducible(b) # {} /\ TotalBudget \in Nat
  BY BudgetAssumption DEF CutBack, Settled
<1>2. PICK m \in DOMAIN ReductionOrder :
          /\ FirstReducible(b) = ReductionOrder[m]
          /\ b[ReductionOrder[m]] > SectionFloor[ReductionOrder[m]]
          /\ \A i \in DOMAIN ReductionOrder :
                i < m => b[ReductionOrder[i]] <= SectionFloor[ReductionOrder[i]]
  BY <1>1, FirstIsReducible
<1> DEFINE f == ReductionOrder[m]
           over == PromptLength(raw, request, b) - TotalBudget
           n == IF SectionFloor[f] <= b[f] - over THEN b[f] - over ELSE SectionFloor[f]
           c == [b EXCEPT ![f] = n]
<1>3. f \in Sections /\ b[f] \in Nat /\ SectionFloor[f] \in Nat
  BY <1>1, BudgetAssumption
<1>4. over \in Nat /\ over > 0
  <2>1. PromptLength(raw, request, b) \in Nat
    BY <1>1, ClippedLengths
  <2>2. ~(PromptLength(raw, request, b) <= TotalBudget)
    BY DEF Settled, Fits
  <2> QED BY <1>1, <2>1, <2>2
<1>5. Reduce(raw, request, b) = c
  <2>1. b[f] - over \in Int
    BY <1>3, <1>4
  <2>2. Max({SectionFloor[f], b[f] - over}) = n
    <3> DEFINE x == SectionFloor[f]
               y == b[f] - over
    <3>1. x \in Int /\ y \in Int /\ n = IF x <= y THEN y ELSE x
      BY <1>3, <2>1
    <3> HIDE DEF x, y, n
    <3>2. Max({x, y}) = n
      BY <3>1, MinMaxOfTwo
    <3> QED BY <3>2 DEF x, y
  <2>3. Reduce(raw, request, b) = [b EXCEPT ![f] = Max({SectionFloor[f], b[f] - over})]
    BY <1>2 DEF Reduce, over
  <2> QED BY <2>2, <2>3
<1>6. n \in Nat /\ n < b[f] /\ n >= SectionFloor[f] /\ b[f] - n <= over
  <2> HIDE DEF over, f
  <2> QED BY <1>2, <1>3, <1>4 DEF f
<1>7. PromptLength(raw, request, c) >= TotalBudget
  <2>1. /\ PromptLength(raw, request, c) >= PromptLength(raw, request, b) - (b[f] - n)
        /\ PromptLength(raw, request, b) \in Nat
    <3> HIDE DEF n, f
    <3>1. n \in Nat /\ n <= b[f]
      BY <1>3, <1>6
    <3>2. PromptLength(raw, request, b) \in Nat
      BY <1>1, ClippedLengths
    <3>3. PromptLength(raw, request, [b EXCEPT ![f] = n])
              >= PromptLength(raw, request, b) - (b[f] - n)
      BY <1>1, <1>3, <3>1, ClippedLengths
    <3> QED BY <3>2, <3>3
  <2>2. c \in [Sections -> Nat]
    <3> HIDE DEF n, f
    <3> QED BY <1>1, <1>6
  <2>3. PromptLength(raw, request, c) \in Nat
    <3> HIDE DEF c
    <3> QED BY <2>2, ClippedLengths
  <2> DEFINE before == PromptLength(raw, request, b)
             now == PromptLength(raw, request, c)
  <2>4. before \in Nat /\ now \in Nat /\ now >= before - (b[f] - n) /\ b[f] - n <= before - TotalBudget
    BY <1>6, <2>1, <2>3
  <2> HIDE DEF before, now, n, f, c
  <2>5. now >= TotalBudget
    BY <1>1, <1>3, <1>6, <2>4
  <2> QED BY <2>5 DEF now
<1> HIDE DEF n, over
<1>8. c \in [Sections -> Nat] /\ c[f] = n /\ \A s \in Sections : s # f => c[s] = b[s]
  BY <1>1, <1>3, <1>6
<1> HIDE DEF c
<1>9. ASSUME NEW i \in DOMAIN ReductionOrder, NEW j \in DOMAIN ReductionOrder, i < j,
             c[ReductionOrder[j]] < SectionBudget[ReductionOrder[j]]
      PROVE  c[ReductionOrder[i]] <= SectionFloor[ReductionOrder[i]]
  <2>0. DOMAIN ReductionOrder = 1 .. Cardinality(Sections)
    BY BudgetAssumption
  <2>1. ReductionOrder[i] \in Sections /\ ReductionOrder[j] \in Sections
        /\ i \in Nat /\ j \in Nat /\ m \in Nat
    <3>1. i \in Nat /\ j \in Nat /\ m \in Nat
      BY <2>0
    <3> QED BY <3>1, BudgetAssumption
  <2>2. \A k \in DOMAIN ReductionOrder : ReductionOrder[k] = f => k = m
    BY <1>3, BudgetAssumption
  <2>3. CASE j = m
    <3>1. b[ReductionOrder[i]] <= SectionFloor[ReductionOrder[i]]
      BY <1>2, <1>9, <2>3
    <3>2. ReductionOrder[i] # f
      BY <1>9, <2>1, <2>2, <2>3
    <3> QED BY <1>8, <2>1, <3>1, <3>2
  <2>4. CASE j # m
    <3>1. c[ReductionOrder[j]] = b[ReductionOrder[j]]
      BY <1>8, <2>1, <2>2, <2>4
    <3>2. b[ReductionOrder[i]] <= SectionFloor[ReductionOrder[i]]
      BY <1>9, <3>1 DEF CutBack
    <3>3. ReductionOrder[i] # f
      <4> HIDE DEF f
      <4>1. b[f] \in Nat /\ SectionFloor[f] \in Nat /\ b[f] > SectionFloor[f]
        BY <1>2, <1>3 DEF f
      <4> QED BY <3>2, <4>1
    <3> QED BY <1>8, <2>1, <3>2, <3>3
  <2> QED BY <2>3, <2>4
<1>10. ASSUME NEW s \in Sections
       PROVE  /\ c[s] <= SectionBudget[s]
              /\ c[s] >= SectionFloor[s] \/ c[s] = SectionBudget[s]
  <2>1. b[s] \in Nat /\ c[s] \in Nat /\ SectionBudget[s] \in Nat /\ SectionFloor[s] \in Nat
    BY <1>1, <1>8, BudgetAssumption
  <2>2. /\ b[s] <= SectionBudget[s]
        /\ b[s] >= SectionFloor[s] \/ b[s] = SectionBudget[s]
    BY DEF CutBack
  <2>3. CASE s = f
    <3>1. c[s] = n /\ n < b[s] /\ n >= SectionFloor[s] /\ n \in Nat
      BY <1>6, <1>8, <2>3
    <3> QED BY <2>1, <2>2, <3>1
  <2>4. CASE s # f
    BY <1>8, <2>2, <2>4
  <2> QED BY <2>3, <2>4
<1>11. CutBack(raw, request, c)
  BY <1>7, <1>8, <1>9, <1>10 DEF CutBack
<1>12. Sum4(c) < Sum4(b)
  <2>1. \A s \in Sections : b[s] \in Nat /\ c[s] \in Nat /\ c[s] <= b[s]
    BY <1>1, <1>6, <1>8
  <2>2. c[f] < b[f] /\ f \in Sections
    BY <1>3, <1>6, <1>8
  <2> HIDE DEF f
  <2> QED BY <2>1, <2>2 DEF Sum4, Sections
<1> QED BY <1>5, <1>11, <1>12

(* What FinalBudget takes to be after so many rounds.                      *)
Descends(f, raw, request, N) ==
    f = [n \in 0 .. N |->
            IF n = 0 THEN {SectionBudget}
            ELSE {IF Settled(raw, request, b) THEN b
                  ELSE Reduce(raw, request, b) : b \in f[n - 1]}]

(***************************************************************************)
(* The recursion of FinalBudget has a solution: a least number of rounds   *)
(* without one would have one.                                             *)
(***************************************************************************)
LEMMA RoundsAreDefined ==
    ASSUME NEW raw, NEW request, NEW N \in Nat
    PROVE  \E f : Descends(f, raw, request, N)
<1> DEFINE next(B) == {IF Settled(raw, request, b) THEN b
                       ELSE Reduce(raw, request, b) : b \in B}
           Solves(f, k) == f = [n \in 0 .. k |-> IF n = 0 THEN {SectionBudget}
                                                 ELSE next(f[n - 1])]
           Unsolved == {k \in 0 .. N : ~ \E f : Descends(f, raw, request, k)}
<1>1. \A f, k : Descends(f, raw, request, k) <=> Solves(f, k)
  BY DEF Descends
<1> HIDE DEF next
<1>2. SUFFICES ASSUME Unsolved # {} PROVE FALSE
  <2>1. N \in 0 .. N
    OBVIOUS
  <2> QED BY <1>2, <2>1
<1>3. PICK k \in Unsolved : \A i \in Unsolved : k <= i
  <2>1. Unsolved \subseteq Nat
    OBVIOUS
  <2> HIDE DEF Unsolved
  <2> QED BY <1>2, <2>1, MinIsLeast
<1>4. k \in 0 .. N /\ k \in Nat /\ ~ \E f : Solves(f, k)
  BY <1>1
<1>5. CASE k = 0
  <2> DEFINE first == [n \in 0 .. 0 |-> {SectionBudget}]
  <2>1. Solves(first, 0)
    OBVIOUS
  <2> QED BY <1>4, <1>5, <2>1
<1>6. CASE k # 0
  <2>1. k - 1 \in 0 .. N /\ k - 1 \notin Unsolved
    <3> HIDE DEF Unsolved
    <3> QED BY <1>3, <1>4, <1>6
  <2>2. PICK f : Solves(f, k - 1)
    BY <1>1, <2>1
  <2> DEFINE g == [n \in 0 .. k |-> IF n = k THEN next(f[k - 1]) ELSE f[n]]
  <2>3. ASSUME NEW n \in 0 .. k
        PROVE  g[n] = IF n = 0 THEN {SectionBudget} ELSE next(g[n - 1])
    <3>1. CASE n = k
      <4>1. k - 1 \in 0 .. k /\ k - 1 # k
        BY <1>4, <1>6
      <4>2. g[k - 1] = f[k - 1]
        BY <4>1
      <4> QED BY <1>6, <3>1, <4>2
    <3>2. CASE n # k
      <4>1. n \in 0 .. k - 1
        BY <1>4, <3>2
      <4>2. f[n] = IF n = 0 THEN {SectionBudget} ELSE next(f[n - 1])
        BY <2>2, <4>1
      <4>3. g[n] = f[n]
        BY <3>2
      <4>4. n # 0 => n - 1 \in 0 .. k /\ n - 1 # k
        BY <1>4, <4>1
      <4>5. n # 0 => g[n - 1] = f[n - 1]
        BY <4>4
      <4> QED BY <4>2, <4>3, <4>5
    <3> QED BY <3>1, <3>2
  <2>4. Solves(g, k)
    BY <2>3
  <2> QED BY <1>4, <2>4
<1> QED BY <1>5, <1>6

(***************************************************************************)
(* The budget of a prompt fits or cannot be cut any more, and nothing was  *)
(* cut without need or out of order.                                       *)
(***************************************************************************)
LEMMA FinalBudgetIsTight ==
    ASSUME NEW raw \in [Sections -> Nat], NEW request \in Nat
    PROVE  /\ CutBack(raw, request, FinalBudget(raw, request))
           /\ Settled(raw, request, FinalBudget(raw, request))
<1> DEFINE next(b) == IF Settled(raw, request, b) THEN b ELSE Reduce(raw, request, b)
           after == CHOOSE f : f = [n \in 0 .. Rounds |->
                        IF n = 0 THEN {SectionBudget} ELSE {next(b) : b \in f[n - 1]}]
<1>1. FinalBudget(raw, request) = CHOOSE b \in after[Rounds] : TRUE
  BY DEF FinalBudget
<1>2. Rounds \in Nat
  <2>1. \A s \in Sections : SectionBudget[s] \in Nat
    BY BudgetAssumption
  <2> QED BY <2>1 DEF Rounds, Sum4, Sections
<1>3. after = [n \in 0 .. Rounds |->
                  IF n = 0 THEN {SectionBudget} ELSE {next(b) : b \in after[n - 1]}]
  <2>1. \E f : Descends(f, raw, request, Rounds)
    BY <1>2, RoundsAreDefined
  <2>2. after = CHOOSE f : Descends(f, raw, request, Rounds)
    BY DEF Descends
  <2> HIDE DEF after
  <2>3. Descends(after, raw, request, Rounds)
    BY <2>1, <2>2
  <2> QED BY <2>3 DEF Descends
<1> DEFINE Reached(n, b) == /\ CutBack(raw, request, b)
                            /\ Settled(raw, request, b) \/ Sum4(b) + n <= Rounds
           Wrong == {n \in 0 .. Rounds : ~ \E b : after[n] = {b} /\ Reached(n, b)}
<1> HIDE DEF after
<1>4. after[0] = {SectionBudget} /\ Reached(0, SectionBudget)
  <2>1. CutBack(raw, request, SectionBudget)
    <3>1. \A s \in Sections : SectionBudget[s] \in Nat
      BY BudgetAssumption
    <3>2. \A i \in DOMAIN ReductionOrder : ReductionOrder[i] \in Sections
      BY BudgetAssumption
    <3>3. SectionBudget \in [Sections -> Nat]
      BY BudgetAssumption
    <3>4. \A s \in Sections : SectionBudget[s] <= SectionBudget[s]
                              /\ ~(SectionBudget[s] < SectionBudget[s])
      BY <3>1
    <3> QED BY <3>2, <3>3, <3>4 DEF CutBack
  <2>2. Sum4(SectionBudget) + 0 <= Rounds
    BY <1>2 DEF Rounds
  <2>3. after[0] = {SectionBudget}
    BY <1>2, <1>3
  <2> QED BY <2>1, <2>2, <2>3
<1>5. ASSUME NEW n \in 0 .. Rounds, n # 0, NEW b,
             after[n - 1] = {b}, Reached(n - 1, b)
      PROVE  after[n] = {next(b)} /\ Reached(n, next(b))
  <2>1. after[n] = {next(x) : x \in after[n - 1]}
    BY <1>3, <1>5
  <2>2. after[n] = {next(b)}
    <3> HIDE DEF next
    <3> QED BY <1>5, <2>1
  <2>3. CASE Settled(raw, request, b)
    BY <1>5, <2>2, <2>3
  <2>4. CASE ~Settled(raw, request, b)
    <3>1. /\ CutBack(raw, request, Reduce(raw, request, b))
          /\ Sum4(Reduce(raw, request, b)) < Sum4(b)
      BY <1>5, <2>4, ReductionsKeepTheOrder
    <3>2. Sum4(Reduce(raw, request, b)) \in Int /\ Sum4(b) \in Int
      BY <1>5, <3>1 DEF CutBack, Sum4, Sections
    <3>3. Sum4(b) + (n - 1) <= Rounds
      BY <1>5, <2>4
    <3>4. Sum4(Reduce(raw, request, b)) + n <= Rounds
      BY <1>2, <3>1, <3>2, <3>3
    <3> QED BY <2>2, <2>4, <3>1, <3>4
  <2> QED BY <2>3, <2>4
<1>6. Wrong = {}
  <2>1. SUFFICES ASSUME Wrong # {} PROVE FALSE
    OBVIOUS
  <2>2. PICK n \in Wrong : \A i \in Wrong : n <= i
    <3>1. Wrong \subseteq Nat
      BY <1>2
    <3> HIDE DEF Wrong
    <3> QED BY <2>1, <3>1, MinIsLeast
  <2>3. n \in 0 .. Rounds /\ n # 0
    BY <1>4
  <2>4. n - 1 \in 0 .. Rounds /\ n - 1 \notin Wrong
    BY <1>2, <2>2, <2>3
  <2>5. PICK b : after[n - 1] = {b} /\ Reached(n - 1, b)
    BY <2>4
  <2>6. after[n] = {next(b)} /\ Reached(n, next(b))
    BY <1>5, <2>3, <2>5
  <2> HIDE DEF Reached, next
  <2> QED BY <2>6
<1>7. PICK b : after[Rounds] = {b} /\ Reached(Rounds, b)
  BY <1>2, <1>6
<1>8. FinalBudget(raw, request) = b
  BY <1>1, <1>7
<1>9. Settled(raw, request, b)
  <2>1. SUFFICES ASSUME Sum4(b) + Rounds <= Rounds
                 PROVE  Reducible(b) = {}
    BY <1>7 DEF Settled
  <2>2. b \in [Sections -> Nat]
    BY <1>7 DEF CutBack
  <2>3. \A s \in Sections : b[s] = 0
    <3>1. \A s \in Sections : b[s] \in Nat
      BY <2>2
    <3>2. /\ b["prefix"] \in Nat /\ b["memory"] \in Nat
          /\ b["relevant_memory"] \in Nat /\ b["history"] \in Nat
      BY <3>1 DEF Sections
    <3>3. Sum4(b) \in Nat /\ Sum4(b) <= 0
      BY <1>2, <2>1, <3>2 DEF Sum4
    <3>4. \A p, q, r, s \in Nat :
             p + q + r + s <= 0 => p = 0 /\ q = 0 /\ r = 0 /\ s = 0
      OBVIOUS
    <3>5. b["prefix"] + b["memory"] + b["relevant_memory"] + b["history"] <= 0
      BY <3>3 DEF Sum4
    <3>6. /\ b["prefix"] = 0 /\ b["memory"] = 0
          /\ b["relevant_memory"] = 0 /\ b["history"] = 0
      BY <3>2, <3>4, <3>5, ZenonT(30)
    <3> QED BY <3>6 DEF Sections
  <2>4. \A s \in Sections : ~(b[s] > SectionFloor[s])
    BY <2>3, BudgetAssumption
  <2> QED BY <2>4, BudgetAssumption DEF Reducible
<1> QED BY <1>7, <1>8, <1>9

(***************************************************************************)
(* A sequence has a finite number of elements.                             *)
(***************************************************************************)
LEMMA ElementsAreFinite ==
    ASSUME NEW S, NEW s \in Seq(S)
    PROVE  IsFiniteSet({s[i] : i \in DOMAIN s})
<1> DEFINE T == {s[i] : i \in DOMAIN s}
<1>1. Len(s) \in Nat
  OBVIOUS
<1>2. DOMAIN s = 1 .. Len(s) /\ s = [i \in DOMAIN s |-> s[i]]
  OBVIOUS
<1>3. IsFiniteSet(DOMAIN s)
  <2>1. IsFiniteSet(1 .. Len(s))
    BY <1>1, FS_Interval
  <2> QED BY <1>2, <2>1
<1>4. s \in Surjection(DOMAIN s, T)
  BY <1>2 DEF Surjection
<1> HIDE DEF T
<1>5. IsFiniteSet(T)
  BY <1>3, <1>4, FS_Surjection
<1> QED BY <1>5 DEF T

(***************************************************************************)
(* A prompt shows a finite number of files and notes of a memory.          *)
(***************************************************************************)
LEMMA ShownAndRelevantAreFinite ==
    ASSUME NEW m \in Memories, NEW words
    PROVE  Cardinality(Shown(m)) \in Nat /\ Cardinality(Relevant(m, words)) \in Nat
<1> DEFINE Notes == [words : SUBSET Words, index : Nat]
<1>1. m.recent \in Seq(Spellings) /\ m.notes \in Seq(Notes)
  BY DEF Memories
<1> HIDE DEF Notes
<1>2. IsFiniteSet({m.recent[i] : i \in DOMAIN m.recent})
  BY <1>1, ElementsAreFinite
<1>3. IsFiniteSet({m.notes[i] : i \in DOMAIN m.notes})
  BY <1>1, ElementsAreFinite
<1>4. Shown(m) \subseteq {m.recent[i] : i \in DOMAIN m.recent}
  BY DEF Shown
<1>5. Relevant(m, words) \subseteq {m.notes[i] : i \in DOMAIN m.notes}
  BY DEF Relevant
<1>6. IsFiniteSet(Shown(m)) /\ IsFiniteSet(Relevant(m, words))
  BY <1>2, <1>3, <1>4, <1>5, FS_Subset
<1> QED BY <1>6, FS_CardinalityType

(***************************************************************************)
(* No prompt is longer than it has to be, no section shorter: the budgets  *)
(* are cut in their order, down to their floors, and only as far as the    *)
(* total requires (ContextManager.build).                                  *)
(***************************************************************************)
THEOREM PromptsFit == Spec => []PromptsAreTight
<1>1. Init => PromptsAreTight
  BY DEF Init, PromptsAreTight
<1>2. RunInvariant /\ PromptsAreTight /\ [Next]_vars => PromptsAreTight'
  <2> SUFFICES ASSUME RunInvariant, PromptsAreTight, [Next]_vars
               PROVE  PromptsAreTight'
    OBVIOUS
  <2>1. CASE BuildPrompt
    <3> DEFINE raw == RawLengths
               request == Question.length
               b == FinalBudget(raw, request)
    <3>1. raw \in [Sections -> Nat]
      <4>1. Cardinality(Shown(memory)) \in Nat
            /\ Cardinality(Relevant(memory, Question.words)) \in Nat
        BY ShownAndRelevantAreFinite DEF RunInvariant, TypeOK
      <4>2. history \in Nat /\ PrefixLength \in Nat
        BY RunAssumption DEF RunInvariant, TypeOK
      <4> QED BY <4>1, <4>2 DEF RawLengths
    <3>2. request \in Nat
      <4>1. asked \in DOMAIN Questions
        <5>1. asked \in 1 .. Len(Questions)
          BY <2>1 DEF BuildPrompt, Goto, RunInvariant, TypeOK, Looping
        <5> QED BY <5>1, RunAssumption
      <4> QED BY <4>1, RunAssumption DEF Question
    <3>3. prompt'.budget = b /\ prompt'.length = PromptLength(raw, request, b)
      BY <2>1 DEF BuildPrompt
    <3> HIDE DEF raw, request, b
    <3>4. CutBack(raw, request, b) /\ Settled(raw, request, b)
      BY <3>1, <3>2, FinalBudgetIsTight DEF b
    <3>5. \/ PromptLength(raw, request, b) <= TotalBudget
          \/ \A s \in Sections : b[s] <= SectionFloor[s]
      <4>1. SUFFICES ASSUME Reducible(b) = {}, NEW s \in Sections
                     PROVE  b[s] <= SectionFloor[s]
        BY <3>4 DEF Settled, Fits
      <4>2. PICK i \in DOMAIN ReductionOrder : ReductionOrder[i] = s
        BY BudgetAssumption
      <4>3. ~(b[s] > SectionFloor[s])
        BY <4>1, <4>2 DEF Reducible
      <4>4. b[s] \in Nat /\ SectionFloor[s] \in Nat
        BY <3>4, BudgetAssumption DEF CutBack
      <4> QED BY <4>3, <4>4
    <3>6. ASSUME NEW s \in Sections
          PROVE  b[s] >= Min({SectionFloor[s], SectionBudget[s]})
      <4>1. b[s] \in Nat /\ SectionFloor[s] \in Nat /\ SectionBudget[s] \in Nat
        BY <3>4, BudgetAssumption DEF CutBack
      <4>2. b[s] >= SectionFloor[s] \/ b[s] = SectionBudget[s]
        BY <3>4 DEF CutBack
      <4>3. Min({SectionFloor[s], SectionBudget[s]})
                = IF SectionFloor[s] <= SectionBudget[s] THEN SectionFloor[s]
                  ELSE SectionBudget[s]
        BY <4>1, MinMaxOfTwo
      <4> QED BY <4>1, <4>2, <4>3
    <3> QED BY <3>3, <3>4, <3>5, <3>6 DEF PromptsAreTight, CutBack
  <2>2. CASE UNCHANGED prompt
    BY <2>2 DEF PromptsAreTight
  <2>3. CASE prompt' = NoPrompt
    BY <2>3 DEF PromptsAreTight, NoPrompt
  <2>4. BuildPrompt \/ UNCHANGED prompt \/ prompt' = NoPrompt
    <3>1. CASE Respond
      <4>1. PICK out \in Question.outputs : RespondWith(Parse(out))
        BY <3>1 DEF Respond
      <4> DEFINE r == Parse(out)
      <4> HIDE DEF r
      <4>2. RespondWith(r)
        BY <4>1 DEF r
      <4> QED BY <4>2 DEF RespondWith, Reject, Retry, Accept, Refuse, Call, OpenList, Finish
    <3>2. CASE RunStep /\ ~Respond
      <4>1. CASE ResolveHead \/ LoadTree \/ LoadDocs \/ StartLoop
        BY <4>1 DEF ResolveHead, LoadTree, LoadDocs, StartLoop, recordVars
      <4>2. CASE ReadPage \/ CloseList
        BY <4>2 DEF ReadPage, CloseList, Finish, recordVars
      <4>3. CASE GiveUp \/ AfterRaise
        BY <4>3 DEF GiveUp, AfterRaise
      <4>4. CASE Return \/ Raise
        BY <4>4 DEF Return, Raise, Forget
      <4> QED BY <3>2, <4>1, <4>2, <4>3, <4>4 DEF RunStep
    <3>4. CASE Ask
      BY <3>4 DEF Ask
    <3>3. CASE PlatformStep \/ UNCHANGED vars
      BY <3>3 DEF PlatformStep, ChangeList, vars, runVars, recordVars
    <3> QED BY <3>1, <3>2, <3>3, <3>4 DEF Next
  <2> QED BY <2>1, <2>2, <2>3, <2>4
<1> QED BY <1>1, <1>2, RunInvariantHolds, PTL DEF Spec
=============================================================================
