-------------------------- MODULE RepositoryAccess --------------------------
(***************************************************************************)
(* The hosting platform (GitHub or GitLab) as the repository agent sees it *)
(* and the providers that read it.  A commit never changes; the head of a  *)
(* branch moves, and the lists that hang on a change request (commits,     *)
(* comments, files) grow and shrink while they are read page by page.      *)
(***************************************************************************)
EXTENDS Positions, SequencesExt

CONSTANTS
    Commits,      \* the commits the branch may point to
    Paths,        \* the paths of files
    Directories,  \* the paths of directories
    Above,        \* Above[p]: the directories a path lies in
    Blobs,        \* the contents of files
    Version,      \* Version[c][p]: the blob at a path, Absent if there is none
    Binary,       \* the blobs that are no UTF-8 text
    PerPage,      \* per_page of the paginated endpoints
    MaxItems,     \* bound: the items a change request has had
    Root, Absent, Unlocked

ASSUME RepositoryAssumption ==
    /\ Paths \cap (Directories \cup {Root, Absent}) = {}
    /\ Above \in [Paths \cup Directories -> SUBSET Directories]
    /\ \A c \in Commits : DOMAIN Version[c] = Paths
    /\ \A c \in Commits, p \in Paths : Version[c][p] \in Blobs \cup {Absent}
    /\ Absent \notin Blobs
    /\ PerPage \in Nat \ {0} /\ MaxItems \in Nat
    /\ Unlocked \notin Commits

VARIABLES
    platform, \* "github" or "gitlab"
    head,     \* the commit the branch points to
    change,   \* the items of a change request, in the order they are listed
    added     \* how many items there have ever been

platformVars == <<platform, head, change, added>>

-----------------------------------------------------------------------------
(* What the providers return of one commit.                                *)

(* Every read takes ref or, without one, the branch.                       *)
At(ref) == IF ref = Unlocked THEN head ELSE ref

FilesAt(c) == {p \in Paths : Version[c][p] # Absent}

MatchesScope(path, scope) ==
    scope = Root \/ path = scope \/ scope \in Above[path]

FolderEntries(c) ==
    {[path |-> d, type |-> "tree"] : d \in UNION {Above[p] : p \in FilesAt(c)}}

FileEntries(c) == {[path |-> p, type |-> "blob"] : p \in FilesAt(c)}

Scoped(entries, scope) == {e \in entries : MatchesScope(e.path, scope)}

GitLabTree(ref, scope) ==
    Scoped(FileEntries(At(ref)) \cup FolderEntries(At(ref)), scope)

(* A truncated tree is replaced by a walk over the folders, which lists    *)
(* the files below the scope and no folder.                                *)
WalkContents(ref, scope) == Scoped(FileEntries(At(ref)), scope)

GitHubTrees(ref, scope) == {WalkContents(ref, scope), GitLabTree(ref, scope)}

ListTree(ref, scope) ==
    IF platform = "github" THEN GitHubTrees(ref, scope)
    ELSE {GitLabTree(ref, scope)}

IsFile(ref, path) == path \in FilesAt(At(ref))

Decodes(ref, path) == Version[At(ref)][path] \notin Binary

(* read_file raises for a path that is no file and for bytes that are no   *)
(* text; there is nothing else it may refuse.                              *)
CanRead(ref, path) == IsFile(ref, path) /\ Decodes(ref, path)

(* The lines from start to end that a text of total lines has; the first   *)
(* line is 1 whatever is asked for.                                        *)
LineWindow(total, start, end) ==
    LET first == IF start < 1 THEN 1 ELSE start
        last  == IF end < first THEN first ELSE end
    IN  {n \in 1 .. total : first <= n /\ n <= last}

(* The search reads every blob of the scope and skips what is no text.     *)
SearchCode(ref, scope, hits) ==
    {p \in FilesAt(At(ref)) :
        MatchesScope(p, scope) /\ Decodes(ref, p) /\ Version[At(ref)][p] \in hits}

-----------------------------------------------------------------------------
(* The lists of a change request.                                          *)

PageItems(n) ==
    SubSeq(change, (n - 1) * PerPage + 1, Min({n * PerPage, Len(change)}))

(* Mutant: a full page is taken for the last one.                          *)
IsLastPageAnyway(items) == Len(items) <= PerPage

(* An empty or a short page ends the list.                                 *)
IsLastPage(items) == Len(items) < PerPage

(* Comments on GitHub become threads in the order of their first notes: a  *)
(* reply names the comment that opened its thread.  Every other item is an *)
(* entry of its own.                                                       *)
ThreadOf(item) == IF item.answers = 0 THEN item.id ELSE item.answers

GitHubEntries(tool, items) ==
    IF tool # "list_comment_threads" THEN [i \in DOMAIN items |-> {items[i].id}]
    ELSE LET InThread(i) ==
               {j \in DOMAIN items : ThreadOf(items[j]) = ThreadOf(items[i])}
             firsts == Ascending({i \in DOMAIN items : i = Min(InThread(i))})
         IN  [t \in DOMAIN firsts |-> {items[j].id : j \in InThread(firsts[t])}]

(* A discussion on GitLab brings its notes along.                          *)
GitLabEntries(items) == [i \in DOMAIN items |-> {items[i].id}]

Entries(tool, items) ==
    IF platform = "github" THEN GitHubEntries(tool, items)
    ELSE GitLabEntries(items)

(* GitHub's commits are listed by the first line of their message, which   *)
(* an empty message does not have.                                         *)
ListsCommits(items) ==
    platform = "github" => \A i \in DOMAIN items : items[i].lines > 0

-----------------------------------------------------------------------------
(* What the users of the platform do meanwhile.                            *)

Push(c) == c # head /\ head' = c /\ UNCHANGED <<platform, change, added>>

(* Comments are appended; a list that shows the newest first grows at the  *)
(* front.                                                                  *)
AddItem(answers, lines, atFront) ==
    LET item == [id |-> added + 1, answers |-> answers, lines |-> lines] IN
    /\ added < MaxItems
    /\ answers \in {0} \cup {change[i].id : i \in DOMAIN change}
    /\ added' = added + 1
    /\ change' = IF atFront THEN <<item>> \o change ELSE Append(change, item)
    /\ UNCHANGED <<platform, head>>

RemoveItem(i) ==
    /\ i \in DOMAIN change
    /\ change' = RemoveAt(change, i)
    /\ UNCHANGED <<platform, head, added>>
=============================================================================
