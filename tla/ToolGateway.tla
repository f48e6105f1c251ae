---------------------------- MODULE ToolGateway ----------------------------
(***************************************************************************)
(* What stands between the model's tool calls and the providers: a call is *)
(* brought to a canonical form or refused, a form is carried out once, and *)
(* what comes back is cut to size.                                         *)
(***************************************************************************)
EXTENDS RepositoryAccess, AgentMemory

CONSTANTS
    CanonicalPath,  \* the path a string denotes, Refused outside the scope
    Lines,          \* Lines[v]: how many lines a blob has
    MaxReadLines,   \* MAX_READ_FILE_LINES
    MaxEntries,     \* MAX_LIST_FILES_ENTRIES, MAX_SEARCH_CODE_MATCHES
    MaxResult,      \* MAX_RESULT_CHARS, in entries of a list
    Preview,        \* how many entries the summary of a longer list shows
    Matches,        \* Matches[q]: the blobs that contain a text
    Refused, Error

ASSUME GatewayAssumption ==
    /\ CanonicalPath \in
          [Spellings -> Paths \cup Directories \cup {Root, Refused}]
    /\ Paths \subseteq Spellings
    /\ \A p \in Paths : CanonicalPath[p] = p
    /\ {Nothing, Error} \cap Blobs = {}
    /\ MaxResult \in Nat /\ Preview \in Nat
    /\ Refused \notin Paths \cup Directories \cup {Root}

ChangeTools == {"get_change_summary", "list_commits",
                "list_comment_threads", "get_diff_overview"}

(* The tools whose answer the provider collects page by page.              *)
PagedTools ==
    IF platform = "github" THEN ChangeTools \ {"get_change_summary"}
    ELSE {"list_commits", "list_comment_threads"}

ToolSpecs == ChangeTools \cup
             {"list_files", "read_file", "search_code", "read_project_doc"}

WindowIsValid(c) ==
    1 <= c.start /\ c.start <= c.end /\ c.end - c.start + 1 <= MaxReadLines

(* docs: the project documents of the snapshot, by name.                   *)
IsValid(c, docs) ==
    \/ c.tool = "list_files" /\ CanonicalPath[c.path] # Refused
    \/ /\ c.tool = "read_file"
       /\ CanonicalPath[c.path] \notin {Refused, Root}
       /\ WindowIsValid(c)
    \/ /\ c.tool = "search_code" /\ c.query # Nothing
       /\ CanonicalPath[c.path] # Refused
    \/ c.tool = "read_project_doc" /\ c.path \in DOMAIN docs
    \/ c.tool \in ChangeTools /\ c.id # Nothing

(* Two calls with one canonical form are one call.                         *)
Canonical(c) ==
    IF c.tool \in {"list_files", "read_file", "search_code"}
    THEN [c EXCEPT !.path = CanonicalPath[@]] ELSE c

(* calls: the forms that were carried out in this run.                     *)
IsRepeated(c, calls) == \E i \in DOMAIN calls : calls[i] = Canonical(c)

(* A refused call is answered with an error text and leaves no trace.      *)
IsRefused(c, docs, calls) ==
    \/ c.tool \notin ToolSpecs
    \/ ~IsValid(c, docs)
    \/ IsRepeated(c, calls)

(* Nothing catches what a provider raises.                                 *)
Raises(c, ref) ==
    c.tool = "read_file" /\ ~CanRead(ref, CanonicalPath[c.path])

(* The text of a file is told by its blob; a window past its end is empty. *)
ReadText(c, ref) ==
    LET blob == Version[At(ref)][CanonicalPath[c.path]]
    IN  IF LineWindow(Lines[blob], c.start, c.end) = {} THEN Nothing ELSE blob

(* Longer lists are cut, which the model is not told.                      *)
Cut(S) == {T \in SUBSET S :
              Cardinality(T) = Min({Cardinality(S), MaxEntries})}

(* The paths a listing or a search may name.                               *)
Named(c, ref) ==
    IF c.tool = "list_files"
    THEN UNION {Cut({e.path : e \in entries}) :
                   entries \in ListTree(ref, CanonicalPath[c.path])}
    ELSE IF c.tool = "search_code"
    THEN Cut(SearchCode(ref, CanonicalPath[c.path], Matches[c.query]))
    ELSE {{}}

(* Of a list that is too long its length and its first entries are told.   *)
JsonResult(entries) ==
    [count |-> Len(entries),
     shown |-> IF Len(entries) <= MaxResult THEN entries
               ELSE SubSeq(entries, 1, Min({Preview, Len(entries)}))]
=============================================================================
