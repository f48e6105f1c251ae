----------------------------- MODULE MCAgentRun -----------------------------
(* Instances of AgentRun for TLC: a branch of two commits, a file that     *)
(* changes and one that does not, a change request read two items at a     *)
(* time.                                                                   *)
EXTENDS AgentRun

CONSTANTS c1, c2, readme, main, dotMain, outside, src, v1, v2, v3, needle

NoFolders == [p \in Paths \cup Directories |-> {}]

MainInSource == [NoFolders EXCEPT ![main] = {src}]

(* main changes, the readme is new in the second commit.                   *)
TwoVersions ==
    c1 :> (main :> v1 @@ readme :> Absent) @@
    c2 :> (main :> v2 @@ readme :> v3)

SpelledTwice ==
    main :> main @@ readme :> readme @@ dotMain :> main @@ outside :> Refused @@
    src :> src @@ Root :> Root

TwoLines == v1 :> 2 @@ v2 :> 2 @@ v3 :> 1

Budget == [s \in Sections |-> IF s = "prefix" THEN 4
                              ELSE IF s = "history" THEN 5 ELSE 2]

Floor == [s \in Sections |-> 1]

CutOrder == <<"relevant_memory", "history", "memory", "prefix">>

Read(p, start, end) ==
    [tool |-> "read_file", path |-> p, start |-> start, end |-> end]

List(tool) == [tool |-> tool, id |-> 1]

Tool(c) == [tag |-> "tool", call |-> c]

Final(kind, words) == [tag |-> "final", kind |-> kind, words |-> words]

Twice == <<Tool(Read(main, 1, 2)), Tool(Read(main, 1, 2))>>

FirstOutputs ==
    {<<>>, <<Final("plain", {"w"})>>} \cup
    {<<Tool(c)>> : c \in
        {Read(main, 1, 2), List("list_commits"), List("list_comment_threads"),
         [tool |-> "read_project_doc", path |-> readme]}}

LaterOutputs ==
    {Twice, Twice \o <<Final("plain", {"w"})>>,
     <<Final("plain", {"w"}), Tool(Read(main, 1, 2)), Final("plain", {"w"})>>,
     <<Final("names_file", {})>>} \cup
    {<<Tool(c)>> : c \in
        {Read(dotMain, 1, 2), Read(main, 9, 9), Read(main, 1, 3),
         Read(readme, 1, 1), Read(outside, 1, 1),
         [tool |-> "search_code", path |-> Root, query |-> needle],
         [tool |-> "list_files", path |-> src],
         [tool |-> "run_tests", path |-> Root]}}

NeedleInMain == needle :> {v1, v3}

Item(n, answers, lines) == [id |-> n, answers |-> answers, lines |-> lines]

SomeLists == {<<Item(1, 0, 1), Item(2, 1, 1)>>, <<Item(1, 0, 0)>>}

TwoQuestions ==
    <<[kind |-> "follow_up", words |-> {"w"}, length |-> 1,
       outputs |-> FirstOutputs],
      [kind |-> "entrypoint", words |-> {"w"}, length |-> 6,
       outputs |-> LaterOutputs]>>
=============================================================================
