---------------------------- MODULE AgentMemory ----------------------------
(***************************************************************************)
(* The memory of a session of the repository agent as a value: what it     *)
(* knows of files, the files it read last, and notes of its answers.       *)
(***************************************************************************)
EXTENDS Positions, SequencesExt

CONSTANTS
    Spellings,      \* the strings that tool calls give for a path
    RecentLimit,    \* WORKING_FILE_LIMIT
    NoteLimit,      \* EPISODIC_NOTE_LIMIT
    ShownLimit,     \* FILE_SUMMARY_LIMIT
    RelevantLimit,  \* limit of select_relevant_memory
    Nothing

ASSUME MemoryAssumption ==
    /\ RecentLimit \in Nat \ {0} /\ NoteLimit \in Nat \ {0}
    /\ ShownLimit \in Nat \ {0} /\ RelevantLimit \in Nat \ {0}

(* files: what is remembered of a path and the version it is filed under.  *)
EmptyMemory ==
    [task |-> Nothing, recent |-> <<>>, notes |-> <<>>, next |-> 0,
     files |-> [p \in Spellings |-> Nothing]]

LastOf(s, n) == SubSeq(s, IF Len(s) > n THEN Len(s) - n + 1 ELSE 1, Len(s))

Distinct(s) == Pick(s, {i \in DOMAIN s : \A j \in 1 .. i - 1 : s[j] # s[i]})

Without(s, path) == Pick(s, {i \in DOMAIN s : s[i] # path})

(* The next number is beyond every number in use.                          *)
NextIndex(notes, next) ==
    Max({next} \cup {notes[i].index + 1 : i \in DOMAIN notes})

(* Everything that is stored goes through here: bounded lists, no path     *)
(* twice, no file without text.                                            *)
Normalize(m) ==
    LET kept == LastOf(m.notes, NoteLimit) IN
    [m EXCEPT !.recent = LastOf(Distinct(@), RecentLimit),
              !.notes = kept,
              !.next = NextIndex(kept, @)]

(* Mutant: nothing is dropped when the branch has moved.                   *)
InvalidateNothing(m, versions) == Normalize(m)

(* What is remembered of a path goes if the path is gone or has another    *)
(* version; a path without a version in the tree keeps it.                 *)
InvalidateStale(m, versions) ==
    [Normalize(m) EXCEPT !.files =
        [p \in Spellings |->
            IF /\ p \in DOMAIN versions
               /\ @[p] # Nothing
               /\ versions[p] \in {Nothing, @[p].version}
            THEN @[p] ELSE Nothing]]

Invalidated(m, versions) ==
    {p \in Spellings : m.files[p] # InvalidateStale(m, versions).files[p]}

(* _update_memory_from_tool: the path moves to the end of the recent files *)
(* and its text is replaced; an empty text is no summary.                  *)
RememberFile(m, path, text, version) ==
    Normalize(
      [m EXCEPT
        !.recent = Append(Without(@, path), path),
        !.files[path] = IF text = Nothing THEN Nothing
                        ELSE [says |-> text, version |-> version]])

(* _update_memory_from_final.                                              *)
RememberAnswer(m, task, words) ==
    Normalize([m EXCEPT !.task = task,
                 !.notes = Append(@, [words |-> words, index |-> m.next]),
                 !.next = @ + 1])

(* render_memory_text shows the files at the front of the recent ones.     *)
Shown(m) ==
    {p \in Spellings :
        /\ m.files[p] # Nothing
        /\ \E i \in DOMAIN m.recent : i <= ShownLimit /\ m.recent[i] = p}

(* select_relevant_memory: the notes that share most words with the        *)
(* question, the later of equals.                                          *)
Relevant(m, words) ==
    LET Notes == {m.notes[i] : i \in DOMAIN m.notes}
        Overlap(n) == Cardinality(n.words \cap words)
        Better(n, o) == \/ Overlap(n) > Overlap(o)
                        \/ Overlap(n) = Overlap(o) /\ n.index > o.index
    IN  {n \in Notes : /\ Overlap(n) > 0
                       /\ Cardinality({o \in Notes : Better(o, n)})
                            < RelevantLimit}
=============================================================================
