------------------------- MODULE SerialConversation -------------------------
(***************************************************************************)
(* What a session of the repository agent promises to its user: one turn   *)
(* after the other, each a question, perhaps its answer, and a memory that *)
(* only grows by the turns that were answered.                             *)
(***************************************************************************)
EXTENDS Sequences

CONSTANTS Questions

VARIABLES
    log,     \* the messages in the order of their numbers
    memory,  \* the turns that the session remembers
    turn     \* the turn that is open, if any

vars == <<log, memory, turn>>

Init == log = <<>> /\ memory = {} /\ turn = {}

Ask(q) ==
    /\ turn = {}
    /\ turn' = {q}
    /\ log' = Append(log, <<"user", q>>)
    /\ UNCHANGED memory

Answer(q) ==
    /\ turn = {q}
    /\ turn' = {}
    /\ log' = Append(log, <<"assistant", q>>)
    /\ memory' = memory \cup {q}

BreakOff(q) ==
    /\ turn = {q}
    /\ turn' = {}
    /\ UNCHANGED <<log, memory>>

Next == \E q \in Questions : Ask(q) \/ Answer(q) \/ BreakOff(q)

Spec == Init /\ [][Next]_vars
=============================================================================
