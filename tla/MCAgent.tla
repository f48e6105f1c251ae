------------------------------- MODULE MCAgent -------------------------------
(* Small instances of AgentConversation for TLC.                           *)
EXTENDS AgentConversation, TLC

CONSTANTS q1, q2, q3, s1, p1, p2

(* q1, q2 and q3 ask in one session, s1 streams it.                        *)
OneProcess   == [r \in Questions \cup Streams |-> p1]
TwoProcesses == [r \in Questions \cup Streams |-> IF r = q2 THEN p2 ELSE p1]

(* One process, no order among the questions: any two may be exchanged.   *)
AnyOrder == Permutations(Questions)
==============================================================================
