--------------------------- MODULE AgentProtocol ---------------------------
(***************************************************************************)
(* parse_agent_response: what an output of the model is taken for.  An     *)
(* output is the sequence of its top-level actions, a tool call or a final *)
(* answer each; text outside of them makes it the empty sequence.          *)
(***************************************************************************)
EXTENDS Integers, Sequences, SequencesExt

RetryNotice == [tag |-> "retry"]

Tagged(out, tag) == {i \in DOMAIN out : out[i].tag = tag}

Same(actions) == \A a, b \in actions : a = b

(* An answer may hold a call between its first and its last tag, but not   *)
(* the end of one answer and the beginning of the next.                    *)
OneAnswer(out) ==
    \A i \in 1 .. Len(out) - 1 : ~(out[i].tag = "final" /\ out[i + 1].tag = "final")

(* A single action is taken as it is.  Calls that are all the same count   *)
(* as one if a single answer stands before or behind them.                 *)
Parse(out) ==
    LET tools  == Tagged(out, "tool")
        wanted == {out[i] : i \in tools}
        sameEnds == Head(out).tag = Last(out).tag
    IN  IF \/ Len(out) = 1
           \/ /\ Len(out) > 1 /\ sameEnds
              /\ Head(out).tag = "final" /\ OneAnswer(out)
        THEN Head(out)
        ELSE IF /\ Len(out) > 1 /\ ~sameEnds
                /\ Cardinality(Tagged(out, "final")) = 1
                /\ Cardinality(tools) > 1 /\ Same(wanted)
        THEN CHOOSE c \in wanted : TRUE
        ELSE RetryNotice
=============================================================================
