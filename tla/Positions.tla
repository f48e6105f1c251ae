----------------------------- MODULE Positions -----------------------------
(***************************************************************************)
(* The elements of a sequence at some of its positions, in their order.    *)
(* SelectSeq tells the same of a condition on the elements; sets of        *)
(* positions may depend on the neighbours too.                             *)
(***************************************************************************)
EXTENDS Integers, Sequences, FiniteSets

(* How many of the positions lie up to i.                                  *)
Rank(I, i) == Cardinality({j \in I : j <= i})

Ascending(I) == [n \in 1 .. Cardinality(I) |-> CHOOSE i \in I : Rank(I, i) = n]

Pick(s, I) ==
    LET positions == Ascending(I) IN [n \in DOMAIN positions |-> s[positions[n]]]
=============================================================================
