---------------------------- MODULE PromptBudget ----------------------------
(***************************************************************************)
(* ContextManager.build: how many characters of every section a prompt     *)
(* shows.  Only lengths matter here.                                       *)
(***************************************************************************)
EXTENDS Integers, Sequences, FiniteSets, FiniteSetsExt

CONSTANTS
    TotalBudget,     \* DEFAULT_TOTAL_BUDGET
    SectionBudget,   \* DEFAULT_SECTION_BUDGETS
    SectionFloor,    \* DEFAULT_SECTION_FLOORS
    ReductionOrder,  \* DEFAULT_REDUCTION_ORDER
    Joints           \* the characters between the sections

Sections == {"prefix", "memory", "relevant_memory", "history"}

ASSUME BudgetAssumption ==
    /\ TotalBudget \in Nat /\ Joints \in Nat
    /\ SectionBudget \in [Sections -> Nat]
    /\ SectionFloor \in [Sections -> Nat]
    /\ ReductionOrder \in [1 .. Cardinality(Sections) -> Sections]
    /\ \A s \in Sections : \E i \in DOMAIN ReductionOrder :
          \A j \in DOMAIN ReductionOrder : ReductionOrder[j] = s <=> j = i

Sum4(f) == f["prefix"] + f["memory"] + f["relevant_memory"] + f["history"]

(* Clipping never lengthens a text; the request itself is not clipped.     *)
Rendered(raw, budget) == [s \in Sections |-> Min({raw[s], budget[s]})]

PromptLength(raw, request, budget) ==
    Sum4(Rendered(raw, budget)) + request + Joints

Fits(raw, request, budget) == PromptLength(raw, request, budget) <= TotalBudget

Reducible(budget) ==
    {i \in DOMAIN ReductionOrder :
        budget[ReductionOrder[i]] > SectionFloor[ReductionOrder[i]]}

FirstReducible(budget) == ReductionOrder[Min(Reducible(budget))]

(* Mutant: the overflow is taken from the section down to nothing.         *)
ReduceBelowFloor(raw, request, budget) ==
    [budget EXCEPT ![FirstReducible(budget)] =
        Max({0, @ - (PromptLength(raw, request, budget) - TotalBudget)})]

(* One section gives up the overflow, or what it has above its floor.      *)
Reduce(raw, request, budget) ==
    [budget EXCEPT ![FirstReducible(budget)] =
        Max({SectionFloor[FirstReducible(budget)],
             @ - (PromptLength(raw, request, budget) - TotalBudget)})]

(* Every round takes at least one character from a budget.                 *)
Rounds == Sum4(SectionBudget)

Settled(raw, request, budget) ==
    Fits(raw, request, budget) \/ Reducible(budget) = {}

FinalBudget(raw, request) ==
    LET after[n \in 0 .. Rounds] ==
          IF n = 0 THEN {SectionBudget}
          ELSE {IF Settled(raw, request, b) THEN b
                ELSE Reduce(raw, request, b) : b \in after[n - 1]}
    IN  CHOOSE b \in after[Rounds] : TRUE
=============================================================================
