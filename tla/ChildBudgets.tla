---------------------------- MODULE ChildBudgets ----------------------------
(* createChildRun: what the subagents of a family are given of the budget of  *)
(* their parent while the parent uses it up.  One dimension of the budget     *)
(* stands for turns, tokens, cost and tool calls; limits of time are not      *)
(* shared out and left out.                                                   *)
EXTENDS Naturals, Sequences, FiniteSets, Functions

CONSTANTS RootBudget, MaxDepth,
          MaxFamily  \* bound on the runs of a family

ASSUME BudgetAssumption ==
  RootBudget \in Nat /\ MaxDepth \in Nat /\ MaxFamily \in Nat \ {0}

VARIABLES
  family,  \* rows of runs in the order of their admission, the root first
  usage,   \* what each has used of its budget, or Unreported
  ended    \* those with a terminal status

budgetVars == <<family, usage, ended>>

Unreported == RootBudget + 2
Family == DOMAIN family

BudgetInit ==
  /\ family = <<[parent |-> 0, depth |-> 0, budget |-> RootBudget]>>
  /\ usage = <<Unreported>> /\ ended = {}

budgetOf == [n \in Family |-> family[n].budget]
Children(parent) == {n \in Family : family[n].parent = parent}
Allocated(parent) == SumFunctionOnSet(budgetOf, Children(parent))

\* Mutant: what a subagent that ended was given is free again.
RemainingOfOpen(parent) ==
  LET gone == usage[parent] + SumFunctionOnSet(budgetOf, Children(parent) \ ended)
  IN IF usage[parent] = Unreported \/ gone >= family[parent].budget THEN 0
     ELSE family[parent].budget - gone

\* remainingChildBudget: nothing while the provider has not reported usage.
Remaining(parent) ==
  LET gone == usage[parent] + Allocated(parent)
  IN IF usage[parent] = Unreported \/ gone >= family[parent].budget THEN 0
     ELSE family[parent].budget - gone

\* boundedChildBudget: what the spawn may ask for, or is given by default.
Grantable(parent) == 1 .. Remaining(parent)

CreateChild(parent) ==
  /\ Len(family) < MaxFamily
  /\ parent \notin ended /\ family[parent].depth < MaxDepth
  /\ \E budget \in Grantable(parent) :
       family' = Append(family, [parent |-> parent, depth |-> family[parent].depth + 1, budget |-> budget])
  /\ usage' = Append(usage, Unreported)
  /\ UNCHANGED ended

\* usage.updated; #enforceBudget aborts a run that is over its budget: its turn ends.
Spend(n) ==
  /\ n \notin ended /\ usage[n] \in {Unreported} \union 0 .. family[n].budget
  /\ usage' = [usage EXCEPT ![n] = IF @ = Unreported THEN 0 ELSE @ + 1]
  /\ UNCHANGED <<family, ended>>

EndOf(n) ==
  /\ n \notin ended /\ ended' = ended \union {n}
  /\ UNCHANGED <<family, usage>>

BudgetNext == \E n \in Family : CreateChild(n) \/ Spend(n) \/ EndOf(n)

BudgetSpec == BudgetInit /\ [][BudgetNext]_budgetVars

-----------------------------------------------------------------------------
(* Properties *)

\* Types of the family.
BudgetTypeOK ==
  /\ Len(family) \in 1 .. MaxFamily /\ Len(usage) = Len(family) /\ ended \subseteq Family
  /\ \A n \in Family :
       /\ family[n].parent \in 0 .. n - 1 /\ family[n].depth \in 0 .. MaxDepth
       /\ usage[n] \in 0 .. Unreported

Level(d) == {n \in Family : family[n].depth = d}

\* Subagents of one depth were never given more than the root, those that ended
\* included: in whatever order runs spawn, report usage, end and spawn again.
\* A run goes on spending what it has shared out, so that a family may use the
\* budget of the root once per level.
LevelsStayInBudget == \A d \in 0 .. MaxDepth : SumFunctionOnSet(budgetOf, Level(d)) <= RootBudget
=============================================================================
