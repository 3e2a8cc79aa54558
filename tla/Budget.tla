------------------------------- MODULE Budget -------------------------------
(***************************************************************************)
(* The prompt time budget optimizer: which of the scored candidates go     *)
(* into a bundle of so many tokens.  Exact for modest sizes, greedy by     *)
(* value density beyond.  The retriever packs by itself (see Retrieval);   *)
(* nothing but the tests calls this one.                                   *)
(*                                                                         *)
(* A candidate is [id, value, tokens], the ids being numbers in the order  *)
(* of the strings; values are whole.                                       *)
(***************************************************************************)
EXTENDS Integers, Sequences, FiniteSets, FiniteSetsExt, SequencesExt

CONSTANTS
  ExactBudget,  \* the largest budget packed exactly
  ExactItems    \* the largest number of candidates packed exactly

Cost(x) == Max({1, x.tokens})

NoPlan == [chosen |-> <<>>, value |-> 0, tokens |-> 0]
With(plan, x) == [chosen |-> Append(plan.chosen, x.id), value |-> plan.value + x.value,
                  tokens |-> plan.tokens + Cost(x)]

\* _knapsack: per capacity the best plan so far.  The capacities are gone through
\* downwards, so a candidate is put on top of plans made without it.
Knapsack(cands, budget) ==
  LET Better(best, x) ==
        [w \in 0 .. budget |->
           IF Cost(x) <= w /\ best[w - Cost(x)].value + x.value > best[w].value
           THEN With(best[w - Cost(x)], x) ELSE best[w]]
  IN  FoldLeft(Better, [w \in 0 .. budget |-> NoPlan], cands)[budget]

\* _greedy: by value per token, then by id, whatever still fits.
Greedy(cands, budget) ==
  LET Denser(x, y) == \/ x.value * Cost(y) > y.value * Cost(x)
                      \/ x.value * Cost(y) = y.value * Cost(x) /\ x.id < y.id
  IN  FoldLeft(LAMBDA plan, x : IF plan.tokens + Cost(x) <= budget THEN With(plan, x) ELSE plan,
               NoPlan, SortSeq(cands, Denser))

Optimize(cands, budget) ==
  LET real == SelectSeq(cands, LAMBDA x : x.tokens >= 0)
  IN  IF budget <= 0 \/ real = <<>> THEN NoPlan
      ELSE IF budget <= ExactBudget /\ Len(real) <= ExactItems THEN Knapsack(real, budget)
      ELSE Greedy(real, budget)

-----------------------------------------------------------------------------
\* The most a budget can hold, by looking at every choice of candidates.
BestValue(cands, budget) ==
  LET Sum(f(_), I) == MapThenSumSet(LAMBDA i : f(cands[i]), I)
  IN  Max({Sum(LAMBDA x : x.value, I) :
             I \in {J \in SUBSET DOMAIN cands : Sum(Cost, J) <= budget}})

\* A plan keeps to the budget and tells its value and its tokens truly; each candidate
\* is in it at most once.
IsPlan(plan, cands, budget) ==
  /\ plan.tokens <= budget
  /\ Cardinality(ToSet(plan.chosen)) = Len(plan.chosen)
  /\ LET I == {i \in DOMAIN cands : cands[i].id \in ToSet(plan.chosen)}
     IN  /\ Cardinality(I) = Len(plan.chosen)
         /\ plan.value = MapThenSumSet(LAMBDA i : cands[i].value, I)
         /\ plan.tokens = MapThenSumSet(LAMBDA i : Cost(cands[i]), I)

=============================================================================
