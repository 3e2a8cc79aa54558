----------------------------- MODULE Statistics -----------------------------
(***************************************************************************)
(* What is reported of a backtest: the paired deltas and their win rate,   *)
(* the signed ranks behind the significance test, the means, and the       *)
(* agreement of two raters.                                                *)
(*                                                                         *)
(* Means are kept as [sum, of], ranks doubled, so that numbers stay whole. *)
(* The bootstrap's generator and the normal distribution are left out, and *)
(* so is the rounding to four places.                                      *)
(***************************************************************************)
EXTENDS Judging

\* outcome_delta and total_delta of a task's pair of results.
OutcomeDelta(pair) == OutcomeScore(pair[2].scores) - OutcomeScore(pair[1].scores)
TotalDelta(pair)   == Total(pair[2].scores) - Total(pair[1].scores)

Deltas(report) == [k \in DOMAIN report |-> OutcomeDelta(report[k])]

\* win_rate, win_rate_ci: the share of the tasks where memory helped.
Wins(deltas) == Len(SelectSeq(deltas, LAMBDA d : d > 0))

Abs(d) == IF d < 0 THEN -d ELSE d

\* wilcoxon_signed_rank and its normal approximation up to the statistic: ranks by
\* size, those of equal size averaged.
SignedRanks(deltas) ==
  LET nonzero == SelectSeq(deltas, LAMBDA d : d # 0)
      sorted == SortSeq(nonzero, LAMBDA x, y : Abs(x) < Abs(y))
      Tied(k) == {i \in DOMAIN sorted : Abs(sorted[i]) = Abs(sorted[k])}
      Rank2(k) == Min(Tied(k)) + Max(Tied(k))
      Sum(I) == MapThenSumSet(Rank2, I)
  IN  [plus2  |-> Sum({k \in DOMAIN sorted : sorted[k] > 0}),
       minus2 |-> Sum({k \in DOMAIN sorted : sorted[k] < 0}),
       n      |-> Len(sorted)]

Statistic2(deltas) == Min({SignedRanks(deltas).plus2, SignedRanks(deltas).minus2})

\* summarize, without the intervals and the p value.
Summary(report) ==
  LET Mean(f(_)) == [sum |-> FoldLeft(LAMBDA n, pair : n + f(pair), 0, report),
                     of |-> Len(report)]
      Succeeded(r) == IF Success(r.scores) THEN 1 ELSE 0
  IN  [n_tasks              |-> Len(report),
       mean_outcome_with    |-> Mean(LAMBDA pair : OutcomeScore(pair[2].scores)),
       mean_outcome_without |-> Mean(LAMBDA pair : OutcomeScore(pair[1].scores)),
       mean_total_with      |-> Mean(LAMBDA pair : Total(pair[2].scores)),
       mean_total_without   |-> Mean(LAMBDA pair : Total(pair[1].scores)),
       mean_delta           |-> Mean(OutcomeDelta),
       win_rate             |-> [sum |-> Wins(Deltas(report)), of |-> Len(report)],
       success_with         |-> Mean(LAMBDA pair : Succeeded(pair[2])),
       success_without      |-> Mean(LAMBDA pair : Succeeded(pair[1]))]

\* _kappa_direct, as a fraction: agreement beyond chance, over what chance leaves.
Kappa(a, b) ==
  LET n == Len(a)
      Times(s, x) == Len(SelectSeq(s, LAMBDA y : y = x))
      agree == Cardinality({i \in 1 .. n : a[i] = b[i]})
      chance == MapThenSumSet(LAMBDA x : Times(a, x) * Times(b, x), ToSet(a) \cup ToSet(b))
  IN  IF Len(b) # n \/ n = 0 THEN [num |-> 0, den |-> 1]
      ELSE IF chance = n * n THEN [num |-> 1, den |-> 1]
      ELSE [num |-> n * agree - chance, den |-> n * n - chance]

-----------------------------------------------------------------------------
\* The signed ranks by pairs: a positive delta gets its rank from the sums it makes
\* positive with the deltas up to it, and half a one from each it cancels.
PairSums2(deltas) ==
  MapThenSumSet(LAMBDA p : IF p[1] > p[2] THEN 0
                           ELSE IF deltas[p[1]] + deltas[p[2]] > 0 THEN 2
                           ELSE IF deltas[p[1]] + deltas[p[2]] = 0 THEN 1 ELSE 0,
                (DOMAIN deltas) \X (DOMAIN deltas))

=============================================================================
