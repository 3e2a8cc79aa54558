----------------------------- MODULE Retrieval ------------------------------
(***************************************************************************)
(* The hybrid retriever: two rankings of the indexed items are fused,      *)
(* reranked with the namespace prior, confidence, freshness and privacy,   *)
(* and packed into a bundle.                                               *)
(*                                                                         *)
(* An item is [id, says, namespace, conf, ref, acl, cost]: conf in         *)
(* hundredths, ref the day it counts from, cost in tokens.  The lexical    *)
(* and the dense scores themselves are left out: their rankings are        *)
(* parameters.  A reciprocal rank is kept times RankUnit, which the ranks  *)
(* that occur divide.                                                      *)
(***************************************************************************)
EXTENDS Integers, Sequences, FiniteSets, FiniteSetsExt, Functions, SequencesExt

CONSTANTS
  RankUnit,     \* a common multiple of 61, 62, ...
  CandidateK,   \* how many a ranking contributes at most
  TopK,         \* how many items a bundle holds at most
  TokenBudget,  \* how many tokens
  IdOrder       \* the order of the ids as strings

ASSUME RetrievalAssumption ==
  /\ RankUnit \in Nat /\ CandidateK \in Nat /\ TopK \in Nat /\ TokenBudget \in Nat

\* reciprocal_rank_fusion, with k = 60 and ranks from one.
Fused(lexical, dense) ==
  LET Rank(ranking, x)  == CHOOSE i \in DOMAIN ranking : ranking[i] = x
      Share(ranking, x) ==
        IF x \in ToSet(ranking) THEN RankUnit \div (60 + Rank(ranking, x)) ELSE 0
  IN  [x \in ToSet(lexical) \cup ToSet(dense) |-> Share(lexical, x) + Share(dense, x)]

\* route: the prior of a namespace in hundredths, from the cues in the query.
Prior(cues, namespace) ==
  LET raw == [n \in {"user", "team", "project", "app_state"} |->
                10 + (IF n = "app_state" THEN 40 ELSE 60) * cues[n]]
  IN  IF namespace \in DOMAIN raw
      THEN (100 * raw[namespace])
             \div (raw["user"] + raw["team"] + raw["project"] + raw["app_state"])
      ELSE 0

\* _freshness in hundredths, clamped on both ends.
Freshness(x, today) == Max({0, Min({100, 100 - (100 * (today - x.ref)) \div 365})})

\* _rerank_score, times a thousand and the best fusion score; an indexed item was
\* active, so that no contradiction is counted.
RerankScore(x, fused, cues, today) ==
  LET best == Max({fused[y] : y \in DOMAIN fused})
  IN  1500 * fused[x]
      + best * (5 * Prior(cues, x.namespace) + 4 * x.conf + 2 * Freshness(x, today)
                - (IF x.acl = "personal" THEN 90 ELSE 0))

\* No supports or derived_from edge is ever stored, so the graph adds nothing.
Ranked(lexical, dense, cues, today) ==
  LET fused == Fused(SubSeq(lexical, 1, Min({CandidateK, Len(lexical)})),
                     SubSeq(dense, 1, Min({CandidateK, Len(dense)})))
      score == [x \in DOMAIN fused |-> RerankScore(x, fused, cues, today)]
      Before(x, y) == \/ score[x] > score[y]
                      \/ score[x] = score[y] /\ IdOrder[x.id] < IdOrder[y.id]
      sorted == CHOOSE s \in [1 .. Cardinality(DOMAIN fused) -> DOMAIN fused] :
                  /\ ToSet(s) = DOMAIN fused
                  /\ \A i, j \in DOMAIN s : i < j => Before(s[i], s[j])
  IN  SubSeq(sorted, 1, Min({Max({TopK, CandidateK}), Len(sorted)}))

\* Mutant: packing ends at the first item that does not fit.
StopPacking(ranked) ==
  FoldLeft(LAMBDA b, x :
             IF Len(b.items) >= TopK \/ b.over THEN b
             ELSE IF b.tokens + x.cost > TokenBudget /\ b.items # <<>>
                  THEN [b EXCEPT !.over = TRUE]
             ELSE [b EXCEPT !.items = Append(@, x), !.tokens = @ + x.cost],
           [items |-> <<>>, tokens |-> 0, over |-> FALSE], ranked)

\* _pack: in order of rank, passing over what does not fit any more; the first item
\* is taken whatever it costs.
Pack(ranked) ==
  FoldLeft(LAMBDA b, x :
             IF Len(b.items) >= TopK \/ (b.tokens + x.cost > TokenBudget /\ b.items # <<>>)
             THEN b
             ELSE [b EXCEPT !.items = Append(@, x), !.tokens = @ + x.cost],
           [items |-> <<>>, tokens |-> 0], ranked)

=============================================================================
