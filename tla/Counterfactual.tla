--------------------------- MODULE Counterfactual ---------------------------
(***************************************************************************)
(* The counterfactual explorer: one task, one workspace, and the stub run  *)
(* once per memory pack, each in a sandbox and with an agent of its own.   *)
(* A pack is a sequence of claims.                                         *)
(***************************************************************************)
EXTENDS Backtest

\* One pack: what a fresh agent writes with its claims mounted, and what it scores.
Explored(t, workspace, pack) ==
  LET made == Writes(workspace, Decide(t.says, t.project, UNION ToSet(pack)))
  IN  [pack |-> pack, scores |-> Scores(t, made, pack), writes |-> made]

\* explore: the best total first, equal ones in the order of the packs.
Explore(t, workspace, packs) ==
  LET results == [i \in DOMAIN packs |-> Explored(t, workspace, packs[i])]
      Better(i, j) == \/ Total(results[i].scores) > Total(results[j].scores)
                      \/ Total(results[i].scores) = Total(results[j].scores) /\ i < j
      ranking == SetToSortSeq(DOMAIN packs, Better)
  IN  [n \in DOMAIN packs |-> results[ranking[n]]]

=============================================================================
