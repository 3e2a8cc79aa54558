------------------------------- MODULE Mining -------------------------------
(***************************************************************************)
(* What is read off trajectories and off the memory store for a human: the *)
(* candidate benchmark tasks of the miner, the difference of two states of *)
(* the store, and an item's provenance.                                    *)
(*                                                                         *)
(* A trace is named by its place among the runs.  The theme of a text, its *)
(* first three salient words, is a parameter, a function.                  *)
(***************************************************************************)
EXTENDS Memory

\* What recurs, in the order it was first noted: evidence tells every time it was.
Recurring(kind, noted, minRepeats) ==
  LET Like(i) == SelectSeq(noted, LAMBDA n : n.summary = noted[i].summary)
      First(i) == \A j \in 1 .. i - 1 : noted[j].summary # noted[i].summary
      Task(i) == [kind |-> kind, summary |-> noted[i].summary,
                  evidence |-> [k \in DOMAIN Like(i) |-> Like(i)[k].trace]]
  IN  FlattenSeq([i \in DOMAIN noted |->
        IF First(i) /\ Len(Like(i)) >= minRepeats THEN <<Task(i)>> ELSE <<>>])

\* The candidates of one source, run by run.
Heard(runs, source) ==
  FlattenSeq([i \in DOMAIN runs |->
    LET said == SelectSeq(FromTrajectory(runs[i]), LAMBDA c : c.source = source)
    IN  [k \in DOMAIN said |-> [summary |-> said[k].text, trace |-> i]]])

\* mine_candidates: recurring tool sequences, recurring corrections by theme, and every
\* durable statement with the first trace that has it.
MineCandidates(runs, minRepeats, theme) ==
  LET called == FlattenSeq([i \in DOMAIN runs |->
                  IF Tools(runs[i]) = <<>> THEN <<>>
                  ELSE <<[summary |-> Tools(runs[i]), trace |-> i]>>])
      said == Heard(runs, "correction")
      corrected == [k \in DOMAIN said |-> [said[k] EXCEPT !.summary = theme[@]]]
      stated == Recurring("durable_statement", Heard(runs, "explicit"), 1)
  IN  Recurring("repeated_request", called, minRepeats)
      \o Recurring("correction", corrected, minRepeats)
      \o [i \in DOMAIN stated |-> [stated[i] EXCEPT !.evidence = <<@[1]>>]]

\* diff_memory, on two states of the store as functions from ids to the active flag.
DiffMemory(before, after) ==
  LET both == DOMAIN before \cap DOMAIN after
  IN  [added       |-> DOMAIN after \ DOMAIN before,
       removed     |-> {i \in both : before[i] /\ ~ after[i]} \cup (DOMAIN before \ DOMAIN after),
       reactivated |-> {i \in both : ~ before[i] /\ after[i]},
       unchanged   |-> Cardinality({i \in both : before[i] = after[i]})]

\* build_provenance, for its edges.
Provenance(x) ==
  LET To(relation) == {e.dst : e \in {f \in edges : f.src = x.id /\ f.relation = relation}}
  IN  [supersedes |-> To("supersedes"), contradicts |-> To("contradicts")]

=============================================================================
