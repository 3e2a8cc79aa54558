------------------------------ MODULE Judging -------------------------------
(***************************************************************************)
(* The rule based judge: what a condition scores, from the writes the      *)
(* sandbox recorded and the claims that were retrieved.                    *)
(*                                                                         *)
(* A task is [says, project, topics, cues, expected, forbidden, maxWrites, *)
(* valid, ingest], the last two its as_of instants; an expected write is   *)
(* [app, action, expect, described], expect mapping fields to [is |->      *)
(* text] or [has |-> phrase].  Scores are kept in parts of Whole, which    *)
(* every number of expected writes or topics divides.                      *)
(***************************************************************************)
EXTENDS Integers, Sequences, FiniteSets, FiniteSetsExt, SequencesExt

CONSTANTS Whole

ASSUME WholeAssumption == Whole \in Nat /\ Whole > 0

\* _matches, _contains.
Fits(payload, field, wanted) ==
  /\ field \in DOMAIN payload
  /\ IF "is" \in DOMAIN wanted THEN payload[field] = wanted.is
                               ELSE wanted.has \in payload[field]

\* check_write_made.
WriteMade(writes, ew) ==
  \E i \in DOMAIN writes :
    /\ writes[i].app = ew.app /\ writes[i].action = ew.action
    /\ \A field \in DOMAIN ew.expect : Fits(writes[i].payload, field, ew.expect[field])

\* from_assertions and run_validators: one result per expected write, and one more
\* for each if the task forbids something; the judge drops those of two names again.
Results(task, writes) ==
  LET Made(i)  == [of |-> i, name |-> task.expected[i].described,
                   passed |-> WriteMade(writes, task.expected[i])]
      Clean(i) == [of |-> i, name |-> "no_forbidden",
                   passed |-> \A j \in DOMAIN writes : writes[j].action \notin task.forbidden]
  IN  {Made(i) : i \in DOMAIN task.expected} \cup
      {Clean(i) : i \in {j \in DOMAIN task.expected : task.forbidden # {}}}

Outcome(task, writes) ==
  LET made == {r \in Results(task, writes) : r.name \notin {"no_forbidden", "single_action"}}
      passed == {r \in made : r.passed}
  IN  IF made # {} THEN (Whole * Cardinality(passed)) \div Cardinality(made)
      ELSE IF writes # <<>> \/ task.expected = <<>> THEN Whole ELSE 0

\* Mutant: a task may be given one write more than it allows.
LenientValidity(task, writes) ==
  IF \E i \in DOMAIN writes : writes[i].action \in task.forbidden THEN 0
  ELSE IF Len(writes) > task.maxWrites + 1 THEN Whole \div 2
  ELSE Whole

Validity(task, writes) ==
  IF \E i \in DOMAIN writes : writes[i].action \in task.forbidden THEN 0
  ELSE IF Len(writes) > task.maxWrites THEN Whole \div 2
  ELSE Whole

\* retrieval_scores and their harmonic mean: topics are the expected substrings, a
\* claim is the set of the phrases in it.
Retrieval(topics, claims) ==
  LET relevant == Len(SelectSeq(claims, LAMBDA c : c \cap topics # {}))
      covered  == Cardinality({s \in topics : \E i \in DOMAIN claims : s \in claims[i]})
      denom    == Min({Len(claims), Cardinality(topics)})
      recall   == (Whole * covered) \div Cardinality(topics)
      precision == IF denom = 0 THEN 0 ELSE Min({Whole, (Whole * relevant) \div denom})
  IN  IF topics = {} THEN Whole
      ELSE IF precision + recall = 0 THEN 0
      ELSE (2 * precision * recall) \div (precision + recall)

\* score: application is measured from the outcome.
Scores(task, writes, claims) ==
  [outcome     |-> Outcome(task, writes),
   validity    |-> Validity(task, writes),
   retrieval   |-> Retrieval(task.topics, claims),
   application |-> Outcome(task, writes)]

\* outcome_score, in thirds of a part; total, in fifths; success.
OutcomeScore(s) == 2 * s.outcome + s.validity
Total(s)        == 2 * s.outcome + s.retrieval + s.application + s.validity
Success(s)      == s.outcome = Whole /\ s.validity = Whole

=============================================================================
