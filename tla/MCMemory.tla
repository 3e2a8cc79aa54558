------------------------------ MODULE MCMemory ------------------------------
(***************************************************************************)
(* A run in which a user states a norm, the curated seed that negates it,  *)
(* and a message that negates it in other words.  The two negations        *)
(* contradict the norm but not each other; the seed is as sure as the run. *)
(***************************************************************************)
EXTENDS Mining

Claim(words, negated) == [words |-> words, negated |-> negated]

Do   == Claim({"post", "launches"}, FALSE)
Dont == Claim({"post", "launches"}, TRUE)
Stop == Claim({"post"}, TRUE)

Turn(as, text) == [kind |-> "user", says |-> {as}, text |-> text, tool |-> None]
Run(turns) == [spans |-> turns, emitted |-> <<>>]

MCInputs == { <<Run(<<Turn("norm", Do)>>)>> }

MCApp == << [type |-> "message", name |-> "m1", about |-> None, lines |-> <<Stop>>] >>

MCSeed == << [id |-> Id("semantic", "team", "team-norms", Dont), conf |-> 187,
              acl |-> "team", created |-> Unset] >>

MCIds == {Id("semantic", "team", "team-norms", c) : c \in {Do, Dont, Stop}}
MCIdRank == [i \in MCIds |-> CASE i.claim = Do -> 1 [] i.claim = Dont -> 2 [] OTHER -> 3]

\* What the other extractors return, on one example of each.
Calls(tool) == [kind |-> "tool", says |-> {}, text |-> None, tool |-> tool]
Taught == Run(<<Turn("correction", Do), Calls("find"), Calls("move"), Turn("correction", Dont)>>)

ASSUME ExtractionExamples ==
  /\ [i \in 1 .. 1 |-> FromTrajectory(Taught)[i].text] = <<Dont>>
  /\ Len(FromTrajectory(Taught)) = 1
  /\ Repeated(<<Taught>>) = <<>>
  /\ Repeated(<<Taught, Taught, Taught>>)[1].occurrences = 3
  /\ Len(Repeated(<<Taught, Taught, Taught>>)) = 1
  /\ Facts(<<[type |-> "user", name |-> "ann", about |-> None, lines |-> <<>>],
            [type |-> "channel", name |-> "launch", about |-> "posts", lines |-> <<>>]>>)
       = <<[id |-> Id("semantic", "team", "channels",
                      Claim({"launch", "posts"}, FALSE)),
            conf |-> 62, acl |-> "team", created |-> Unset]>>

-----------------------------------------------------------------------------
\* What the miner finds in all histories of up to three runs: a task of its kind is
\* found once and with enough evidence, and one more run takes none away.
ASSUME MinedTasksStay ==
  \A n \in 0 .. 3 : \A runs \in [1 .. n -> {Taught, Run(<<Turn("norm", Do)>>), Run(<<>>)}] :
    LET Found(k) == MineCandidates(SubSeq(runs, 1, k), 2, [text \in {Do, Dont} |-> text.words])
        Names(k) == {[kind |-> t.kind, summary |-> t.summary] : t \in ToSet(Found(k))}
    IN  /\ Cardinality(Names(n)) = Len(Found(n))
        /\ \A t \in ToSet(Found(n)) : t.kind # "durable_statement" => Len(t.evidence) >= 2
        /\ n > 0 => Names(n - 1) \subseteq Names(n)

\* A difference accounts for every item once, and leads from one state to the other.
ASSUME DiffsLead ==
  \A A, B \in SUBSET {1, 2} : \A before \in [A -> BOOLEAN], after \in [B -> BOOLEAN] :
    LET d == DiffMemory(before, after)
        Active(f) == {i \in DOMAIN f : f[i]}
    IN  /\ Cardinality(A \cup B) = Cardinality(d.added) + Cardinality(d.removed)
                                   + Cardinality(d.reactivated) + d.unchanged
        /\ Active(after) \ d.added = (Active(before) \ d.removed) \cup d.reactivated

=============================================================================
