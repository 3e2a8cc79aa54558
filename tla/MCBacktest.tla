----------------------------- MODULE MCBacktest -----------------------------
(***************************************************************************)
(* Two tasks of the benchmark, one of them at an ingestion instant that    *)
(* has not passed yet, three items that do not fit into one bundle, and a  *)
(* live model that posts and sends at once.  A channel's two names are     *)
(* both dated by its creation, as Slack's are, so that the sequence number *)
(* decides, or nothing does.  One process syncs the first name, by the     *)
(* wall clock or with one frozen at 0; a bulk load brings the second name, *)
(* dated 0, and the channel's deletion, dated 1.                           *)
(* The statistics of a report and the budget optimizer are compared with   *)
(* their definitions over all small inputs.                                *)
(***************************************************************************)
EXTENDS Counterfactual, Statistics, Budget, TLC

NoCues == [user |-> 0, team |-> 0, project |-> 0, app_state |-> 0]

Announce ==
  [says |-> {"announce", "launch"}, project |-> {"redwood"},
   topics |-> {"announcements"}, cues |-> [NoCues EXCEPT !["team"] = 1, !["project"] = 1],
   expected |-> <<[app |-> "slack", action |-> "post_message", described |-> "post",
                   expect |-> [channel |-> [is |-> {"announcements"}],
                               text |-> [has |-> "is live"]]]>>,
   forbidden |-> {"delete_channel", "send_dm"}, maxWrites |-> 1, valid |-> 0, ingest |-> 0]

Reply ==
  [says |-> {"reply", "bob", "review"}, project |-> {"bob"},
   topics |-> {"prefers direct messages"}, cues |-> NoCues,
   expected |-> <<[app |-> "slack", action |-> "send_dm", described |-> "dm",
                   expect |-> [user |-> [is |-> {"U_BOB"}]]]>>,
   forbidden |-> {}, maxWrites |-> 1, valid |-> 1, ingest |-> 1]

MCTasks == <<Announce, Reply>>

Norm == [id |-> "m1", says |-> {"announcements", "launch", "is live"}, namespace |-> "team",
         conf |-> 85, ref |-> 0, acl |-> "team", cost |-> 4]
Pref == [id |-> "m2", says |-> {"prefers direct messages"}, namespace |-> "user",
         conf |-> 85, ref |-> 0, acl |-> "personal", cost |-> 3]
Page == [id |-> "m3", says |-> {"canonical"}, namespace |-> "project",
         conf |-> 80, ref |-> 300, acl |-> "project", cost |-> 2]

MCCompiled == { {}, {Norm, Pref, Page} }
MCOrders   == [C \in MCCompiled |-> IF C = {} THEN {<<>>}
                                    ELSE { <<Norm, Pref, Page>>, <<Page, Pref, Norm>> }]
MCIdOrder == [m1 |-> 1, m2 |-> 2, m3 |-> 3]

Named(name) == [channel |-> "C1", op |-> "upsert_entity", validAt |-> 0, name |-> name]
Deleted     == [channel |-> "C1", op |-> "delete_entity", validAt |-> 1]

MCEvents == {Named("announcements")}
MCBulk   == {<<[event |-> Named("launches"), at |-> 0], [event |-> Deleted, at |-> 1]>>}

MCPost == Call("slack", "post_message", [channel |-> {"announcements"}, text |-> {"is live"}])
MCDm   == Call("slack", "send_dm", [user |-> {"U_BOB"}, text |-> {"hi"}])

MCResponses == { <<>>, <<MCPost, MCDm>> }

MCFaults == { <<>>, <<[app |-> "slack", action |-> "post_message", onCall |-> 1]>> }

-----------------------------------------------------------------------------
\* Exploring packs: every pack is run once and the best comes first; with a memory that
\* names the channel and the words, the announcement is made as asked.
ASSUME BestPackFirst ==
  LET at == "C1" :> [name |-> "announcements", deleted |-> FALSE]
      packs == << <<>>, <<Page.says>>, <<Norm.says>>, <<Pref.says, Norm.says>> >>
  IN  \A t \in {Announce, Reply} :
        LET found == Explore(t, at, packs)
        IN  /\ {found[i].pack : i \in 1 .. 4} = ToSet(packs)
            /\ \A i, j \in 1 .. 4 :
                 i < j => Total(found[i].scores) >= Total(found[j].scores)
            /\ t = Announce => found[1].pack = <<Norm.says>> /\ Success(found[1].scores)

\* The signed ranks are those counted by pairs and add up to all ranks.
ASSUME RanksAreRight ==
  \A n \in 0 .. 4 : \A deltas \in [1 .. n -> {-2, -1, 1, 2}] :
    LET ranks == SignedRanks(deltas)
    IN  /\ ranks.plus2 = PairSums2(deltas)
        /\ ranks.plus2 + ranks.minus2 = n * (n + 1)
        /\ SignedRanks(deltas \o <<0>>) = ranks
        /\ Statistic2(deltas) = Statistic2([i \in 1 .. n |-> - deltas[i]])

\* Agreement beyond chance is at most whole, whole where all is agreed, and the same
\* whichever rater is named first.
ASSUME KappaIsRight ==
  \A n \in 1 .. 3 : \A a, b \in [1 .. n -> {"x", "y", "z"}] :
    LET k == Kappa(a, b)
    IN  k.den > 0 /\ k.num <= k.den /\ k = Kappa(b, a) /\ (k.num = k.den <=> a = b)

\* A pair of results that differ in one write, and what is reported of it.
ASSUME SummaryExample ==
  LET s(outcome) == [scores |-> [outcome |-> outcome, validity |-> Whole,
                                 retrieval |-> Whole, application |-> outcome]]
      summary == Summary(<< <<s(0), s(Whole)>>, <<s(Whole), s(Whole)>> >>)
  IN  /\ summary.win_rate = [sum |-> 1, of |-> 2]
      /\ summary.success_without = [sum |-> 1, of |-> 2]
      /\ summary.mean_delta.sum = summary.mean_outcome_with.sum - summary.mean_outcome_without.sum
      /\ TotalDelta(<<s(0), s(Whole)>>) = 3 * Whole

\* The exact plan is worth the most, the greedy one no more; both are plans.
ASSUME PlansAreRight ==
  \A n \in 0 .. 3 : \A costs \in [1 .. n -> 0 .. 3], values \in [1 .. n -> {1, 3, 4}] :
    LET cands == [i \in 1 .. n |-> [id |-> i, value |-> values[i], tokens |-> costs[i]]]
    IN  \A budget \in 0 .. ExactBudget + 1 :
          /\ budget <= ExactBudget => Optimize(cands, budget).value = BestValue(cands, budget)
          /\ Greedy(cands, budget).value <= BestValue(cands, budget)
          /\ IsPlan(Optimize(cands, budget), cands, budget)
          /\ IsPlan(Greedy(cands, budget), cands, budget)

=============================================================================
