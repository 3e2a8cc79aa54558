------------------------------ MODULE Backtest ------------------------------
(***************************************************************************)
(* A paired backtest: for every task the workspace is materialized once,   *)
(* memory is retrieved once, and an agent is run twice in a sandbox of its *)
(* own, first without and then with the retrieved claims.                  *)
(*                                                                         *)
(* While it runs, syncs and bulk loads append to the event log, which is   *)
(* the abstract one that EventLog implements: run_backtest itself and the  *)
(* demo sync fixtures with a clock frozen at a past instant, the worker    *)
(* goes by the wall clock.  The model is the stub, whose answers are a     *)
(* function, or a live one, which may answer anything and fail anywhere.   *)
(*                                                                         *)
(* Of the workspace only channels matter to the writes of a run.  An event *)
(* is [channel, op, validAt] with op upsert_entity or delete_entity, the   *)
(* first with a name as well.                                              *)
(* Tool calls may pass through a fault injector, as the replay tests have  *)
(* it; the runner itself uses none.                                        *)
(*                                                                         *)
(* Token counts, costs, trajectories and texts that are not looked at are  *)
(* left out.                                                               *)
(***************************************************************************)
EXTENDS Policy, Judging, Retrieval, BitemporalLog

CONSTANTS
  Tasks,        \* the benchmark, in order
  Compiled,     \* the sets of items that may be active when the runner is built
  Orders,       \* of each of these sets, the orders in which a ranker may put it
  Channels,     \* the channels of the workspace
  Responses,    \* the calls a live model may answer with, <<>> for a text
  Faults,       \* the fault lists an injector may be given: [app, action, onCall]
  MaxSteps      \* steps the agent is given

ASSUME BacktestAssumption ==
  /\ MaxSteps \in Nat /\ MaxSteps > 0
  /\ Len(Tasks) \in Nat
  /\ \A k \in 1 .. Len(Tasks) : Tasks[k].valid \in Int /\ Tasks[k].ingest \in Nat

\* A ranker lists every item once; ids are unique, and costs are positive.
ASSUME ItemsAssumption ==
  \A C \in Compiled :
    /\ IsFiniteSet(C)
    /\ \A x \in C : /\ x.conf \in Int /\ x.ref \in Int /\ x.cost \in Nat \ {0}
                    /\ IdOrder[x.id] \in Nat
    /\ \A x, y \in C : IdOrder[x.id] = IdOrder[y.id] => x = y
    /\ C # {} => \A order \in Orders[C] :
                  order \in [1 .. Cardinality(C) -> C] /\ ToSet(order) = C

\* What a task asks for.  No expected write is described by a name the judge drops.
ASSUME TasksAssumption ==
  \A k \in 1 .. Len(Tasks) :
    /\ Tasks[k].cues \in [{"user", "team", "project", "app_state"} -> Nat]
    /\ Tasks[k].maxWrites \in Nat
    /\ Tasks[k].expected \in Seq(ToSet(Tasks[k].expected))
    /\ \A ew \in ToSet(Tasks[k].expected) :
         ew.described \notin {"no_forbidden", "single_action"}

ASSUME ResponsesAssumption == \A more \in Responses : more \in Seq(ToSet(more))

VARIABLES
  llm,      \* "stub" or "live"
  faults,   \* the fault list of the injector
  pc,       \* where the runner stands
  task,     \* the number of the task it is at
  index,    \* the items the retriever has indexed
  state,    \* the workspace of the task, as far as it is materialized
  steady,   \* history: the tasks whose ingestion instant was settled when they were
            \* seeded, and behind which nobody has gone back since
  bundle,   \* what was retrieved for the task
  cond,     \* the condition that is run
  steps,    \* responses the agent has had
  calls,    \* calls it has made
  writes,   \* the sandbox's log
  report    \* the results so far

world == <<rows, open, now>>
run   == <<pc, task, index, state, bundle, cond, steps, calls, writes, report>>
btVars == <<rows, open, now, llm, faults, pc, task, index, state, steady, bundle,
            cond, steps, calls, writes, report>>

Conditions == <<"without_memory", "with_memory">>
DaysPerTick == 200
Unread == "unread"
Nameless == "no name"
This == Tasks[task]

\* iter_events on one channel, at the valid and the ingestion instant of a task.
Rows(c, t) ==
  {r \in rows : r.event.channel = c /\ r.event.validAt <= t.valid /\ r.stamp <= t.ingest}

\* ORDER BY valid_at, seq, and the rows the fold may come to last: one, unless the
\* last ones tie, for then each query may return them in an order of its own.
Precedes(r, q) ==
  \/ r.event.validAt < q.event.validAt
  \/ r.event.validAt = q.event.validAt /\ r.seq < q.seq
Final(R) == {r \in R : \A q \in R : ~ Precedes(r, q)}

\* _apply: an upsert sets the name and clears the tombstone, a deletion sets it.
Names(c, t) ==
  LET upserts == {r \in Rows(c, t) : r.event.op = "upsert_entity"}
  IN  IF upserts = {} THEN {Nameless} ELSE {r.event.name : r \in Final(upserts)}
Tombstones(c, t) == {r.event.op = "delete_entity" : r \in Final(Rows(c, t))}

\* The channels a task sees, and the workspaces _seed_state may make of them.
Seen(t) == {c \in Channels : Rows(c, t) # {}}
Workspaces(t) ==
  {ws \in [Seen(t) -> [name : UNION {Names(c, t) : c \in Seen(t)}, deleted : BOOLEAN]] :
     \A c \in Seen(t) : ws[c].name \in Names(c, t) /\ ws[c].deleted \in Tombstones(c, t)}

\* What the agent is shown in a condition: the claims, unless there is none.
Mounted(claims, condition) ==
  IF condition = "with_memory" THEN UNION {claims[i] : i \in DOMAIN claims} ELSE {}

Claims(b) == [i \in DOMAIN b |-> b[i].says]

BtInit ==
  /\ AbsInit
  /\ llm \in {"stub", "live"}
  /\ faults \in Faults
  /\ pc = "start" /\ task = 1
  /\ index = {} /\ state = <<>> /\ steady = {} /\ bundle = <<>>
  /\ cond = 1 /\ steps = 0 /\ calls = <<>> /\ writes = <<>>
  /\ report = <<>>

-----------------------------------------------------------------------------
\* The log goes on, whatever the runner does.
LogStep ==
  /\ AbsNext
  /\ steady' = {k \in steady : ~ Rewrites(Tasks[k].ingest)}
  /\ UNCHANGED <<llm, faults, run>>

-----------------------------------------------------------------------------
\* BacktestRunner.__init__: the retriever indexes the items that are active then; it
\* reads no item again, whatever becomes of them.
BuildRunner ==
  /\ pc = "start"
  /\ index' \in Compiled
  /\ pc' = IF Len(Tasks) = 0 THEN "done" ELSE "list"
  /\ UNCHANGED <<world, llm, faults, task, state, steady, bundle, cond, steps, calls,
                 writes, report>>

\* _seed_state: the snapshot lists the entities and whether each is deleted ...
ListEntities ==
  /\ pc = "list"
  /\ state' \in [Seen(This) -> [name : {Unread}, deleted : BOOLEAN]]
  /\ \A c \in Seen(This) : state'[c].deleted \in Tombstones(c, This)
  /\ steady' = IF Settled(This.ingest) THEN steady \cup {task} ELSE steady
  /\ pc' = "payloads"
  /\ UNCHANGED <<world, llm, faults, task, index, bundle, cond, steps, calls, writes, report>>

\* Mutant: materialize_entity is not told the ingestion instant.
ReadNewestPayload ==
  /\ pc = "payloads"
  /\ \E c \in DOMAIN state : \E name \in Names(c, [This EXCEPT !.ingest = now]) :
       /\ state[c].name = Unread
       /\ state' = [state EXCEPT ![c].name = name]
  /\ UNCHANGED <<world, llm, faults, pc, task, index, steady, bundle, cond, steps, calls,
                 writes, report>>

\* ... and each is materialized once more for its payload.
ReadPayload ==
  /\ pc = "payloads"
  /\ \E c \in DOMAIN state : \E name \in Names(c, This) :
       /\ state[c].name = Unread
       /\ state' = [state EXCEPT ![c].name = name]
  /\ UNCHANGED <<world, llm, faults, pc, task, index, steady, bundle, cond, steps, calls,
                 writes, report>>

\* _retrieve, from the index and not from the store: nothing if it is empty.  BM25
\* ranks the items that share a word with the prompt, the embeddings rank them all.
Retrieve ==
  /\ pc = "payloads"
  /\ \A c \in DOMAIN state : state[c].name # Unread
  /\ IF index = {} THEN bundle' = <<>>
     ELSE \E by, close \in Orders[index], n \in 0 .. Cardinality(index) :
            bundle' = Pack(Ranked(SubSeq(by, 1, n), close, This.cues,
                                  now * DaysPerTick)).items
  /\ pc' = "sandbox"
  /\ UNCHANGED <<world, llm, faults, task, index, state, steady, cond, steps, calls, writes, report>>

\* Mutant: the second condition goes on with the agent of the first.
UsedAgent ==
  /\ pc = "sandbox"
  /\ steps' = 0 /\ writes' = <<>>
  /\ calls' = IF cond = 1 THEN <<>> ELSE calls
  /\ pc' = "agent"
  /\ UNCHANGED <<world, llm, faults, task, index, state, steady, bundle, cond, report>>

\* _run_condition: a new sandbox over the same state, and a new agent.
OpenSandbox ==
  /\ pc = "sandbox"
  /\ steps' = 0 /\ calls' = <<>> /\ writes' = <<>>
  /\ pc' = "agent"
  /\ UNCHANGED <<world, llm, faults, task, index, state, steady, bundle, cond, report>>

\* The stub: one call, and after its result a text.
StubCalls ==
  IF calls # <<>> THEN <<>>
  ELSE <<Decide(This.says, This.project, Mounted(Claims(bundle), Conditions[cond]))>>

\* FaultInjector: whether the last of the calls made so far fails, by the first fault
\* that names its tool, or no tool, and its number among that tool's, or all, calls.
Faulted(list, made) ==
  LET last == made[Len(made)]
      same == SelectSeq(made, LAMBDA c : c.app = last.app /\ c.action = last.action)
  IN  \E i \in DOMAIN list :
        \/ /\ list[i].app = last.app /\ list[i].action = last.action
           /\ list[i].onCall = Len(same)
        \/ list[i].app = "any" /\ list[i].onCall = Len(made)

\* The writes of some calls, made one after the other.
Executed(made, more) ==
  FlattenSeq([i \in 1 .. Len(more) |->
    IF Faulted(faults, made \o SubSeq(more, 1, i)) THEN <<>> ELSE Writes(state, more[i])])

\* OperationalAgent.run, one response: all of its calls are executed, in order.
Respond ==
  /\ pc = "agent"
  /\ steps < MaxSteps
  /\ steps' = steps + 1
  /\ \E more \in (IF llm = "stub" THEN {StubCalls} ELSE Responses) :
       IF more = <<>> THEN pc' = "judge" /\ UNCHANGED <<calls, writes>>
       ELSE /\ calls' = calls \o more
            /\ writes' = writes \o Executed(calls, more)
            /\ UNCHANGED pc
  /\ UNCHANGED <<world, llm, faults, task, index, state, steady, bundle, cond, report>>

OutOfSteps ==
  /\ pc = "agent"
  /\ steps = MaxSteps
  /\ pc' = "judge"
  /\ UNCHANGED <<world, llm, faults, task, index, state, steady, bundle, cond, steps,
                 calls, writes, report>>

\* The result is labelled by what was mounted.
Result ==
  LET claims == IF cond = 1 THEN <<>> ELSE Claims(bundle)
  IN  [label |-> IF claims = <<>> THEN "without_memory" ELSE "with_memory",
       writes |-> writes, claims |-> claims,
       scores |-> Scores(This, writes, claims)]

\* Mutant: every condition's result joins the report as a task's.
JudgedApart ==
  /\ pc = "judge"
  /\ report' = Append(report, <<Result>>)
  /\ IF cond = 1
     THEN cond' = 2 /\ pc' = "sandbox" /\ UNCHANGED task
     ELSE /\ cond' = 1
          /\ IF task = Len(Tasks) THEN pc' = "done" /\ UNCHANGED task
             ELSE pc' = "list" /\ task' = task + 1
  /\ UNCHANGED <<world, llm, faults, index, state, steady, bundle, steps, calls, writes>>

\* The condition is judged; after the second the task's pair of results is complete.
Judged ==
  /\ pc = "judge"
  /\ report' = IF cond = 1 THEN Append(report, <<Result>>)
                           ELSE [report EXCEPT ![task] = Append(@, Result)]
  /\ IF cond = 1
     THEN cond' = 2 /\ pc' = "sandbox" /\ UNCHANGED task
     ELSE /\ cond' = 1
          /\ IF task = Len(Tasks) THEN pc' = "done" /\ UNCHANGED task
             ELSE pc' = "list" /\ task' = task + 1
  /\ UNCHANGED <<world, llm, faults, index, state, steady, bundle, steps, calls, writes>>

\* The live client raises: the whole run is lost.
ClientFails ==
  /\ pc = "agent" /\ llm = "live"
  /\ pc' = "dead"
  /\ report' = <<>>
  /\ UNCHANGED <<world, llm, faults, task, index, state, steady, bundle, cond, steps,
                 calls, writes>>

Runner ==
  \/ BuildRunner \/ ListEntities \/ ReadPayload \/ Retrieve \/ OpenSandbox
  \/ Respond \/ OutOfSteps \/ Judged \/ ClientFails

BtNext == LogStep \/ Runner

BtSpec == BtInit /\ [][BtNext]_btVars

-----------------------------------------------------------------------------
BtTypeOK ==
  /\ now \in Nat /\ open \in [Writers -> Nat \cup {Closed}]
  /\ \A r \in rows : r.stamp \in Nat
  /\ index \in Compiled \cup {{}}
  /\ llm \in {"stub", "live"} /\ faults \in Faults
  /\ pc \in {"start", "list", "payloads", "sandbox", "agent", "judge", "done", "dead"}
  /\ task = 1 \/ task \in 1 .. Len(Tasks)
  /\ cond \in {1, 2} /\ steps \in 0 .. MaxSteps
  /\ steady \subseteq 1 .. task
  /\ DOMAIN state \subseteq Channels
  /\ ToSet(bundle) \subseteq index
  /\ pc = "done" => Len(report) = Len(Tasks)
  /\ pc \notin {"done", "dead"} => Len(report) = IF cond = 2 THEN task ELSE task - 1
  /\ \A k \in DOMAIN report :
       Len(report[k]) = IF k = task /\ pc # "done" THEN 1 ELSE 2

\* A backtest with the stub can be repeated: what a task of a settled instant was scored
\* on, in either condition, is what one call of the stub on a workspace of that instant
\* leaves in an empty sandbox, however the log and the memory went on meanwhile and
\* whatever tasks and conditions were run before, as long as no pass and no bulk load has
\* gone back behind the instant.  The workspace is the same in both conditions, and there
\* is one only unless rows of a channel tie.
Reproducible ==
  llm = "stub" /\ faults = <<>> =>
    \A k \in DOMAIN report \cap steady :
      LET t == Tasks[k]
      IN  \E ws \in Workspaces(t) : \A i \in DOMAIN report[k] :
            LET r == report[k][i]
            IN  r.writes = Writes(ws, Decide(t.says, t.project, Mounted(r.claims, Conditions[i])))

\* A condition counts as a success exactly if every expected write is among the writes,
\* nothing forbidden is, and there are no more writes than allowed; whatever model
\* answered, and whichever of its calls were made to fail.
SuccessIsReal ==
  \A k \in DOMAIN report : \A i \in DOMAIN report[k] :
    LET w == report[k][i].writes
        t == Tasks[k]
    IN  Success(report[k][i].scores) <=>
          /\ \A e \in ToSet(t.expected) : WriteMade(w, e)
          /\ \A j \in DOMAIN w : w[j].action \notin t.forbidden
          /\ Len(w) <= t.maxWrites

\* A bundle keeps to its limits, but for a first item that alone exceeds the budget,
\* holds no item twice, though two rankings list it, and leaves nothing out that would
\* still have fitted, unless there are more items than a ranking considers.
BundleIsFull ==
  LET tokens == FoldLeft(LAMBDA n, x : n + x.cost, 0, bundle)
  IN  pc = "sandbox" =>
        /\ Len(bundle) <= TopK
        /\ \A i, j \in DOMAIN bundle : bundle[i] = bundle[j] => i = j
        /\ tokens <= TokenBudget \/ Len(bundle) = 1
        /\ \/ Len(bundle) = TopK \/ Cardinality(index) > CandidateK
           \/ \A x \in index \ ToSet(bundle) : tokens + x.cost > TokenBudget

\* Where nothing was retrieved, the two conditions of a task come out the same, write by
\* write and score by score, also while the workspace is still changing and when calls
\* are made to fail: a delta is the memory's.
NoMemoryNoDelta ==
  llm = "stub" =>
    \A k \in DOMAIN report :
      Len(report[k]) = 2 /\ report[k][2].claims = <<>> => report[k][1] = report[k][2]

=============================================================================
