---------------------------- MODULE TraceIngest ----------------------------
(***************************************************************************)
(* Trace capture: the hook processes of the agent's sessions, which log    *)
(* each event and at the end of a turn build a run, from the transcript if *)
(* there is one and from the hook log otherwise, and store it; and the     *)
(* operator's import of a transcript.  TrajectoryIngestor.ingest runs in   *)
(* autocommitted queries and two transactions, so what a process has read  *)
(* may be stale when it deletes or inserts.                                *)
(*                                                                         *)
(* A span's id hashes its kind, name, input and start; whatever the hash   *)
(* tells apart beside the kind is the span's seed.  An event the hook logs *)
(* is stamped on receipt, so <<session, position>> is its seed.  A run is  *)
(* the set of its spans' ids and the length of its list of spans, which    *)
(* differ when ids collide.  A span's row stands for its app references,   *)
(* written and deleted with it.                                            *)
(***************************************************************************)
EXTENDS Integers, Sequences, FiniteSets

CONSTANTS
  Sessions,     \* the agent's sessions; a session is the group id of its runs
  Ungrouped,    \* the trace of every transcript imported without a group id
  Finalizers,   \* processes that ingest
  Seeds,        \* what tells blocks of the transcripts apart
  RootSeed,     \* the root span's, the same in every run
  Calls,        \* tool_use ids
  Scripts,      \* bound: what the agents write in their transcripts
  HookEvents,   \* the events the hook is called for in the middle of a turn
  Imports,      \* bound: which session's transcript is imported as which trace
  MaxEvents,    \* bound on the events of each session
  MaxFailures,  \* bound on the failures of a behaviour
  NoRun         \* doc[t] while no run is stored for t

Blocks ==
  [kind : {"user", "assistant", "tool_use", "tool_result", "other"}, seed : Seeds, call : Calls]

Traces == Sessions \cup {Ungrouped}

ASSUME UngroupedAssumption == Ungrouped \notin Sessions

ASSUME BoundsAssumption == MaxEvents \in [Sessions -> Nat] /\ MaxFailures \in Nat

ASSUME ScriptsAssumption == Scripts \subseteq Seq(Blocks)

SpanKinds == {"AGENT", "USER", "LLM", "TOOL"}

HookSeeds == Sessions \X (Nat \ {0})

SpanIds == [kind : SpanKinds, seed : Seeds \cup {RootSeed} \cup HookSeeds, salt : Nat]

\* What a transcript says is never what the hook was told at an instant of its own.
ASSUME SeedsAssumption == \A seed \in Seeds \cup {RootSeed} : seed \notin HookSeeds

Runs == [spans : SUBSET SpanIds, len : Nat]

ASSUME NoRunAssumption == NoRun \notin Runs

VARIABLES
  log,          \* log[s]: the capture log of session s, the names of its events
  transcript,   \* transcript[s]: the blocks of s's transcript
  doc,          \* doc[t]: the run whose row and document are stored for trace t
  rows,         \* rows[t]: the spans with a row under trace t
  pc,           \* pc[p]: where p stands in ingest
  trace,        \* trace[p]: the trace of the run p ingests
  mine,         \* mine[p]: the run p ingests
  best,         \* history: the length of the longest run ever stored for a trace
  excused,      \* history: traces ingest cannot compare with what it stored
  failures      \* failures so far

fileVars   == <<log, transcript>>
storeVars  == <<doc, rows>>
ghostVars  == <<best, excused, failures>>
traceVars  == <<fileVars, storeVars, pc, trace, mine, ghostVars>>

-----------------------------------------------------------------------------
\* Runs.

Root == [kind |-> "AGENT", seed |-> RootSeed, salt |-> 0]

Pos(q) == 1 .. Len(q)

SpanKind(name) ==
  CASE name \in {"user", "UserPromptSubmit"}   -> "USER"
    [] name = "assistant"                      -> "LLM"
    [] name \in {"tool_use", "PostToolUse"}    -> "TOOL"

Captured(events) == {i \in Pos(events) : events[i] \in {"UserPromptSubmit", "PostToolUse"}}

\* build_run_from_hook_log.
FromHookLog(s, events) ==
  [spans |-> {Root} \cup
             {[kind |-> SpanKind(events[i]), seed |-> <<s, i>>, salt |-> 0] : i \in Captured(events)},
   len   |-> 1 + Cardinality(Captured(events))]

Shown(blocks) == {i \in Pos(blocks) : blocks[i].kind \in {"user", "assistant", "tool_use"}}

\* A span of the same id has been added before block i's: add_span salts block i's.
Collides(blocks, i) ==
  \E j \in Shown(blocks) :
    j < i /\ blocks[j].kind = blocks[i].kind /\ blocks[j].seed = blocks[i].seed

\* A tool_result finds block i's call pending and replaces its span.
Answered(blocks, i) ==
  /\ blocks[i].kind = "tool_use"
  /\ \E j \in Pos(blocks) :
       /\ j > i
       /\ blocks[j].kind = "tool_result"
       /\ blocks[j].call = blocks[i].call
       /\ \A k \in i + 1 .. j - 1 :
            ~ (blocks[k].kind = "tool_use" /\ blocks[k].call = blocks[i].call)

\* The replacement is a new span, which does not pass through add_span.
SpanOf(blocks, i) ==
  [kind |-> SpanKind(blocks[i].kind),
   seed |-> blocks[i].seed,
   salt |-> IF Collides(blocks, i) /\ ~ Answered(blocks, i)
            THEN 1 + Cardinality({j \in Shown(blocks) : j < i})
            ELSE 0]

\* from_claude_code_session.
FromTranscript(blocks) ==
  [spans |-> {Root} \cup {SpanOf(blocks, i) : i \in Shown(blocks)},
   len   |-> 1 + Cardinality(Shown(blocks))]

HasContent(run) == run.len > 1

-----------------------------------------------------------------------------
Stored(t) == doc[t] # NoRun
Busy(p)   == pc[p] # "idle"

\* Two processes ingest runs of one trace at once: what either reads may be stale.
Overlapping(p, t) == \E q \in Finalizers \ {p} : Busy(q) /\ trace[q] = t

TraceInit ==
  /\ log = [s \in Sessions |-> <<>>]
  /\ transcript = [s \in Sessions |-> <<>>]
  /\ doc = [t \in Traces |-> NoRun]
  /\ rows = [t \in Traces |-> {}]
  /\ pc = [p \in Finalizers |-> "idle"]
  /\ trace = [p \in Finalizers |-> Ungrouped]
  /\ mine = [p \in Finalizers |-> [spans |-> {}, len |-> 0]]
  /\ best = [t \in Traces |-> 0]
  /\ excused = {}
  /\ failures = 0

\* The agent appends a block to its transcript.
WriteBlock(s) ==
  \E script \in Scripts :
    LET n == Len(transcript[s])
    IN  /\ n < Len(script)
        /\ transcript[s] = SubSeq(script, 1, n)
        /\ transcript' = [transcript EXCEPT ![s] = Append(@, script[n + 1])]
        /\ UNCHANGED <<log, storeVars, pc, trace, mine, ghostVars>>

\* handle, for an event in the middle of a turn: the hook appends a line.
Capture(s) ==
  /\ Len(log[s]) < MaxEvents[s]
  /\ \E event \in HookEvents : log' = [log EXCEPT ![s] = Append(@, event)]
  /\ UNCHANGED <<transcript, storeVars, pc, trace, mine, ghostVars>>

\* ingest is called.
Ingest(p, t, run) ==
  /\ pc' = [pc EXCEPT ![p] = "look"]
  /\ trace' = [trace EXCEPT ![p] = t]
  /\ mine' = [mine EXCEPT ![p] = run]
  /\ excused' = IF Overlapping(p, t) THEN excused \cup {t} ELSE excused
  /\ UNCHANGED <<storeVars, best, failures>>

\* ingest returns, raises or dies with its process.
Done(p) ==
  /\ pc' = [pc EXCEPT ![p] = "idle"]
  /\ trace' = [trace EXCEPT ![p] = Ungrouped]
  /\ mine' = [mine EXCEPT ![p] = [spans |-> {}, len |-> 0]]

\* handle, for Stop and SessionEnd: the event is logged as well, then the run is
\* built.  A transcript path that names a file is preferred even if nothing in
\* the file is understood, and a run without content is not ingested.
Finalize(p, s) ==
  /\ ~ Busy(p)
  /\ Len(log[s]) < MaxEvents[s]
  /\ log' = [log EXCEPT ![s] = Append(@, "Stop")]
  /\ \E run \in {FromTranscript(transcript[s]), FromHookLog(s, log[s])} :
       IF HasContent(run)
       THEN Ingest(p, s, run)
       ELSE UNCHANGED <<storeVars, pc, trace, mine, ghostVars>>
  /\ UNCHANGED transcript

\* omb trace ingest, with the session's group id or without one.
Import(p, s) ==
  /\ ~ Busy(p)
  /\ transcript[s] # <<>>
  /\ \E t \in {s, Ungrouped} :
       <<s, t>> \in Imports /\ Ingest(p, t, FromTranscript(transcript[s]))
  /\ UNCHANGED fileVars

\* SELECT trace_id: is a run stored for the trace?
LookUp(p) ==
  /\ pc[p] = "look"
  /\ pc' = [pc EXCEPT ![p] = IF Stored(trace[p]) THEN "count" ELSE "insert"]
  /\ UNCHANGED <<fileVars, storeVars, trace, mine, ghostVars>>

\* SELECT COUNT(*): the run is no longer than the rows stored for the trace.
KeepStored(p) ==
  /\ pc[p] = "count"
  /\ mine[p].len <= Cardinality(rows[trace[p]])
  /\ Done(p)
  /\ UNCHANGED <<fileVars, storeVars, ghostVars>>

\* Mutant: a run as long as the stored one, less one, counts as richer.
FindRicherOrLess(p) ==
  /\ pc[p] = "count"
  /\ mine[p].len + 1 > Cardinality(rows[trace[p]])
  /\ pc' = [pc EXCEPT ![p] = "delete"]
  /\ UNCHANGED <<fileVars, storeVars, trace, mine, ghostVars>>

FindRicher(p) ==
  /\ pc[p] = "count"
  /\ mine[p].len > Cardinality(rows[trace[p]])
  /\ pc' = [pc EXCEPT ![p] = "delete"]
  /\ UNCHANGED <<fileVars, storeVars, trace, mine, ghostVars>>

\* Mutant: only the run's row is deleted.
DeleteRunOnly(p) ==
  /\ pc[p] = "delete"
  /\ doc' = [doc EXCEPT ![trace[p]] = NoRun]
  /\ pc' = [pc EXCEPT ![p] = "insert"]
  /\ UNCHANGED <<fileVars, rows, trace, mine, ghostVars>>

\* Mutant: ingest returns after the deletion.
DeleteAndReturn(p) ==
  /\ pc[p] = "delete"
  /\ doc' = [doc EXCEPT ![trace[p]] = NoRun]
  /\ rows' = [rows EXCEPT ![trace[p]] = {}]
  /\ Done(p)
  /\ UNCHANGED <<fileVars, ghostVars>>

\* _delete_run, the first transaction: whatever is stored for the trace by now.
DeleteRun(p) ==
  /\ pc[p] = "delete"
  /\ doc' = [doc EXCEPT ![trace[p]] = NoRun]
  /\ rows' = [rows EXCEPT ![trace[p]] = {}]
  /\ pc' = [pc EXCEPT ![p] = "insert"]
  /\ UNCHANGED <<fileVars, trace, mine, ghostVars>>

\* Mutant: every span is inserted.
NewToEvery(run) == run.spans

\* Mutant: a span gets no row if another stored run has the span, row or not.
NewToDocuments(run) ==
  {x \in run.spans : \A t \in Traces : Stored(t) => x \notin doc[t].spans}

\* _persist_span passes over a span that has a row, under whatever trace.
NewSpans(run) == {x \in run.spans : \A t \in Traces : x \notin rows[t]}

\* The second transaction: the run, its spans and its document.
InsertRun(p) ==
  LET t == trace[p]
  IN  /\ pc[p] = "insert"
      /\ ~ Stored(t)
      /\ doc' = [doc EXCEPT ![t] = mine[p]]
      /\ rows' = [rows EXCEPT ![t] = @ \cup NewSpans(mine[p])]
      /\ best' = [best EXCEPT ![t] = IF mine[p].len > @ THEN mine[p].len ELSE @]
      /\ excused' = IF mine[p].len > Cardinality(rows'[t]) + 1 THEN excused \cup {t} ELSE excused
      /\ Done(p)
      /\ UNCHANGED <<fileVars, failures>>

\* The run's row is there already, another process's: the insert violates the
\* primary key, the transaction is rolled back and ingest raises.
InsertConflict(p) ==
  /\ pc[p] = "insert"
  /\ Stored(trace[p])
  /\ Done(p)
  /\ UNCHANGED <<fileVars, storeVars, ghostVars>>

\* The process is killed or a statement raises, the database being locked: what
\* its open transaction did is rolled back, what it committed stays.
Fail(p) ==
  /\ Busy(p)
  /\ failures < MaxFailures
  /\ failures' = failures + 1
  /\ excused' = excused \cup {trace[p]}
  /\ Done(p)
  /\ UNCHANGED <<fileVars, storeVars, best>>

IngestStep(p) ==
  \/ LookUp(p)
  \/ KeepStored(p)
  \/ FindRicher(p)
  \/ DeleteRun(p)
  \/ InsertRun(p)
  \/ InsertConflict(p)

TraceNext ==
  \/ \E s \in Sessions : WriteBlock(s) \/ Capture(s)
  \/ \E p \in Finalizers :
       \/ \E s \in Sessions : Finalize(p, s) \/ Import(p, s)
       \/ IngestStep(p)
       \/ Fail(p)

TraceSpec == TraceInit /\ [][TraceNext]_traceVars

\* A process that ingests runs on until it returns, raises or is killed.
FairTraceSpec == TraceSpec /\ \A p \in Finalizers : WF_traceVars(IngestStep(p))

-----------------------------------------------------------------------------
\* Every reachable state is well typed, and a span's id is a primary key: it has a
\* row under one trace at most.
TraceTypeOK ==
  /\ log \in [Sessions -> Seq(HookEvents \cup {"Stop"})]
  /\ transcript \in [Sessions -> Seq(Blocks)]
  /\ doc \in [Traces -> {NoRun} \cup Runs]
  /\ rows \in [Traces -> SUBSET SpanIds]
  /\ \A t, u \in Traces : t # u => rows[t] \cap rows[u] = {}
  /\ pc \in [Finalizers -> {"idle", "look", "count", "delete", "insert"}]
  /\ trace \in [Finalizers -> Traces]
  /\ mine \in [Finalizers -> Runs]
  /\ best \in [Traces -> Nat]
  /\ excused \subseteq Traces
  /\ failures \in 0 .. MaxFailures

\* The span rows, the index from agent behaviour to what it touched, are those of
\* the document that is stored and never those of a run it replaced; and no span
\* the hook stamped, which no other trace can have, goes without its row.
IndexMatchesDocument ==
  \A t \in Traces :
    IF Stored(t)
    THEN /\ rows[t] \subseteq doc[t].spans
         /\ \A x \in doc[t].spans \ rows[t] : x.seed \notin HookSeeds
    ELSE rows[t] = {}

\* The root, which all runs share and one trace holds the row of, is missing from
\* the index only while that trace is replaced, or after a failure in between.
RootIndexed ==
  (\E t \in Traces : Stored(t)) /\ failures = 0 =>
    \/ \E t \in Traces : Root \in rows[t]
    \/ \E p \in Finalizers : pc[p] = "insert" /\ ~ Stored(trace[p])

\* A trace that has been stored is missing only while some process replaces it, or
\* after a failure between the deletion and the insertion.
LostOnlyInReplacement ==
  \A t \in Traces :
    best[t] > 0 /\ ~ Stored(t) /\ failures = 0 =>
      \E p \in Finalizers : pc[p] = "insert" /\ trace[p] = t

\* ingest's docstring, that the richer run wins whichever comes first, for a trace
\* ingested by one process at a time without failing, whose rows lack at most one
\* of its document's spans: the document stored is the longest there has been.
RicherWins ==
  \A t \in Traces \ excused : Stored(t) => doc[t].len >= best[t]

\* add_span's docstring, of spans that share the same shape: they are salted "so
\* both are retained".  The spans of a transcript keep ids of their own.
CollidingSpansRetained ==
  \A s \in Sessions :
    LET run == FromTranscript(transcript[s])
    IN  Cardinality(run.spans) = run.len

\* Whatever is ingested leaves a run stored for its trace, unless something fails.
EventuallyIngested ==
  \A t \in Traces :
    (\E p \in Finalizers : Busy(p) /\ trace[p] = t) ~> (Stored(t) \/ failures > 0)

=============================================================================
