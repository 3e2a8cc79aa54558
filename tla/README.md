# A verification development for ombench

ombench keeps a bitemporal log of what happened in a user's applications, takes
snapshots of it, and evaluates agents against the past it holds.  What makes it
useful is a handful of promises: the log is append-only and idempotent, a view "as
of tau" can be repeated, a sync never skips a change, a snapshot is what the log
says.  The code keeps them with little machinery: an autocommitting SQLite
connection, a directory of content-addressed blobs and a resume token per stream,
shared by several processes that may die.  These modules model that machinery as
it is written, TLC explores it on small instances, and TLAPS proves the main
results for every instance.

Paths below are relative to `src/src/ombench/`.

## 1. Inventory

| Component | State | Operations | Made correct by |
|---|---|---|---|
| Event log: `events/store.py`, `events/schema.py` | `app_events` rows, keyed by the hash of an event's content; `seq` | `append`, `append_many`, `iter_events`, `get_payload` | one row per event, rows never dangle, `seq` has no gap, a settled view changes only when somebody goes back behind it |
| Fold: `events/store.py` `materialize`, `_apply`; `events/queries.py` | none (a fold of a query) | `materialize`, `materialize_entity`, `entity_history`, `timeline` | every part of an entity is what the last write made it |
| Event algebra: `events/algebra.py` | none | constructors of events | inverse and merge laws |
| Blob store: `storage/blobstore.py` | files named by digest, temporary files | `put_bytes`, `put_json`, `get_*`, `exists`, `verify_all` | a name shows all its bytes or is absent |
| Relational backends: `storage/*_backend.py` | connection, transaction flag | `execute`, `insert`, `transaction` | autocommit per statement; a transaction is all or nothing |
| Integration driver: `integrations/base.py` | a clock given when it is built, one timestamp per pass | `run_sync` | every event of a pass carries the pass's timestamp |
| Calendar sync: `integrations/gcal/` | sync token in `sync_cursors` | `sync`, `force_resync`, `_load_live` | the token never runs ahead of the log; recovery from a 410 |
| Slack, Docs/Drive, Gmail syncs | cursors in `sync_cursors`, written and never read | a pass over the whole source | the fold shows what the last pass read; a cursor means a whole pass |
| Registry and worker: `integrations/registry.py`, `apps/worker/`, `cli/synccmds.py` | none | `run_once`, `run_forever`, `omb sync run` | a failing application harms none before it, and none for ever |
| Snapshots: `snapshots/`, `cli/saasgit.py` | state and manifest blobs, `snapshot_manifests`, `_snapshot_state` rows | `materialize`, `_persist`, `load_state`, `get_manifest`, `diff_snapshots` | nothing listed dangles; reproducible; a diff shows what happened |
| Traces: `traces/` | capture files, `trace_runs`, `trace_spans` | hook, `ingest`, redaction, export | a trace is stored whole, once, and not lost by re-ingestion |
| Memory: `memory/` store, compiler, resolver, bootstrap | `memory_items` with an active flag, `memory_edges`, knowledge base documents | `omb memory compile`, `bootstrap`, the curated seed; `add`, `resolve_all`, `_write_kb` | nothing believed is lost; what is set aside was beaten; what stands does not contradict itself |
| Retrieval: `memory/retriever.py`, `router.py`, `budget.py` | an index in memory | `reindex`, `retrieve`, `_pack`, `optimize` | the budget is kept and used |
| Replay: `replay/` | a sandbox's state and its list of writes, fault counters | tools, fault injection, validators | the two conditions of a task start alike; a write is recorded if and only if it was made |
| Agent and model clients: `llm/` | a transcript | tool loop with a step limit, `StubLLM`, `AnthropicLLM` | it ends; the stub is a function of what it is shown |
| Evaluation: `eval/` | a report | `_seed_state`, both conditions, `score`, statistics, miner | a task can be repeated; a score means what it says; a delta is the memory's |
| Views: `viz/` | a table of approvals | timelines, memory diff, provenance, counterfactuals, review | they show what they view |
| Configuration, identifiers, time, CLI | none of their own | hashing, formatting, commands | stable hashes |

How they interact.  A process runs a *pass*: `run_sync` takes a timestamp, an argument's
or that of its integration's clock, pulls events from the integration's generator and
calls `append` on each; while `append`
runs the generator is suspended, so a token stored after the last `yield` of a batch
is stored after that batch's last row.  `append` calls the blob store twice and the
backend three times, each an autocommitted step of its own.  Several processes (the
worker, `omb sync`, a demo, an `omb saasgit` command) share the database file and
the blob directory with no lock among them.  The worker and `omb sync` go by the wall
clock; `omb demo`, `omb viz dashboard` and `run_backtest` sync fixtures into the same
store with a clock frozen at one day of May 2026, and `append_many` writes whatever
`ingested_at` its caller put into the events.  So rows also arrive *behind* instants
that have long passed.  A reader runs one `SELECT` and folds the
rows it returned.  A checkout stores what it folded with four more statements.  A compile
reads trajectories and the fold, adds items one statement at a time, sweeps over all items
for contradictions, reads them again and writes documents.  A backtest reads the fold once
per entity and the active items once, then runs an agent twice per task on copies.

What is hard: two processes between any two statements of `append`; a process that
dies between two of them; `MAX(seq)` read in one statement and used in another; a
timestamp taken long before the rows it stamps, or from a clock that stands still; tokens read, cleared and overtaken
while a sync runs; temporary files named after their content; a snapshot persisted
in four steps; a diff made of two queries while rows keep arriving; a trace deleted
in one transaction and inserted in the next; sweeps that set flags from rows they read
long ago, beside each other; a benchmark seeded while syncs append.  PROJECT.json
lists each under "hazards" at its line, with the properties that would notice it
going wrong.

## 2. Modules

```
            BitemporalLog  <----------------- Snapshot        (EXTENDS: takers beside the log)
                 ^----------------------------Backtest        (EXTENDS: a benchmark beside it)
                 |
                 |  refines (proved and checked)
             EventLog      <----------------- CalendarSync    (EXTENDS: syncs drive the log)
                 ^----------------------------WorkspaceSync   (EXTENDS: the worker's cycles)
                                              CalendarLive    (the 410 path, on its own)
             BlobStore                        (one put taken apart)
             TraceIngest                      (hooks and ingestion, tables of their own)
             Memory        <----------------- Mining          (EXTENDS: what is read off it)
             Snapshot      <----------------- Views           (EXTENDS: time travel)
  Policy, Judging, Retrieval  <-------------- Backtest  <---- Counterfactual   (EXTENDS)
             Judging       <----------------- Statistics      (EXTENDS)
             Budget                           (the budget optimizer)
```

**BitemporalLog** is what the event store promises: rows `[event, stamp, seq]` that
only accumulate, passes that are open with a stamp, a wall clock.  It has no blobs and no
program counters.  A pass opens at the wall clock's instant or at any of `Given`, the
instants at which frozen clocks stand or that callers pass; a bulk load is a sequence of
`[event, at]`, with the `ingested_at` each event came with.  Its one property,
`SettledIsFinal`, says how far backtests are reproducible: once the wall clock is past tau
and no pass stamped at or before tau is open, the rows as of tau stay the same through
every step except one that `Rewrites` them, that is, a pass that begins at or before tau
or a bulk load dated so.

**EventLog** is `EventStore` as written.  `pc[w]` is the line a process is at.

| Code | Action |
|---|---|
| `run_sync` takes `ts`, from its argument or its clock / generator yields / returns | `BeginPass`, at `now` or an instant of `Given` / `Emit` / `EndPass` |
| `append`: `_exists` and early return | `CheckExists` |
| two `put_json` calls, skipped for an empty dict | `PutPayload`, `PutProvenance` |
| `COALESCE(MAX(seq),0)` | `ReadLastSeq` |
| `insert`, commit | `Insert`; the primary key refusing it, `InsertConflict` (ends the pass) |
| `append_many`, committed or rolled back | `AppendMany`, each row with its event's own `at`; `RollBackMany` (blobs stay) |
| process killed, or an exception such as "database is locked" | `Crash` |

An event is its identity (`AppEvent._identity`, which excludes `ingested_at`), and a
blob its content.

**CalendarSync** extends EventLog: `GCalSync.sync` over published batches, with
`ReadCursor`, `YieldEvent`, `SaveCursor`, `FinishSync`, `ForceResync` and
`CrashSync`.  `Emission` is `_emit_event`.  Processes in `Writers \ Syncers` are other
integrations writing to the same log.

**WorkspaceSync** extends EventLog with the other syncs and the loop that runs them.
They have one shape: read the whole document, append every event of it, store a
cursor that nothing reads.  What a pass appends is a pure function of the document and
the pass's timestamp, `Emission`, with one operator per generator; `Documents[a]` are
the documents a source shows in the course of time.

| Code | Action |
|---|---|
| `build_integration`, `_load`, `run_sync` takes `ts` / one of them raises | `StartPass` / `LoadFails` |
| the generator's next `yield`, up to its suspension in `append` | `YieldEvent`, then EventLog's steps in `AppendYielded` |
| `set_cursor`, the generator returns, `run_once` goes on to the next name | `FinishPass` |
| the primary key refuses the row and `run_once` ends | `AppendConflict` |
| any other exception, or a kill, between any two statements | `Fail` |

`Plan[w]` is `DEFAULT_APPS` for a worker and for `omb sync run all`, one application for
`omb sync run <app>`.  The calendar's pass is empty here, since CalendarSync has it; what
remains is that its source may fail and end the cycle.

**CalendarLive** models only the recursion of `_load_live` → `force_resync` →
`calendar_id` → `_load_live` on a 410.

**BlobStore** takes `put_bytes` apart: existence check, open (which truncates), write
calls, close, rename.  Names point at inodes, so two processes that open one
temporary file share an inode, as on a POSIX file system.

**Snapshot** extends BitemporalLog with processes that materialize: `RunQuery` (one
`SELECT`), `FoldRow` (one turn of the loop), then `PutState`, `PutManifest`,
`InsertManifest`, `InsertMapping` for a checkout, or a second query and `Report` for a
diff.  `Apply` is `_apply`, case by case; `View` is the `WHERE` clause, `Precedes` the
`ORDER BY`; among rows that tie, any may come first.  It stands on the abstract log
because a reader sees only rows; that EventLog implements that log is proved, so what
holds here holds over the detailed one.

**TraceIngest** is trace capture.  Claude Code calls the hook as a process of its own
for each event; `Capture` appends to the session's log, and `Finalize` (Stop,
SessionEnd) builds a run from the transcript or from the log and calls `ingest`, as
`omb trace ingest` does.  `ingest` is taken apart where other processes can come between:

| Code | Action |
|---|---|
| `SELECT trace_id` | `LookUp` |
| `SELECT COUNT(*)`, not longer / longer than the rows | `KeepStored` / `FindRicher` |
| `_delete_run`'s transaction | `DeleteRun` |
| the second transaction, committed / refused by the run's primary key | `InsertRun` / `InsertConflict` |
| hook killed, or "database is locked" | `Fail` |

A span id hashes the span's content and no session or trace, so runs share spans: the
root always, anything untimed that is said twice.  `_persist_span` stores a span once,
under the first trace that has it.  `FromTranscript` gives the converter's result in
closed form: which blocks yield a span, which of them `add_span` salts, and which are
replaced by an unsalted span when their result comes.  All imports without a group id
have one trace, `Ungrouped`, because the trace id is derived before the start time is
set.

**Memory** is the store and the three commands that fill it, as processes over one
database.  A claim is its content words and a polarity; extraction, scoring and promotion
are functions (`FromTrajectory`, `Repeated`, `FromAppState`, `Score`, `Promoted`, `Facts`),
and every statement that commits is an action.

| Code | Action |
|---|---|
| `compile_cmd`, `bootstrap_cmd`, `load_memory_seed` | `Compile`, `Bootstrap` (then `CompileAfterFacts`), `LoadSeed` (then `SeedLoaded`) |
| `add`: the lookup and early return / the insert / the primary key refusing it | `CheckItem` / `InsertItem` / `InsertConflict` |
| `resolve_all` reads all items; its loops reach the next pair | `ReadItems`; `NextPair` inside `Supersede` |
| `resolve_pair`: edge, edge, loser off, winner on | `Supersede`, `Contradict`, `Deactivate`, `Reactivate` |
| `_write_kb` reads the active items; writes one document | `ListActive`; `WriteDocument` |
| process killed | `Die` |

**Backtest** is the paired runner beside the abstract log, of which every step may come
between any two of its own (`LogStep`): passes of any process by any clock, including the
frozen one that `run_backtest` itself and the demo sync with, and bulk loads.  Rows have
the log's sequence numbers, which may repeat; a task has a valid and an ingestion instant,
and a query returns the rows up to both in the order of `valid_at` and `seq`.  `Names` and
`Tombstones` are what the fold may make of a channel: one value, unless the last rows tie,
and then each query may return them in an order of its own.  `BuildRunner`
indexes memory, `ListEntities` and `ReadPayload` seed the workspace query by query, one
for the snapshot and one per entity,
`Retrieve` fuses, reranks and packs (**Retrieval**), `OpenSandbox` starts a condition,
`Respond` is one turn of the agent with all its tool calls, `OutOfSteps` the step limit,
`Judged` scores (**Judging**) and goes to the other condition or the next task, `ClientFails` is a
live client that raises.  **Policy** is the stub's decision and what a tool call
writes.  The lexical and dense orders are parameters, a live model may answer anything, and
the fault list of an injector is chosen at the start.

**Statistics** (deltas, win rate, signed ranks, agreement, the summary), **Budget**
(knapsack and greedy), **Views** (entity timelines, activity), **Mining** (task candidates,
memory diff, provenance) and **Counterfactual** (packs head to head) are functions without
state of their own.  The MC modules of the runs they belong to compare them, as
assumptions that TLC evaluates, with reference definitions over all small inputs.

`MC*.tla` give the instances, `*Proofs.tla` the theorems.  Definitions marked
"Mutant" are plausible bugs of one definition of the code; PROJECT.json pairs each
property with one that breaks it.

## 3. What the runs show

| Run | Instance | States | Shows |
|---|---|---|---|
| `event_log` | 2 processes, 3 events (2 of one instant), a bulk load of 2 dated 0 and 1, a frozen clock at 0, wall clock 0..2 | 413,933 | `RowsResolvable`, `SeqGapless`, `SettledViewFrozen`, refinement of BitemporalLog |
| `calendar` | 2 syncing processes and a foreign one, 2 batches, clock 0..1, 1 crash | 168,630 | `CursorCovered`, `HistoryPrefix`, `ReplayOrder`, each step allowed by EventLog; `Delivered`: everything published is logged in the end |
| `calendar_gone` | 2 changes, 1 expiry, stack of 3 | violation | a 410 is never recovered from |
| `blob_store` | 3 processes, 1 content of 2 chunks, 1 death | 71,824 | torn files need two simultaneous writers, and leftovers never block a put |
| `blob_race` | 2 processes | violation | a name can show a truncated file |
| `snapshot` | 1 writer, 1 taker, 6 events of 2 applications in bulk loads dated 1 or partly 0, a frozen clock at 0, wall clock 0..1, 3 blobs | 711,171 | `FoldIsLastWrite`, `PersistedResolvable`, `SteadySnapshotsHold`, `DiffShowsOnlyWindow` |
| `trace_ingest` | 2 processes, a session of 3 events, an ungrouped import, 1 failure | 321,031 | `IndexMatchesDocument`, `RootIndexed`, `LostOnlyInReplacement`, `RicherWins`, `EventuallyIngested` |
| `workspace` | worker and `omb sync run gdocs`, 3 applications, 2 workspaces, clock 0..1, 1 failure | 333,814 | `PassPrefix`, `CursorMeansPass`, `SteadySourceShown`, `TakenIn` |
| `workspace_revert` | a worker, a user renamed and named back | violation | the third profile is never logged and the fold keeps the second |
| `trace_twins` | the same as `trace_ingest`, with a tool called twice over | violation | two answered calls of one shape have one span id |
| `memory` | 2 processes, a run, a message and a seed that contradict one another, clock 0..1 | 858,992 | `LosersAreBeaten`, `SweepTakesSides`, `KbShowsView`, `BeliefsAreKept`; the miner and the memory diff |
| `backtest` | 2 tasks, 3 items, stub or live model, 0 or 1 faults, 1 syncing process, a bulk load of 2 dated 0 and 1, a frozen clock at 0, wall clock 0..1, 2 steps | 1,461,320 | `Reproducible`, `SuccessIsReal`, `BundleIsFull`, `NoMemoryNoDelta`; the statistics, the budget optimizer and the explorer |

### Properties worth a word

- `SettledViewFrozen` is conditional on purpose, and says how far "as of tau" can be
  repeated.  `run_sync` stamps every event with the instant the pass *began*, so while a
  pass stamped at tau runs, a view as of tau still grows.  Once it is settled it can grow
  again only by a step that `BackDated` names: somebody begins a pass with a clock that
  stands at or before tau, or bulk-loads events dated so.  The code allows both at any
  time: a second demo over edited fixtures adds rows as of May 2026 whenever it is run.
  What the property excludes is everything else, the appends under way, crashes,
  conflicts and passes at later instants, in any interleaving.  `ViewsOutOfReachAreFinal`
  draws the conclusion for a store that nobody dates back.
- `ReplayOrder` says that within one calendar `seq` repeats the order of publication
  even though two processes number rows from their own readings of `MAX(seq)`.  Two
  writers may read one `MAX(seq)` and give two rows one number, so `seq` does not order
  all rows, monotonic as the docstring of `events/store.py` calls it; within one calendar the earlier
  event is in the table before the later one is numbered.
- `CursorCovered` and `HistoryPrefix` hold although an old token may overwrite a newer
  one and `force_resync` may clear it under a running sync: tokens go back, never ahead.
- `PassPrefix` says the log consists of beginnings of passes: an event is logged after
  everything its document puts before it, so an author's profile before the message and
  the metadata before the revision, even if half of that was appended by a pass that
  died and half by another process.
- `SteadySourceShown` is what a sync is for: once a pass is through, the newest row of
  every entity is what the pass read.  The code gives no such guarantee in general, and
  the definition says when it does: one process syncs the source (else an older
  document may be appended last, and stays), its changes have times of their own (else
  every pass logs them anew), and no document goes back to content of an earlier one
  without a later time (else that content's event is in the log already and its row stays
  where it is: `workspace_revert`).  Under those it holds wherever passes break off.
- `TakenIn` says exactly how far a failing source harms others: those behind it in the
  worker's order, for as long as it fails.
- `FoldIsLastWrite` compares the operational fold with a declarative reference
  (`IsLastWrite`) at every turn: the payload's fields, the edge sets and the tombstone
  each come from the last row that writes them, in the query's order.  Since the
  reference looks at each entity alone, it also says that `materialize` and
  `materialize_entity` agree.
- `SteadySnapshotsHold` joins the log and the takers: a snapshot taken at a settled
  point still equals the view after any later appends, until one goes back behind the
  point.  The history variables `steady` and `assured` record both conditions; a listed
  snapshot is not corrected when its point is rewritten.
- `DiffShowsOnlyWindow` is about two queries that are not one transaction.  It needs
  both to be settled, nobody to go back behind them in between, and no ties; without any
  of these a diff can name an entity to which nothing happened in the window.
- `RicherWins` says when the docstring of `ingest` holds: "the richer transcript should
  win regardless of which arrives first".  It compares the incoming run's length with
  the number of *rows* stored for the trace, read outside the transactions.  Rows lack
  the spans another trace stored first (the root, for every trace but one), so an equal
  run is stored anew; with one row missing the document never shrinks, with two it can.
  Nor does it hold when two hooks ingest one session at once.  `excused` collects these
  cases, and the theorem says there are no others.
- `LostOnlyInReplacement`, `RootIndexed` and `EventuallyIngested` say what the gap
  between the two transactions costs: without failures a trace, or the shared root, is
  gone for a moment and comes back, whoever else deletes and inserts in between.  A
  process killed in the gap loses the trace until its session is finalized again.
- `LosersAreBeaten` is why the active view can be trusted although sweeps run beside each
  other with rows they read long ago: a claim is inactive only if a stored one contradicts
  it, is at least as strong by the code's rank, and says so by an edge.  So the strongest
  claim on a subject is always active.  That rests on the order of the statements: edges come before
  the flag, and no statement ever deactivates a claim for a weaker one.
- `SweepTakesSides` is the converse, and needs a sweep that nobody disturbed: `resolve_all`
  does not look at the active flags, so every sweep resolves all old contradictions anew,
  on the way reactivates winners that an earlier sweep set aside, and ends with none left.
- `KbShowsView` covers documents the compile did not write: none goes stale, because a
  document's claims are never all inactive.
- `Reproducible` speaks of a task whose ingestion instant was settled when it was seeded,
  and behind which nobody has gone back since (`steady`), with the stub and no faults: what
  is scored in both conditions is one call of the stub each on one and the same workspace
  of the instants, however many queries seeded it and whatever was logged between them.
  Where rows of a channel tie, the workspace is one of several (`Workspaces`), as in the
  code; otherwise there is one.  Without the condition a run is seeded by several queries
  between which a sync may write, and the result may be of no instant at all.
- `NoMemoryNoDelta` is the benchmark's control: where nothing is retrieved the two
  conditions are equal write by write and score by score, with faults and syncs too.
- `BundleIsFull` spans three steps, fusion of two rankings that both may list an item,
  reranking, and packing with its oversized first item: the bundle keeps its limits, holds
  nothing twice, and wastes no room.
- `SuccessIsReal` compares the judge, which averages validators it selects by name, with
  what a success is: every expected write made, none forbidden, no more than allowed.

### Bounds, and why they are enough

Two processes suffice for every race the code has, since each step reads and writes
shared tables only; a third is added where a bystander could interfere.  Three events
give a tie (two of one instant) and a bystander; the bulk load overlaps the events
processes append, so it races with them.  Clock 0..2 gives a pass stamped before,
at and after an observed instant.  A frozen clock at 0 (`Given = {0}`) is in the past once
the wall clock has moved, and one instant suffices, since a property of settled views tells
only at or before tau from after it; the bulk loads bring rows of two instants, so that one
load is behind tau in part.  In `calendar` and `workspace`, `Given` is empty: those
processes are the worker and `omb sync run`, which go by the wall clock, and the theorems
about them hold for any `Given`.  Two calendar batches give a token to go back to, a
token to overtake with, a resource sent twice and a deletion.  One crash can fall
between any two steps, and after it the process runs again; the proofs need no bound on
crashes.  Two chunks distinguish an empty, a partial and a whole file.
`RecursionLimit = 3` stands for the interpreter's 1000: the counterexample does not
depend on it.  In `snapshot` the sync appends a
deletion, with any number up to the next, so before, after or tied with the
re-creation of the same instant; the other five events (creation, an attendee who
comes and goes, the re-creation, another application's message) arrive in one bulk
load, dated 1 or in part 0, which keeps the log's own interleavings out of a run that is
about the taker.
`MaxDocs = 3` lets two checkouts run to the end, of one point or of two, and one that
died be taken again.
In `workspace` the first workspace has a user only; the second renames him, and has a
channel, which moves the anchor of users, and a message.  Sources fail until they are
published, so each can starve those behind it, and the last one, live Gmail, always
does; the document has no time, so each instant's pass logs it anew, and the worker and
the command race for its event.  The calendar is left out of the worker's list, as the
registry allows.  The violation's sources have a member, a reaction, an edit, revisions
and a mail besides.
In `trace_ingest` the session's three events leave room for two finalizations, which
may overlap and use either source, and a tool call in between; the imported transcript
may tell the same, so that both traces share two spans, or something else, so that they
share the root.  `Scripts`, `Imports` and `MaxEvents` bound what sessions write and when
they are ingested.
In `memory` two negations contradict one norm and not each other, the smallest case in
which the order of the pairs matters; the seed is as sure as the run, so that recency
decides, and the clock's tick puts either first.  Two compilers overlap anywhere in
a sweep.  In `backtest` one task lies at an instant that may not have passed, three items do
not fit into one bundle in any order, a channel may be renamed or deleted while its entity is
being read, by a new row or one dated back, its two names have one valid time, so that
numbers decide or tie, the live model makes two calls at once, and a fault may take the
first of them; two orders of the items, cut anywhere, stand for the rankers.
In `calendar` the action constraint `ClockMovesBetweenBatches` lets the clock move once,
between the two batches, while no process is in a pass, and `ForeignPassesFirst` lets the
other application's process run beside the syncs of the first batch only.  Neither holds back a
step of a syncing process, so the fairness assumed is untouched.  A clock that moves anywhere
multiplies the states by twenty and is left to `event_log`, whose clock is free.
`MaxTime`, `MaxCrashes`, `MaxDocs`, `MaxChanges`, `MaxExpiries`, `MaxEvents` and
`MaxFailures` are the only counters capped by guards; `MaxSteps` is the code's own limit.

Deadlock is not checked where the bounded system stops: when the clock has reached
`MaxTime` and nothing is left to log, or no crash or checkout is left, or a session has ended.

### Fairness

- `WorkerFairness`: weak fairness of each syncing process's own steps.
  `run_forever` starts cycle after cycle and catches whatever a cycle raises.  Crashes,
  `ForceResync`, `Publish` and the clock have no fairness.  `ForceResync` stays enabled
  for ever: `Delivered` does not depend on it stopping.
- `FairWsSpec`: weak fairness of the workers' steps, by the same loop; commands, which
  someone must run, have none, nor have sources and exceptions.
- `Retries` (BlobStore): a put continues while its process lives, and a process that
  wants a content stored asks again, which a sync that failed does in its next cycle.
- `LiveSpec`: weak fairness of the worker, for the same reason; the calendar's edits
  and expiries are not fair.
- `FairTraceSpec`: weak fairness of each process's steps inside `ingest`; a hook is a
  process that runs on until it returns or is killed.  Sessions owe nothing: no hook
  need ever be called again.

### Findings

1. `integrations/gcal/sync.py:169`: the 410 handler clears the token only after a call
   that needs the token cleared.  It recurses until `RecursionError`, in every cycle.
2. `storage/blobstore.py:85`: the temporary name is a function of the digest, so two
   writers of one content share it and the rename is not atomic for them.
3. `traces/converters.py:155`: the span that replaces a tool call's when its result
   comes does not pass through `add_span`, so it loses the salt that told it from an
   earlier call of the same shape, and one of the two is not stored.
4. `integrations/slack/sync.py:73`: all versions of a profile are valid at one fixed
   anchor, so one that is changed and changed back is taken for the event logged first
   and the fold keeps what came in between.

## 4. What is proved

For every number of processes, events, batches, blobs and takers; the assumptions are
the ASSUMEs of the modules, which TLC evaluates in the runs: the clock's and the
crashes' bounds and the instants of frozen clocks and bulk loads are naturals, an event is determined by its identity, bulk loads have
no repetition, syncing processes are writers, every resource has a time, batches are
sequences of events, a content has a chunk, points are instants, an edge has a kind
and an endpoint, transcripts are sequences of blocks, what the hook stamped on
receipt is not what a transcript says, plans are not empty, passes are sequences of
events, valid times are integers, an entity belongs to one application, extraction and
the seed yield sequences of items, ids are ordered by distinct numbers, the agent has a
step, and tasks have instants; in `ItemsAssumption`, that a ranker lists each indexed
item once (the index is a list of items with distinct ids, and both rankers sort it) and
that an item costs at least a token (`max(1, ...)` in `_pack`); in `TasksAssumption`,
that cues are counted by naturals and that no expected write is described by one of the two
names the judge drops, as none of the benchmark's is (a write so described would not be
asked for); in `ResponsesAssumption`, that an answer is a sequence of calls.

| Module | Theorems | By |
|---|---|---|
| EventLogProofs | `TypeCorrect`, `RowsAlwaysResolvable`, `SeqAlwaysGapless`, `SettledViewStaysFrozen`, `ViewsOutOfReachAreFinal`, `LogImplementsBitemporalLog` | `LogInv` |
| CalendarProofs | `SyncImplementsLog`, `CalendarTypeCorrect`, `CursorNeverAhead`, `LogHoldsPrefix`, `ReplayKeepsOrder`, `SyncKeepsPromises` | `Bounds`, `LogInv`, `SyncInv` |
| WorkspaceProofs | `PassesImplementLog`, `WorkspaceTypeCorrect`, `LogIsPrefixes`, `CursorsMeanPasses`, `SteadySourceAlwaysShown`, `WorkspaceKeepsPromises` | `Bounds`, `LogInv`, `PassInv`, `SteadyInv` |
| BlobProofs | `BlobTypeCorrect`, `TornNeedsTwoWriters`, `LoneWriterAlwaysOwnsTmp` | `BlobInv` |
| SnapshotProofs | `SettledViewsAreFinal`, by a step lemma of the abstract log: no step but one that goes back behind it adds a row to a settled view or opens a pass under it; `SnapTypeCorrect`, `FoldIsLastWriteHolds`, `PersistedResolvableHolds`, `SteadySnapshotsHoldTrue`, `DiffShowsOnlyWindowHolds`, `TakersKeepLog` | `SnapInv` |
| TraceProofs | `TraceTypeCorrect`, `IndexAlwaysMatches`, `LossesAreReplacements`, `RootAlwaysIndexed`, `RicherAlwaysWins` | `TypeInv`, `IndexInv`, `RootInv`, `RicherInv` |
| MemoryProofs | `MemTypeCorrect`, `LosersAlwaysBeaten`, `SweepAlwaysTakesSides`, `BeliefsAlwaysKept`, `KbAlwaysShowsView` | `MemInv`, `KbInv` |
| BacktestProofs | `BacktestReproducible`, `DeltaIsMemorys`, `BundleAlwaysFull` with `PackIsFull`, `SuccessAlwaysReal`, `BtTypeCorrect` | `BtInv`, `BundleInv`, `ResultsInv`, `PlaceInv` |

- **LogInv** adds to the properties what a process has done by each line of `append`
  (`InAppend`): at "insert" both blobs are stored and `nextSeq` is at most
  `LastSeq + 1`.  The last bound is why numbers stay gapless although they repeat: a
  number read earlier can be too small, never too large.
- The refinement maps `open[w]` to the stamp of a running pass and keeps the rows; every
  step that only moves `pc` is a stutter, `BeginPass` is `BeginAt` with the same timestamp,
  `Insert` is `Learn`, `AppendMany` is `LearnMany`, and `EndPass`, `Crash` and
  `InsertConflict` are `EndAt`.
- What is said of settled views rests on no assumption about clocks or loads: `Given` is any
  set of naturals and `Bulk` any set of loads, and a step that goes back behind an instant is
  a condition of the property, not left out of the model.  That appends under way cannot
  change a settled view is where the invariant is needed: their stamps are those of passes
  under way, and all of these are later.
- `SyncKeepsPromises` and `WorkspaceKeepsPromises` carry this over to the compositions:
  a sync's steps are steps of EventLog, EventLog's are steps of the abstract log, so a
  reader is promised the same whatever drives the log.  `TakersKeepLog` says that readers
  do not disturb each other's promise.
- **SyncInv** says that before event i of batch b everything published earlier is logged
  (`InSync`), and that each logged calendar event has a place in the calendar with
  everything earlier numbered lower (`Placed`).
- **PassInv** says where a process stands in its pass: what it has been through is logged,
  and the number it has read is higher than that of every event before its own.
- **SteadyInv** says that the rows of an application synced in one place are in order of
  documents (`InOrder`): of two rows the lower number is of the same document or of an
  earlier one, up to the document being read.  `RivalBelow` is the argument: suppose
  other content has a higher number than what is shown.  Then it is of the same or of a
  later document, up to the last read; by `NeverReverts` it comes before what is shown in
  the document of the latter's row, so it was logged before that row, and its row, the
  only one it has, has a lower number.
- **BlobInv** says a lone writer's descriptor is the inode its temporary name denotes and
  holds what it has written, and that no name of an uncontended content is open.  Deaths
  appear in no conjunct: a death only forgets.
- **SnapInv** is about the middle of the fold: the states folded so far agree with the
  rows folded so far, and no row left precedes one of them (`FoldOK`).  `ApplyRow`'s
  lemmas then carry `Agree` from R to R and the next row, part by part.  `SteadyOK` and
  `FirstOK` keep what settled queries returned equal to the views, over the log's
  growth, by `SettledStep`.  `DiffShowsOnlyWindow` also needs
  that untied rows determine one state (`LastWriteIsUnique`): then two queries with the
  same rows of an entity give equal states.
- **TypeInv** of TraceProofs adds that spans are finitely many, so that counts are
  numbers; `TranscriptRun` and `HookRun` prove it of the two builders.  **IndexInv** adds
  that a span the hook stamped is only ever in hand for, or stored under, its own
  session, so no other trace can have taken its row.  **RicherInv** says of a trace that
  is not excused that one process at a time ingests it, that what is stored is the
  longest run so far with at most one row missing, and that a process that has counted
  or deleted holds a run as long as any before: counting more than n - 1 rows, it holds
  at least n spans.

- **MemInv** says that the pair being resolved is ranked: the winner beats the loser, whom
  it contradicts, and its edge is stored before the loser is switched off (`PairRanked`).
  Flags are switched off only for such a loser, and items, confidences and edges stay, so
  what justified an inactive claim justifies it for ever.  `SweepKnows` is the argument for
  an undisturbed sweep: what it has read is what is stored, and what it has inactivated is
  still inactive; it ends when no pair is left open, so two items that contradict each other
  are not both active.
- **KbInv** says why a document that no compile rewrites is not stale.  Beating is a strict
  total order on the claims of a group, so an inserted claim either beats the top of its group
  or leaves it there, and every group always has a claim that none beats (`TopInv`,
  `TopKept`).  By the reasons of `MemInv` that one is active: no subject is ever without an
  active claim, and an undisturbed writer visits every document that has one.
- **BtInv** follows one task through the runner: a steady task's instant stays settled
  (`SteadyInv`), by the abstract log's `SettledStep`; what is seeded of it, one query per
  entity, is one of its `Workspaces`, as far as it is read (`StateInv`), and these stay the
  same, since they are made of the rows of a settled view only (`SteadyView`); in a condition
  the calls made and the writes are those of the stub's one call or none yet (`AgentInv`);
  and both results of a task that can still be repeated are such calls on one workspace
  (`ReportInv`).  It treats what the stub, the tools and the judge compute as unknown
  functions, so the theorems hold whatever they are.
- The packing and the token count are folds, which the library defines by recursion over a
  set of indices.  `FoldExists` proves, by induction over the naturals, that such a
  recursion has a solution; `Turns` restates it as a *course*, the accumulator after each
  turn, and from then on a proof about a fold is an induction over its turns
  (`PackCourse`, `PackTurn`, `TokensCourse`).  The library's induction theorem takes an
  operator; `Induct` is instead an instance of `WFMin`, on the set of the counterexamples.
  `SortExists` gives the ordered listing that `Ranked` chooses.
- `PackIsFull`: after each turn the bundle is within the count and the budget, or is one
  item, and every ranked item passed over so far costs more than is left; what is left only
  shrinks.  **BundleInv** joins it with `RankedLists`: fusion and reranking list every
  item of the index once, if the dense ranking is not cut at `CandidateK`.  With a larger
  index `BundleIsFull` claims nothing of the items beyond, for the code does not consider
  them.
- **ResultsInv** says that each result's scores are those of its own writes and claims, in
  both conditions and while the second one runs.  `OutcomeWhole` is the argument about the
  judge: a share of n results rounds to the whole only if all n passed, and after its
  filter exactly the expected writes are left.
- **PlaceInv** has the remaining types; the log's types and the report's length by the
  place in the loop come from `ShapeInv` of `BtInv`.

Every invariant and every action property that a passing run checks is proved.  Only
model-checked remain `Delivered`, `EventuallyStored`, `EventuallyIngested` and `TakenIn`
(liveness under fairness is out of the prover's reach), the four violations, and what the MC
modules assume of the functions without state (Statistics, Budget, Views, Mining,
Counterfactual), which TLC evaluates on all small inputs.  `SelectSeq` and `SortSeq`, which
those are written with, are among the definitions tlapm cannot expand.
`LoneWriterOwnsTmp`, the refinement of EventLog by WorkspaceSync and that of BitemporalLog
by Snapshot are proved and not repeated in a run.

## 5. Not modelled

- Power loss: `put_bytes` does not flush, so a rename may survive bytes that do not.
  Crashes here are deaths of processes.
- Isolation on Postgres; the runs describe SQLite's autocommit.
- Resources with neither update nor start time, which are a new event in each sync
  (`DatedAssumption` leaves them out), and attendees removed from a meeting, for whom
  `_emit_event` emits nothing, so the fold keeps their edge.
- Pages and errors other than 410 of the live listings, and what disappears from Slack,
  Docs and Gmail: members who leave, messages and documents that are deleted.  No event
  is emitted for them, and `SteadySourceShown` speaks of what a document contains.
- In WorkspaceSync payloads are the fields that tell events apart, so of two content
  rows the newer one is taken to show; the merge field by field is Snapshot's `Apply`.
- Labels and creation instants of manifests, `version_count`, `last_valid_at`: no hash
  has them.  A missing mapping row makes `load_state` return an empty state;
  `PersistedResolvable` says how far persistence has got when that can happen.
- In Snapshot the two defaults of `materialize` are one reading of the clock, and a
  blob is stored in one step (BlobStore takes a put apart).
- In TraceIngest: what redaction removes; a log line torn by a reader; two sessions that
  receive one event in the same millisecond; a transcript path whose file cannot be
  parsed, which is as if no file were there; blobs, which are stored before the rows
  that name them and never deleted.
- In Memory: procedures drafted by a model (`procedure_synth.py`), decay by `ttl_policy`,
  which no code applies, provenance files, and the tokens of a text.  A fact whose
  value changes (a timezone, a document's owner, a channel's topic) becomes a second
  active item, for `contradicts` needs opposite polarity; the model has this, no property
  speaks of it.  An item added again keeps its first confidence, however well corroborated.
- The approval queue (`viz/approval_queue.py`): a table of its own.  Its docstring says
  that only approved candidates are compiled into active memory; `compile` never consults
  it, so there is nothing to compose it with.
- `--no-app-state` of `omb memory compile`, which skips one of its sources, the rounding of a
  confidence to four digits, and the creation time of an edge, which every sweep replaces.
- A task without a limit of writes (`max_writes` None), and an expected value that is a
  literal None: no task of the benchmark has either.
- In Backtest: the index is built once per runner, so items compiled later are not
  retrieved; that is as in the code and deliberate in the model.  Freshness is measured
  from the wall clock, so a bundle, and with it a score with memory, may change from day to day; `Reproducible`
  therefore takes the bundle as given.  The one hop of graph expansion follows `supports`
  and `derived_from` edges, which nothing writes.  FaultInjector is used by tests only, as is
  the budget optimizer.  A live client that raises loses the reports of the tasks
  before it, since `run` keeps them in a local.
- `eval/runner.py:64` and `eval/reports.py:25` call two axes zero without memory by
  construction; the application axis is the outcome in both conditions, and the retrieval
  axis is full for a task that expects no memory.  `Scores` has what the code does.
- The model judge, the bootstrap's generator, the normal approximation of a p value, the
  text, Markdown, DOT and HTML of reports, token counts and prices.
- The Codex converter, redaction and OTel export: conversions without control state.
- The Postgres dialect, configuration, identifiers and the command line: I/O, formatting
  and constants; hashes are modelled by identity of content, instants by integers.

## 6. Order of the work, and what is left

The modules were written in the order of what the rest stands on: the log, the syncs that
write it, the blobs, the snapshots that read it, traces, memory, and the benchmark that joins them.
Left, in order of what they would add:

1. The calendar under Snapshot's fold, with attendees who leave: today the log is right about
   what was emitted, and the fold about the log, but nothing relates either to the meeting.
2. Memory over Snapshot and TraceIngest, in place of the entities and runs given to it.
3. A disk that loses unflushed writes, under BlobStore.
4. The Codex converter beside Claude Code's in TraceIngest.
5. That the knapsack of Budget is optimal for every input, by the courses of
   BacktestProofs; today TLC compares it with all choices of up to three candidates.

## 7. Running

`tlc -config MCEventLog.cfg MCEventLog.tla`, and so for each run of PROJECT.json;
`tlapm SnapshotProofs.tla`, and so for each proof module.  The longest runs take
one to two minutes on two cores; each proof module takes a minute or two.
