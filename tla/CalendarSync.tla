---------------------------- MODULE CalendarSync ----------------------------
(***************************************************************************)
(* GCalSync: incremental sync by batches and sync tokens, running over the *)
(* event log.  The source publishes batches; a process loads the ones that *)
(* exist, resumes after the stored token, appends every event of a batch   *)
(* and only then stores the batch's token.  Several processes may sync the *)
(* same calendar at once (the worker and "omb sync run gcal"), other       *)
(* integrations write to the same log meanwhile, any of them may die       *)
(* between any two steps, and the token may be cleared at any time.        *)
(*                                                                         *)
(* A token is the number of its batch; 0 is the absent token.              *)
(***************************************************************************)
EXTENDS EventLog, SequencesExt

CONSTANTS
  Syncers,      \* the processes that sync this calendar
  SyncBatches,  \* sync_batches: a sequence of sequences of Calendar resources
  MaxCrashes    \* bound on the crashes of a behaviour

ASSUME SyncersAssumption == Syncers \subseteq Writers

\* A resource is [id, updated, start, status, content, attendees], the attendees
\* a sequence of [email, response].  NoBlob stands for an absent field.
Resources == UNION {{SyncBatches[b][i] : i \in 1 .. Len(SyncBatches[b])}
                      : b \in 1 .. Len(SyncBatches)}

\* A resource with neither time would be valid at the instant of each sync and so
\* a different event in each: calendars with such a resource are left out.
ASSUME DatedAssumption == \A r \in Resources : {r.updated, r.start} # {NoBlob}

\* _emit_event: the canonical events of one resource, in order.
ValidAt(r) == IF r.updated # NoBlob THEN r.updated ELSE r.start

Change(r, op, payload, source, target) ==
  [entity |-> r.id, op |-> op, validAt |-> ValidAt(r), payload |-> payload,
   provenance |-> source, target |-> target]

Emission(r) ==
  IF r.status = "cancelled"
  THEN <<Change(r, "delete_entity", NoBlob, "cancelled", NoBlob)>>
  ELSE LET invited == SelectSeq(r.attendees, LAMBDA a : a.email # NoBlob)
       IN  <<Change(r, "upsert_entity", r.content, "list", NoBlob)>> \o
           [i \in 1 .. Len(invited) |->
              Change(r, "upsert_edge", invited[i].response, "attendees", invited[i].email)]

\* The events each batch makes sync yield.
Batches ==
  [b \in 1 .. Len(SyncBatches) |->
     FlattenSeq([i \in 1 .. Len(SyncBatches[b]) |-> Emission(SyncBatches[b][i])])]

ASSUME BatchesAssumption == Batches \in Seq(Seq(Events))

VARIABLES
  published,   \* how many batches the source has produced
  cursor,      \* sync_cursors: the token stored for this calendar
  loaded,      \* loaded[w]: how many batches the document w read holds
  batch,       \* batch[w]: the batch w is at; 0 before the cursor is read
  item,        \* item[w]: the next event of that batch
  crashes      \* crashes so far

calVars  == <<published, cursor, loaded, batch, item, crashes>>
syncVars == <<logVars, calVars>>

NumBatches == Len(Batches)
Calendar   == UNION {{Batches[b][i] : i \in 1 .. Len(Batches[b])} : b \in 1 .. NumBatches}

\* Mutant: the batch after the stored token's successor.
ResumePast(n, token) == IF token <= n /\ token > 0 THEN token + 2 ELSE 1

\* _resume_index: after the stored token's batch; from the first batch if no
\* token is stored or the loaded document does not have it (a "410").
ResumeAt(n, token) == IF token <= n THEN token + 1 ELSE 1

SyncInit ==
  /\ Init
  /\ published = 0
  /\ cursor = 0
  /\ loaded = [w \in Writers |-> 0]
  /\ batch = [w \in Writers |-> 0]
  /\ item = [w \in Writers |-> 1]
  /\ crashes = 0

-----------------------------------------------------------------------------
\* The source has something new.
Publish ==
  /\ published < NumBatches
  /\ published' = published + 1
  /\ UNCHANGED <<logVars, cursor, loaded, batch, item, crashes>>

\* build_integration reads the document, run_sync takes the timestamp.
StartSync(w) ==
  /\ BeginPass(w)
  /\ loaded' = [loaded EXCEPT ![w] = published]
  /\ UNCHANGED <<published, cursor, batch, item, crashes>>

\* sync: get_cursor and _resume_index.
ReadCursor(w) ==
  /\ At(w, "ready")
  /\ batch[w] = 0
  /\ batch' = [batch EXCEPT ![w] = ResumeAt(loaded[w], cursor)]
  /\ item' = [item EXCEPT ![w] = 1]
  /\ UNCHANGED <<logVars, published, cursor, loaded, crashes>>

InBatch(w) == batch[w] \in 1 .. loaded[w]

\* The generator yields the next event of the batch to run_sync.
YieldEvent(w) ==
  /\ InBatch(w)
  /\ item[w] <= Len(Batches[batch[w]])
  /\ Emit(w, Batches[batch[w]][item[w]])
  /\ item' = [item EXCEPT ![w] = @ + 1]
  /\ UNCHANGED <<published, cursor, loaded, batch, crashes>>

\* The generator is gone and its locals with it.
Forget(w) ==
  /\ loaded' = [loaded EXCEPT ![w] = 0]
  /\ batch' = [batch EXCEPT ![w] = 0]
  /\ item' = [item EXCEPT ![w] = 1]

\* append runs while the generator waits ...
AppendYielded(w) ==
  /\ CheckExists(w) \/ PutPayload(w) \/ PutProvenance(w) \/ ReadLastSeq(w) \/ Insert(w)
  /\ UNCHANGED calVars

\* Mutant: the integrity error is swallowed and the pass goes on.
AppendSwallow(w) ==
  /\ At(w, "insert")
  /\ hand[w] \in Logged
  /\ Return(w, "ready")
  /\ UNCHANGED <<rows, blobs, now, stamp>>
  /\ UNCHANGED calVars

\* ... and an integrity error leaves run_sync, which ends the pass.
AppendConflict(w) ==
  /\ InsertConflict(w)
  /\ Forget(w)
  /\ UNCHANGED <<published, cursor, crashes>>

\* Mutant: the token is stored as soon as the batch's last event is yielded.
SaveCursorEarly(w) ==
  /\ ~ At(w, "idle")
  /\ InBatch(w)
  /\ item[w] > Len(Batches[batch[w]])
  /\ cursor' = batch[w]
  /\ IF At(w, "ready")
     THEN /\ batch' = [batch EXCEPT ![w] = @ + 1]
          /\ item' = [item EXCEPT ![w] = 1]
     ELSE UNCHANGED <<batch, item>>
  /\ UNCHANGED <<logVars, published, loaded, crashes>>

\* run_sync has appended the batch's last event and asks for another, so the
\* generator runs on: set_cursor, then the next batch.
SaveCursor(w) ==
  /\ At(w, "ready")
  /\ InBatch(w)
  /\ item[w] > Len(Batches[batch[w]])
  /\ cursor' = batch[w]
  /\ batch' = [batch EXCEPT ![w] = @ + 1]
  /\ item' = [item EXCEPT ![w] = 1]
  /\ UNCHANGED <<logVars, published, loaded, crashes>>

\* No batch is left.
FinishSync(w) ==
  /\ batch[w] > loaded[w]
  /\ EndPass(w)
  /\ Forget(w)
  /\ UNCHANGED <<published, cursor, crashes>>

CrashSync(w) ==
  /\ crashes < MaxCrashes
  /\ Crash(w)
  /\ Forget(w)
  /\ crashes' = crashes + 1
  /\ UNCHANGED <<published, cursor>>

\* force_resync: the stored token is cleared.
ForceResync ==
  /\ cursor' = 0
  /\ UNCHANGED <<logVars, published, loaded, batch, item, crashes>>

\* An integration of another application, on its own events.
ForeignStep(w) ==
  /\ \/ BeginPass(w)
     \/ \E e \in Events \ Calendar : Emit(w, e)
     \/ AppendStep(w)
     \/ EndPass(w)
     \/ Crash(w)
  /\ UNCHANGED calVars

\* The steps a process that syncs takes of its own accord.
SyncStep(w) ==
  \/ StartSync(w)
  \/ ReadCursor(w)
  \/ YieldEvent(w)
  \/ AppendYielded(w)
  \/ AppendConflict(w)
  \/ SaveCursor(w)
  \/ FinishSync(w)

SyncNext ==
  \/ Publish
  \/ ForceResync
  \/ Tick /\ UNCHANGED calVars
  \/ \E w \in Syncers : SyncStep(w) \/ CrashSync(w)
  \/ \E w \in Writers \ Syncers : ForeignStep(w)

SyncSpec == SyncInit /\ [][SyncNext]_syncVars

\* run_forever runs cycle after cycle, whatever a cycle raised.
WorkerFairness == \A w \in Syncers : WF_syncVars(SyncStep(w))
FairSyncSpec   == SyncSpec /\ WorkerFairness

-----------------------------------------------------------------------------
CalTypeOK ==
  /\ TypeOK
  /\ published \in 0 .. NumBatches
  /\ cursor \in 0 .. NumBatches
  /\ loaded \in [Writers -> 0 .. NumBatches]
  /\ batch \in [Writers -> 0 .. NumBatches + 1]
  /\ item \in [Writers -> Nat \ {0}]
  /\ crashes \in Nat

\* The calendar's events before event i of batch b, in the order of publication.
Earlier(b, i) ==
  {e \in Calendar :
     \E c \in 1 .. NumBatches : \E j \in 1 .. Len(Batches[c]) :
       Batches[c][j] = e /\ (c < b \/ (c = b /\ j < i))}

\* The stored token never runs ahead of the log: the batches it says are consumed
\* are logged, whoever crashed, conflicted, resynced or overtook whom.
CursorCovered == Earlier(cursor + 1, 1) \subseteq Logged

\* The log never has a hole: a calendar event is in it only if everything the
\* source published before that event is too, so the log is always a history the
\* calendar has had.
HistoryPrefix ==
  \A e \in Logged \cap Calendar :
    \E b \in 1 .. NumBatches : \E i \in 1 .. Len(Batches[b]) :
      Batches[b][i] = e /\ Earlier(b, i) \subseteq Logged

\* seq repeats the order of publication, although several processes number rows
\* from their own reading of MAX(seq): the fold applies changes of one instant in
\* the order the source made them.
ReplayOrder ==
  \A r \in rows : r.event \in Calendar =>
    \E b \in 1 .. NumBatches : \E i \in 1 .. Len(Batches[b]) :
      /\ Batches[b][i] = r.event
      /\ \A q \in rows : q.event \in Earlier(b, i) => q.seq < r.seq

\* The sync does to the log only what the event store allows.
ImplementsEventLog == Spec

\* Whatever the source published is in the log eventually and for good, if every
\* process keeps running its cycles and crashes stop.
Delivered ==
  \A b \in 1 .. NumBatches :
    (published >= b) ~> (\A i \in 1 .. Len(Batches[b]) : Batches[b][i] \in Logged)

=============================================================================
