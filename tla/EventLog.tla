------------------------------ MODULE EventLog ------------------------------
(***************************************************************************)
(* The append-only bitemporal event log: EventStore.append and append_many *)
(* over the app_events table and the blob store, driven by Integration.    *)
(* run_sync in several processes (the sync worker, "omb sync run", a demo) *)
(* that share one database file and one blob directory.                    *)
(*                                                                         *)
(* A pass is stamped by the clock its integration was built with, or with  *)
(* an instant its caller gives.  The worker's is the wall clock; a demo, a *)
(* dashboard and a backtest over fixtures give a FrozenClock, which may    *)
(* stand at an instant that is long past, or still to come.                *)
(*                                                                         *)
(* The database connection is in autocommit mode, so append is five        *)
(* separate steps: the existence check, the payload blob, the provenance   *)
(* blob, the MAX(seq) query and the INSERT.  Each is an action, so that    *)
(* other processes act and a process dies between any two of them.         *)
(*                                                                         *)
(* An event is a record and stands for its event_id, the hash of the       *)
(* fields in Identity: ingested_at is not one of them.  A blob is its own  *)
(* content, the content standing for the digest.  Blob writes are one step *)
(* here; BlobStore takes them apart.                                       *)
(***************************************************************************)
EXTENDS Integers, Sequences, FiniteSets

CONSTANTS
  Writers,   \* processes that run syncs
  Events,    \* records [entity, op, validAt, payload, provenance, target];
             \* target is an edge's kind and endpoint
  Bulk,      \* the sequences append_many may be given: [event, at], at being the
             \* ingested_at the caller put into the event
  Given,     \* instants at which frozen clocks stand or that callers pass
  NoEvent,   \* the value of hand[w] while w appends nothing
  NoBlob,    \* the hash column of an empty payload or provenance
  MaxTime    \* bound on the clock

ASSUME MaxTimeAssumption == MaxTime \in Nat /\ Given \subseteq Nat

\* AppEvent._identity.  Each integration gives one kind of change one provenance,
\* so two events never differ in that alone.
Identity(e) == <<e.entity, e.op, e.validAt, e.payload, e.target>>

ASSUME IdentityAssumption ==
  \A e, f \in Events : Identity(e) = Identity(f) => e = f

\* append_many drops the events already in the table and the repeats, so a call
\* is known by the events it adds: a sequence without repetition.
ASSUME BulkAssumption ==
  \A es \in Bulk :
    /\ es \in Seq([event : Events, at : Nat])
    /\ \A i, j \in 1 .. Len(es) : es[i].event = es[j].event => i = j

VARIABLES
  rows,      \* app_events: set of [event, stamp (ingested_at), seq]
  blobs,     \* the contents present in the blob store
  now,       \* the wall clock
  pc,        \* pc[w]: where process w stands in run_sync and append
  stamp,     \* stamp[w]: the ts run_sync took when it began
  hand,      \* hand[w]: the event being appended
  nextSeq    \* nextSeq[w]: append's local next_seq

logVars == <<rows, blobs, now, pc, stamp, hand, nextSeq>>

Steps == {"idle", "ready", "check", "payload", "provenance", "seq", "insert"}
Row   == [event : Events, stamp : Nat, seq : Nat]

Logged == {r.event : r \in rows}

\* COALESCE(MAX(seq), 0) over a set of rows.
SeqsOf(R) == {r.seq : r \in R}
MaxSeq(R) ==
  IF R = {} THEN 0 ELSE CHOOSE m \in SeqsOf(R) : \A n \in SeqsOf(R) : n <= m
LastSeq == MaxSeq(rows)

\* The blob a non-empty dict is stored as; put_json is not called for an empty
\* one and the column stays NULL.
BlobsOf(content) == IF content = NoBlob THEN {} ELSE {content}

\* The blobs a row refers to.
Refs(e) == BlobsOf(e.payload) \cup BlobsOf(e.provenance)

At(w, step)   == pc[w] = step
Goto(w, step) == pc' = [pc EXCEPT ![w] = step]

\* append returns, or the pass is over: its locals are gone.
Return(w, step) ==
  /\ Goto(w, step)
  /\ hand' = [hand EXCEPT ![w] = NoEvent]
  /\ nextSeq' = [nextSeq EXCEPT ![w] = 0]

Init ==
  /\ rows = {}
  /\ blobs = {}
  /\ now = 0
  /\ pc = [w \in Writers |-> "idle"]
  /\ stamp = [w \in Writers |-> 0]
  /\ hand = [w \in Writers |-> NoEvent]
  /\ nextSeq = [w \in Writers |-> 0]

-----------------------------------------------------------------------------
\* The wall clock moves on.
Tick ==
  /\ now < MaxTime
  /\ now' = now + 1
  /\ UNCHANGED <<rows, blobs, pc, stamp, hand, nextSeq>>

\* Mutant: a timestamp of the previous instant.
BeginEarlier(w) ==
  /\ At(w, "idle")
  /\ stamp' = [stamp EXCEPT ![w] = now - 1]
  /\ Goto(w, "ready")
  /\ UNCHANGED <<rows, blobs, now, hand, nextSeq>>

\* run_sync: one timestamp, ingested_at or clock.now(), taken before anything is
\* fetched, for every event.
BeginPass(w) ==
  /\ At(w, "idle")
  /\ \E ts \in {now} \cup Given : stamp' = [stamp EXCEPT ![w] = ts]
  /\ Goto(w, "ready")
  /\ UNCHANGED <<rows, blobs, now, hand, nextSeq>>

\* The integration's generator yields an event and append is called on it.
Emit(w, e) ==
  /\ At(w, "ready")
  /\ hand' = [hand EXCEPT ![w] = e]
  /\ Goto(w, "check")
  /\ UNCHANGED <<rows, blobs, now, stamp, nextSeq>>

\* Mutant: the row is written first and the blobs never.
SkipBlobs(w) ==
  /\ At(w, "check")
  /\ IF hand[w] \in Logged
     THEN Return(w, "ready")
     ELSE Goto(w, "seq") /\ UNCHANGED <<hand, nextSeq>>
  /\ UNCHANGED <<rows, blobs, now, stamp>>

\* append: _exists, then the early return or the rest.
CheckExists(w) ==
  /\ At(w, "check")
  /\ IF hand[w] \in Logged
     THEN Return(w, "ready")
     ELSE Goto(w, "payload") /\ UNCHANGED <<hand, nextSeq>>
  /\ UNCHANGED <<rows, blobs, now, stamp>>

PutPayload(w) ==
  /\ At(w, "payload")
  /\ blobs' = blobs \cup BlobsOf(hand[w].payload)
  /\ Goto(w, "provenance")
  /\ UNCHANGED <<rows, now, stamp, hand, nextSeq>>

PutProvenance(w) ==
  /\ At(w, "provenance")
  /\ blobs' = blobs \cup BlobsOf(hand[w].provenance)
  /\ Goto(w, "seq")
  /\ UNCHANGED <<rows, now, stamp, hand, nextSeq>>

\* Mutant: seq numbers taken from COUNT(*).
CountRows(w) ==
  /\ At(w, "seq")
  /\ nextSeq' = [nextSeq EXCEPT ![w] = Cardinality(rows) + 1]
  /\ Goto(w, "insert")
  /\ UNCHANGED <<rows, blobs, now, stamp, hand>>

\* Mutant: MAX(seq) taken as the next number.
RepeatLastSeq(w) ==
  /\ At(w, "seq")
  /\ nextSeq' = [nextSeq EXCEPT ![w] = LastSeq]
  /\ Goto(w, "insert")
  /\ UNCHANGED <<rows, blobs, now, stamp, hand>>

ReadLastSeq(w) ==
  /\ At(w, "seq")
  /\ nextSeq' = [nextSeq EXCEPT ![w] = LastSeq + 1]
  /\ Goto(w, "insert")
  /\ UNCHANGED <<rows, blobs, now, stamp, hand>>

NewRow(w) == [event |-> hand[w], stamp |-> stamp[w], seq |-> nextSeq[w]]

\* The INSERT autocommits; event_id is the primary key.
Insert(w) ==
  /\ At(w, "insert")
  /\ hand[w] \notin Logged
  /\ rows' = rows \cup {NewRow(w)}
  /\ Return(w, "ready")
  /\ UNCHANGED <<blobs, now, stamp>>

\* Mutant: INSERT OR REPLACE, as the backend's insert(replace=True) does.
ReplaceRow(w) ==
  /\ At(w, "insert")
  /\ hand[w] \in Logged
  /\ rows' = {r \in rows : r.event # hand[w]} \cup {NewRow(w)}
  /\ Return(w, "ready")
  /\ UNCHANGED <<blobs, now, stamp>>

\* Another process inserted the event since the check: the primary key refuses
\* the row and the exception leaves run_sync, ending the pass.
InsertConflict(w) ==
  /\ At(w, "insert")
  /\ hand[w] \in Logged
  /\ Return(w, "idle")
  /\ UNCHANGED <<rows, blobs, now, stamp>>

\* The generator is exhausted and run_sync returns.
EndPass(w) ==
  /\ At(w, "ready")
  /\ Return(w, "idle")
  /\ UNCHANGED <<rows, blobs, now, stamp>>

\* The process is killed, or a call raises (locked database, full disk): what
\* was committed stays, and nothing else survives.
Crash(w) ==
  /\ ~ At(w, "idle")
  /\ Return(w, "idle")
  /\ UNCHANGED <<rows, blobs, now, stamp>>

\* append_many: one transaction, committed as a whole, each event with the
\* ingested_at it came with.
AppendMany(es) ==
  /\ \A i \in 1 .. Len(es) : es[i].event \notin Logged
  /\ rows' = rows \cup {[event |-> es[i].event, stamp |-> es[i].at, seq |-> LastSeq + i]
                          : i \in 1 .. Len(es)}
  /\ blobs' = blobs \cup UNION {Refs(es[i].event) : i \in 1 .. Len(es)}
  /\ UNCHANGED <<now, pc, stamp, hand, nextSeq>>

\* ... or rolled back, which does not take back the blobs of the first n events.
RollBackMany(es, n) ==
  /\ blobs' = blobs \cup UNION {Refs(es[i].event) : i \in 1 .. n}
  /\ UNCHANGED <<rows, now, pc, stamp, hand, nextSeq>>

\* The steps of append that need nothing from the integration.
AppendStep(w) ==
  \/ CheckExists(w)
  \/ PutPayload(w)
  \/ PutProvenance(w)
  \/ ReadLastSeq(w)
  \/ Insert(w)
  \/ InsertConflict(w)

Next ==
  \/ Tick
  \/ \E w \in Writers :
       \/ BeginPass(w)
       \/ \E e \in Events : Emit(w, e)
       \/ AppendStep(w)
       \/ EndPass(w)
       \/ Crash(w)
  \/ \E es \in Bulk : AppendMany(es)
  \/ \E es \in Bulk : \E n \in 1 .. Len(es) : RollBackMany(es, n)

Spec == Init /\ [][Next]_logVars

-----------------------------------------------------------------------------
TypeOK ==
  /\ rows \subseteq Row
  /\ now \in Nat
  /\ pc \in [Writers -> Steps]
  /\ stamp \in [Writers -> Nat]
  /\ hand \in [Writers -> Events \cup {NoEvent}]
  /\ nextSeq \in [Writers -> Nat]

\* Every blob a row points at is in the store, whoever crashed or raced: the
\* blobs are written before the row, never after.  get_json on a row's
\* payload_hash cannot raise BlobNotFoundError.
RowsResolvable == \A r \in rows : Refs(r.event) \subseteq blobs

\* An event has one row, so one ingestion instant: re-ingesting is a no-op.
OneRowPerEvent == \A r, q \in rows : r.event = q.event => r = q

\* Sequence numbers have no gap, even when two processes read the same MAX(seq):
\* the numbers in use are exactly 1 .. LastSeq.  They may repeat: seq does not tell
\* apart two events of one entity and instant that two processes append at once.
SeqGapless == SeqsOf(rows) = 1 .. LastSeq

\* The log implements the abstract bitemporal log.
Closed == -1
Abs == INSTANCE BitemporalLog WITH
  open <- [w \in Writers |-> IF pc[w] = "idle" THEN Closed ELSE stamp[w]]

ImplementsBitemporalLog == Abs!AbsSpec

\* While a pass stamped at or before tau is running, the rows with ingested_at <= tau
\* can still grow.  Once the clock is past tau and no such pass is running, they stay
\* the same, and a materialization as of tau can be repeated, until somebody goes back
\* behind tau: begins a pass with a clock that stands at or before tau, or bulk-loads
\* an event that says it was ingested by then.  Appends under way never do.
KnownBy(tau) == {r \in rows : r.stamp <= tau}
SettledBy(tau) ==
  /\ tau < now
  /\ \A w \in Writers : At(w, "idle") \/ stamp[w] > tau

BackDated(tau) ==
  \/ \E w \in Writers : At(w, "idle") /\ ~ At(w, "idle")' /\ stamp'[w] <= tau
  \/ \E es \in Bulk : AppendMany(es) /\ \E i \in 1 .. Len(es) : es[i].at <= tau

SettledViewFrozen ==
  [][\A tau \in 0 .. MaxTime :
       SettledBy(tau) /\ ~ BackDated(tau) =>
         SettledBy(tau)' /\ KnownBy(tau)' = KnownBy(tau)]_logVars

=============================================================================
