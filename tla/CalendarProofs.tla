--------------------------- MODULE CalendarProofs ---------------------------
(***************************************************************************)
(* Proofs about CalendarSync, for any calendar, any number of processes    *)
(* syncing it and any number of processes syncing something else.          *)
(***************************************************************************)
EXTENDS CalendarSync, EventLogProofs

\* The calendar's own part of CalTypeOK.
Bounds ==
  /\ published \in 0 .. NumBatches
  /\ cursor \in 0 .. NumBatches
  /\ loaded \in [Writers -> 0 .. NumBatches]
  /\ batch \in [Writers -> 0 .. NumBatches + 1]
  /\ item \in [Writers -> Nat \ {0}]
  /\ crashes \in Nat

\* The batches are sequences of events.
LEMMA BatchFacts ==
  /\ NumBatches \in Nat
  /\ \A b \in 1 .. NumBatches :
       /\ Len(Batches[b]) \in Nat
       /\ \A i \in 1 .. Len(Batches[b]) : Batches[b][i] \in Events
<1>1. NumBatches \in Nat
  BY BatchesAssumption DEF NumBatches
<1>2. ASSUME NEW b \in 1 .. NumBatches
      PROVE  Batches[b] \in Seq(Events)
  BY BatchesAssumption DEF NumBatches
<1> QED
  BY <1>1, <1>2

\* Where sync resumes is a batch of the calendar, or just past the last one.
LEMMA ResumeBounds ==
  ASSUME NEW n \in 0 .. NumBatches, NEW token \in 0 .. NumBatches
  PROVE  ResumeAt(n, token) \in 1 .. NumBatches + 1
BY BatchFacts DEF ResumeAt

\* The counters stay within the bounds of the calendar.
LEMMA BoundsInvariant == SyncSpec => []Bounds
<1>1. SyncInit => Bounds
  BY BatchFacts DEF SyncInit, Bounds
<1>2. Bounds /\ [SyncNext]_syncVars => Bounds'
  <2> SUFFICES ASSUME Bounds, [SyncNext]_syncVars
               PROVE  Bounds'
    OBVIOUS
  <2> USE BatchFacts DEF Bounds, calVars
  <2>1. CASE Publish \/ ForceResync \/ (Tick /\ UNCHANGED calVars)
    BY <2>1 DEF Publish, ForceResync
  <2>2. ASSUME NEW w \in Writers, StartSync(w)
        PROVE  Bounds'
    BY <2>2 DEF StartSync
  <2>3. ASSUME NEW w \in Writers, ReadCursor(w)
        PROVE  Bounds'
    <3>1. ResumeAt(loaded[w], cursor) \in 1 .. NumBatches + 1
      BY ResumeBounds
    <3> QED
      BY <2>3, <3>1 DEF ReadCursor
  <2>4. ASSUME NEW w \in Writers, YieldEvent(w)
        PROVE  Bounds'
    BY <2>4 DEF YieldEvent
  <2>5. ASSUME NEW w \in Writers, SaveCursor(w)
        PROVE  Bounds'
    BY <2>5 DEF SaveCursor, InBatch
  <2>6. ASSUME NEW w \in Writers, AppendConflict(w) \/ FinishSync(w) \/ CrashSync(w)
        PROVE  Bounds'
    <3>1. Forget(w) /\ UNCHANGED <<published, cursor>> /\ crashes' \in Nat
      BY <2>6 DEF AppendConflict, FinishSync, CrashSync
    <3>2. loaded' \in [Writers -> 0 .. NumBatches] /\ batch' \in [Writers -> 0 .. NumBatches + 1]
      BY <3>1 DEF Forget
    <3>3. item' \in [Writers -> Nat \ {0}]
      BY <3>1 DEF Forget
    <3> QED
      BY <3>1, <3>2, <3>3
  <2>7. ASSUME NEW w \in Writers, AppendYielded(w) \/ ForeignStep(w)
        PROVE  Bounds'
    BY <2>7 DEF AppendYielded, ForeignStep
  <2>8. CASE UNCHANGED syncVars
    BY <2>8 DEF syncVars
  <2> QED
    BY <2>1, <2>2, <2>3, <2>4, <2>5, <2>6, <2>7, <2>8, SyncersAssumption
       DEF SyncNext, SyncStep
<1> QED
  BY <1>1, <1>2, PTL DEF SyncSpec

-----------------------------------------------------------------------------
\* A step of the sync is a step of the log, or leaves it alone.
LEMMA SyncStepIsLogStep ==
  ASSUME Bounds, [SyncNext]_syncVars
  PROVE  [Next]_logVars
<1>1. CASE Publish \/ ForceResync
  BY <1>1 DEF Publish, ForceResync
<1>2. CASE Tick
  BY <1>2 DEF Next
<1>3. ASSUME NEW w \in Writers, YieldEvent(w)
      PROVE  Next
  <2>1. batch[w] \in 1 .. NumBatches /\ item[w] \in 1 .. Len(Batches[batch[w]])
    BY <1>3, BatchFacts DEF YieldEvent, InBatch, Bounds
  <2>2. Batches[batch[w]][item[w]] \in Events
    BY <2>1, BatchFacts
  <2> QED
    BY <1>3, <2>2 DEF YieldEvent, Next
<1>4. ASSUME NEW w \in Writers,
             \/ StartSync(w) \/ AppendYielded(w) \/ AppendConflict(w)
             \/ FinishSync(w) \/ CrashSync(w)
      PROVE  Next
  BY <1>4 DEF StartSync, AppendYielded, AppendConflict, FinishSync, CrashSync, Next, AppendStep
<1>5. ASSUME NEW w \in Writers, ReadCursor(w) \/ SaveCursor(w)
      PROVE  UNCHANGED logVars
  BY <1>5 DEF ReadCursor, SaveCursor
<1>6. ASSUME NEW w \in Writers, ForeignStep(w)
      PROVE  Next
  BY <1>6 DEF ForeignStep, Next
<1>7. CASE UNCHANGED syncVars
  BY <1>7 DEF syncVars
<1> QED
  BY <1>1, <1>2, <1>3, <1>4, <1>5, <1>6, <1>7, SyncersAssumption DEF SyncNext, SyncStep

\* Whatever the sync does to the log, the event store allows: the theorems about
\* EventLog hold of it.
THEOREM SyncImplementsLog == SyncSpec => ImplementsEventLog
<1>1. SyncInit => Init
  BY DEF SyncInit
<1>2. Bounds /\ [SyncNext]_syncVars => [Next]_logVars
  BY SyncStepIsLogStep
<1> QED
  BY <1>1, <1>2, BoundsInvariant, PTL DEF SyncSpec, ImplementsEventLog, Spec

\* So the invariant of the log holds of the sync.
LEMMA SyncLogInvariant == SyncSpec => []LogInv
BY SyncImplementsLog, LogInvariant, PTL DEF ImplementsEventLog

\* The type invariant, for every calendar.
THEOREM CalendarTypeCorrect == SyncSpec => []CalTypeOK
<1>1. Bounds /\ LogInv => CalTypeOK
  BY DEF Bounds, LogInv, CalTypeOK
<1> QED
  BY <1>1, BoundsInvariant, SyncLogInvariant, PTL

-----------------------------------------------------------------------------
\* An event of a batch is one of the calendar.
LEMMA InCalendar ==
  ASSUME NEW b \in 1 .. NumBatches, NEW i \in 1 .. Len(Batches[b])
  PROVE  Batches[b][i] \in Calendar
BY DEF Calendar

\* What comes before the next event: what came before this one, and this one.
LEMMA EarlierThanNext ==
  ASSUME NEW b \in 1 .. NumBatches, NEW i \in 1 .. Len(Batches[b])
  PROVE  Earlier(b, i + 1) \subseteq Earlier(b, i) \cup {Batches[b][i]}
<1> SUFFICES ASSUME NEW e \in Earlier(b, i + 1), e # Batches[b][i]
             PROVE  e \in Earlier(b, i)
  OBVIOUS
<1>0. PICK c \in 1 .. NumBatches :
        \E j \in 1 .. Len(Batches[c]) : Batches[c][j] = e /\ (c < b \/ (c = b /\ j < i + 1))
  BY DEF Earlier
<1>1. PICK j \in 1 .. Len(Batches[c]) : Batches[c][j] = e /\ (c < b \/ (c = b /\ j < i + 1))
  BY <1>0
<1>2. c < b \/ (c = b /\ j < i)
  <2>1. c = b => j # i
    BY <1>1
  <2>2. Len(Batches[c]) \in Nat
    BY BatchFacts
  <2> QED
    BY <1>1, <2>1, <2>2, BatchFacts
<1> QED
  BY <1>1, <1>2 DEF Earlier

\* What comes before a batch: all of the batch before it, and what came before that.
LEMMA EarlierThanBatch ==
  ASSUME NEW b \in 1 .. NumBatches, NEW i \in Nat, i > Len(Batches[b])
  PROVE  Earlier(b + 1, 1) \subseteq Earlier(b, i)
<1> SUFFICES ASSUME NEW e \in Earlier(b + 1, 1)
             PROVE  e \in Earlier(b, i)
  OBVIOUS
<1>0. PICK c \in 1 .. NumBatches :
        \E j \in 1 .. Len(Batches[c]) :
          Batches[c][j] = e /\ (c < b + 1 \/ (c = b + 1 /\ j < 1))
  BY DEF Earlier
<1>1. PICK j \in 1 .. Len(Batches[c]) :
        Batches[c][j] = e /\ (c < b + 1 \/ (c = b + 1 /\ j < 1))
  BY <1>0
<1>2. c < b \/ (c = b /\ j < i)
  <2>1. Len(Batches[c]) \in Nat /\ Len(Batches[b]) \in Nat /\ NumBatches \in Nat
    BY BatchFacts
  <2>2. c = b => j <= Len(Batches[b])
    OBVIOUS
  <2> QED
    BY <1>1, <2>1, <2>2
<1> QED
  BY <1>1, <1>2 DEF Earlier

\* Nothing comes before the first event.
LEMMA NothingEarlier == Earlier(1, 1) = {}
<1> SUFFICES ASSUME NEW e \in Earlier(1, 1)
             PROVE  FALSE
  OBVIOUS
<1>0. PICK c \in 1 .. NumBatches : \E j \in 1 .. Len(Batches[c]) : c < 1 \/ (c = 1 /\ j < 1)
  BY DEF Earlier
<1>1. PICK j \in 1 .. Len(Batches[c]) : c < 1 \/ (c = 1 /\ j < 1)
  BY <1>0
<1>2. Len(Batches[c]) \in Nat /\ NumBatches \in Nat
  BY BatchFacts
<1> QED
  BY <1>1, <1>2

-----------------------------------------------------------------------------
\* Where a process that syncs this calendar stands: what it has passed is logged,
\* what it holds is the event it yielded last, and the number it is about to use
\* is higher than that of every earlier event.
InSync(w) ==
  /\ pc[w] = "idle" => batch[w] = 0
  /\ pc[w] = "ready" /\ batch[w] # 0 => Earlier(batch[w], item[w]) \subseteq Logged
  /\ pc[w] \in Appending =>
       /\ batch[w] \in 1 .. NumBatches
       /\ item[w] - 1 \in 1 .. Len(Batches[batch[w]])
       /\ hand[w] = Batches[batch[w]][item[w] - 1]
       /\ Earlier(batch[w], item[w] - 1) \subseteq Logged
  /\ pc[w] = "insert" =>
       \A q \in rows : q.event \in Earlier(batch[w], item[w] - 1) => q.seq < nextSeq[w]

\* Nobody else writes this calendar's events.
Elsewhere(w) == pc[w] \in Appending => hand[w] \notin Calendar

\* Row r has its place in the calendar, after everything that precedes it there.
PlacedAt(r, b, i) ==
  /\ Batches[b][i] = r.event
  /\ Earlier(b, i) \subseteq Logged
  /\ \A q \in rows : q.event \in Earlier(b, i) => q.seq < r.seq

Placed(r) == \E b \in 1 .. NumBatches : \E i \in 1 .. Len(Batches[b]) : PlacedAt(r, b, i)

\* The inductive invariant, beside Bounds and LogInv.
SyncInv ==
  /\ CursorCovered
  /\ \A r \in rows : r.event \in Calendar => Placed(r)
  /\ \A w \in Syncers : InSync(w)
  /\ \A w \in Writers \ Syncers : Elsewhere(w)

Still(v) == Unmoved(v) /\ batch'[v] = batch[v] /\ item'[v] = item[v]
Positioned(w) == (w \in Syncers => InSync(w)) /\ (w \notin Syncers => Elsewhere(w))

\* A step of w that leaves the table and the token alone preserves the invariant
\* if w meets its own conditions afterwards.
LEMMA MoveKeeps ==
  ASSUME SyncInv, NEW w \in Writers, Positioned(w)', rows' = rows, CursorCovered',
         \A v \in Writers \ {w} : Still(v)
  PROVE  SyncInv'
<1>1. Logged' = Logged
  BY DEF Logged
<1>2. \A r \in rows' : r.event \in Calendar => Placed(r)'
  BY <1>1 DEF SyncInv, Placed, PlacedAt
<1>3. ASSUME NEW v \in Syncers
      PROVE  InSync(v)'
  <2>1. CASE v = w
    BY <2>1 DEF Positioned
  <2>2. CASE v # w
    <3>1. InSync(v) /\ Still(v)
      BY <2>2, SyncersAssumption DEF SyncInv
    <3> QED
      BY <1>1, <3>1 DEF Still, Unmoved, InSync
  <2> QED
    BY <2>1, <2>2
<1>4. ASSUME NEW v \in Writers \ Syncers
      PROVE  Elsewhere(v)'
  BY DEF SyncInv, Positioned, Still, Unmoved, Elsewhere
<1> QED
  BY <1>2, <1>3, <1>4 DEF SyncInv

\* A row of an event not yet logged disturbs no one: nobody waits for a number
\* above that of an event whose predecessors are logged already.
LEMMA InsertKeeps ==
  ASSUME SyncInv, NEW w \in Writers, Positioned(w)', NEW n,
         rows' = rows \cup {n}, n.event \notin Logged, cursor' = cursor,
         n.event \in Calendar => Placed(n)',
         \A v \in Writers \ {w} : Still(v)
  PROVE  SyncInv'
<1>1. Logged' = Logged \cup {n.event}
  BY DEF Logged
<1>2. CursorCovered'
  BY <1>1 DEF SyncInv, CursorCovered
<1>3. ASSUME NEW r \in rows, r.event \in Calendar
      PROVE  Placed(r)'
  <2>0. PICK b \in 1 .. NumBatches : \E i \in 1 .. Len(Batches[b]) : PlacedAt(r, b, i)
    BY <1>3 DEF SyncInv, Placed
  <2>1. PICK i \in 1 .. Len(Batches[b]) : PlacedAt(r, b, i)
    BY <2>0
  <2>2. n.event \notin Earlier(b, i)
    BY <2>1 DEF PlacedAt
  <2>3. PlacedAt(r, b, i)'
    BY <1>1, <2>1, <2>2 DEF PlacedAt
  <2> QED
    BY <2>3 DEF Placed
<1>4. ASSUME NEW v \in Syncers
      PROVE  InSync(v)'
  <2>1. CASE v = w
    BY <2>1 DEF Positioned
  <2>2. CASE v # w
    <3>1. InSync(v) /\ Still(v)
      BY <2>2, SyncersAssumption DEF SyncInv
    <3>2. pc[v] \in Appending => n.event \notin Earlier(batch[v], item[v] - 1)
      BY <3>1 DEF InSync
    <3> QED
      BY <1>1, <3>1, <3>2 DEF Still, Unmoved, InSync, Appending
  <2> QED
    BY <2>1, <2>2
<1>5. ASSUME NEW v \in Writers \ Syncers
      PROVE  Elsewhere(v)'
  BY DEF SyncInv, Positioned, Still, Unmoved, Elsewhere
<1> QED
  BY <1>2, <1>3, <1>4, <1>5 DEF SyncInv

-----------------------------------------------------------------------------
\* What a process inside append has in hand, and what it will have passed once
\* that is logged.
LEMMA HandPassed ==
  ASSUME Bounds, NEW w \in Writers, InSync(w), pc[w] \in Appending
  PROVE  /\ Earlier(batch[w], item[w]) \subseteq Logged \cup {hand[w]}
         /\ hand[w] \in Calendar
<1>1. /\ batch[w] \in 1 .. NumBatches /\ item[w] - 1 \in 1 .. Len(Batches[batch[w]])
      /\ hand[w] = Batches[batch[w]][item[w] - 1]
      /\ Earlier(batch[w], item[w] - 1) \subseteq Logged
  BY DEF InSync
<1>2. (item[w] - 1) + 1 = item[w]
  BY DEF Bounds
<1>3. Earlier(batch[w], (item[w] - 1) + 1)
        \subseteq Earlier(batch[w], item[w] - 1) \cup {hand[w]}
  BY <1>1, EarlierThanNext
<1> QED
  BY <1>1, <1>2, <1>3, InCalendar

\* The moves of one process within the log, seen from the others.
LEMMA OthersStill ==
  ASSUME Bounds, TypeOK, NEW w \in Writers,
         \E p : pc' = [pc EXCEPT ![w] = p],
         hand' = hand \/ \E h : hand' = [hand EXCEPT ![w] = h],
         nextSeq' = nextSeq \/ \E n : nextSeq' = [nextSeq EXCEPT ![w] = n],
         batch' = batch \/ \E b : batch' = [batch EXCEPT ![w] = b],
         item' = item \/ \E i : item' = [item EXCEPT ![w] = i]
  PROVE  \A v \in Writers \ {w} : Still(v)
<1> SUFFICES ASSUME NEW v \in Writers \ {w}
             PROVE  Still(v)
  OBVIOUS
<1>1. pc'[v] = pc[v] /\ hand'[v] = hand[v] /\ nextSeq'[v] = nextSeq[v]
  BY DEF TypeOK
<1>2. batch'[v] = batch[v] /\ item'[v] = item[v]
  BY DEF Bounds
<1> QED
  BY <1>1, <1>2 DEF Still, Unmoved

\* The invariant holds at first.
LEMMA SyncInvInit == SyncInit => SyncInv
<1> SUFFICES ASSUME SyncInit
             PROVE  SyncInv
  OBVIOUS
<1>1. CursorCovered
  BY NothingEarlier DEF SyncInit, CursorCovered
<1>2. rows = {} /\ \A w \in Writers : pc[w] = "idle" /\ batch[w] = 0
  BY DEF SyncInit, Init
<1>3. \A w \in Writers : InSync(w) /\ Elsewhere(w)
  BY <1>2 DEF InSync, Elsewhere, Appending
<1> QED
  BY <1>1, <1>2, <1>3, SyncersAssumption DEF SyncInv

\* A step that leaves the log and the syncs alone keeps the invariant.
LEMMA StillKeeps ==
  ASSUME SyncInv, CursorCovered', UNCHANGED <<rows, pc, hand, nextSeq, batch, item>>
  PROVE  SyncInv'
<1>1. Logged' = Logged
  BY DEF Logged
<1>2. \A r \in rows' : r.event \in Calendar => Placed(r)'
  BY <1>1 DEF SyncInv, Placed, PlacedAt
<1>3. \A w \in Syncers : InSync(w)'
  BY <1>1 DEF SyncInv, InSync
<1>4. \A w \in Writers \ Syncers : Elsewhere(w)'
  BY DEF SyncInv, Elsewhere
<1> QED
  BY <1>2, <1>3, <1>4 DEF SyncInv

\* A step that leaves the log and the token alone keeps what it covers.
LEMMA CursorStays ==
  ASSUME CursorCovered, UNCHANGED <<rows, cursor>>
  PROVE  CursorCovered'
BY DEF CursorCovered, Logged

\* Every step keeps the invariant.
LEMMA SyncInvNext == Bounds /\ LogInv /\ SyncInv /\ [SyncNext]_syncVars => SyncInv'
<1> SUFFICES ASSUME Bounds, LogInv, SyncInv, [SyncNext]_syncVars
             PROVE  SyncInv'
  OBVIOUS
<1> USE DEF At, Goto, Return
<1>types. TypeOK
  BY DEF LogInv
<1>covered. CursorCovered
  BY DEF SyncInv
<1>here. \A w \in Syncers : w \in Writers /\ InSync(w)
  BY SyncersAssumption DEF SyncInv
<1>1. CASE Publish
  BY <1>1, <1>covered, CursorStays, StillKeeps DEF Publish, logVars
<1>2. CASE ForceResync
  <2>1. CursorCovered'
    BY <1>2, NothingEarlier DEF ForceResync, CursorCovered
  <2> QED
    BY <1>2, <2>1, StillKeeps DEF ForceResync, logVars
<1>3. CASE Tick /\ UNCHANGED calVars
  BY <1>3, <1>covered, CursorStays, StillKeeps DEF Tick, calVars
<1>4. ASSUME NEW w \in Syncers, StartSync(w)
      PROVE  SyncInv'
  <2>1. InSync(w)'
    BY <1>4, <1>here, <1>types DEF StartSync, BeginPass, InSync, TypeOK, Appending
  <2>2. \A v \in Writers \ {w} : Still(v)
    BY <1>4, <1>here, <1>types, OthersStill DEF StartSync, BeginPass
  <2> QED
    BY <1>4, <1>here, <1>covered, <2>1, <2>2, CursorStays, MoveKeeps
       DEF StartSync, BeginPass, Positioned
<1>5. ASSUME NEW w \in Syncers, ReadCursor(w)
      PROVE  SyncInv'
  <2>1. Earlier(ResumeAt(loaded[w], cursor), 1) \subseteq Logged
    BY <1>covered, NothingEarlier DEF ResumeAt, CursorCovered
  <2>2. InSync(w)'
    BY <1>5, <1>here, <2>1 DEF ReadCursor, logVars, InSync, Bounds, Appending, Logged
  <2>3. \A v \in Writers \ {w} : Still(v)
    BY <1>5, <1>here DEF ReadCursor, logVars, Still, Unmoved, Bounds
  <2> QED
    BY <1>5, <1>here, <1>covered, <2>2, <2>3, CursorStays, MoveKeeps
       DEF ReadCursor, logVars, Positioned
<1>6. ASSUME NEW w \in Syncers, YieldEvent(w)
      PROVE  SyncInv'
  <2>1. /\ batch[w] \in 1 .. NumBatches /\ item[w] \in 1 .. Len(Batches[batch[w]])
        /\ Earlier(batch[w], item[w]) \subseteq Logged
    <3>1. batch[w] \in 1 .. loaded[w] /\ item[w] <= Len(Batches[batch[w]]) /\ pc[w] = "ready"
      BY <1>6 DEF YieldEvent, InBatch, Emit
    <3>2. /\ batch[w] \in 1 .. NumBatches /\ batch[w] # 0
          /\ item[w] \in 1 .. Len(Batches[batch[w]])
      BY <3>1, <1>here, BatchFacts DEF Bounds
    <3> QED
      BY <3>1, <3>2, <1>here DEF InSync
  <2>2. /\ batch' = batch /\ item'[w] = item[w] + 1 /\ (item[w] + 1) - 1 = item[w]
        /\ pc'[w] = "check" /\ hand'[w] = Batches[batch[w]][item[w]] /\ rows' = rows
    BY <1>6, <1>here, <1>types DEF YieldEvent, Emit, Bounds, TypeOK
  <2>3. InSync(w)'
    BY <2>1, <2>2 DEF InSync, Appending, Logged
  <2>4. \A v \in Writers \ {w} : Still(v)
    BY <1>6, <1>here, <1>types, OthersStill DEF YieldEvent, Emit
  <2> QED
    BY <1>6, <1>here, <1>covered, <2>2, <2>3, <2>4, CursorStays, MoveKeeps
       DEF YieldEvent, Positioned
<1>7. ASSUME NEW w \in Syncers, CheckExists(w), UNCHANGED calVars
      PROVE  SyncInv'
  <2>1. Earlier(batch[w], item[w]) \subseteq Logged \cup {hand[w]}
    BY <1>7, <1>here, HandPassed DEF CheckExists, Appending
  <2>2. /\ rows' = rows /\ batch' = batch /\ item' = item /\ cursor' = cursor
        /\ \/ pc'[w] = "ready" /\ hand[w] \in Logged
           \/ pc'[w] = "payload" /\ hand' = hand
    BY <1>7, <1>here, <1>types DEF CheckExists, TypeOK, calVars
  <2>3. pc[w] = "check"
    BY <1>7 DEF CheckExists
  <2>4. InSync(w)'
    BY <2>1, <2>2, <2>3, <1>here DEF InSync, Appending, Logged
  <2>5. \A v \in Writers \ {w} : Still(v)
    BY <1>7, <1>here, <1>types, OthersStill DEF CheckExists, calVars
  <2> QED
    BY <1>here, <1>covered, <2>2, <2>4, <2>5, CursorStays, MoveKeeps DEF Positioned
<1>8. ASSUME NEW w \in Syncers, PutPayload(w) \/ PutProvenance(w), UNCHANGED calVars
      PROVE  SyncInv'
  <2>1. /\ rows' = rows /\ batch' = batch /\ item' = item /\ cursor' = cursor /\ hand' = hand
        /\ pc[w] \in {"payload", "provenance"} /\ pc'[w] \in {"provenance", "seq"}
    BY <1>8, <1>here, <1>types DEF PutPayload, PutProvenance, TypeOK, calVars
  <2>2. InSync(w)'
    BY <2>1, <1>here DEF InSync, Appending, Logged
  <2>3. \A v \in Writers \ {w} : Still(v)
    BY <1>8, <1>here, <1>types, OthersStill DEF PutPayload, PutProvenance, calVars
  <2> QED
    BY <1>here, <1>covered, <2>1, <2>2, <2>3, CursorStays, MoveKeeps DEF Positioned
<1>9. ASSUME NEW w \in Syncers, ReadLastSeq(w), UNCHANGED calVars
      PROVE  SyncInv'
  <2>1. /\ rows' = rows /\ batch' = batch /\ item' = item /\ cursor' = cursor /\ hand' = hand
        /\ pc[w] = "seq" /\ pc'[w] = "insert" /\ nextSeq'[w] = LastSeq + 1
    BY <1>9, <1>here, <1>types DEF ReadLastSeq, TypeOK, calVars
  <2>2. \A q \in rows : q.seq < LastSeq + 1
    <3>1. \A q \in rows : q.seq \in 1 .. LastSeq
      BY DEF LogInv, SeqGapless, SeqsOf
    <3> QED
      BY <3>1 DEF LogInv
  <2>3. InSync(w)'
    BY <2>1, <2>2, <1>here DEF InSync, Appending, Logged
  <2>4. \A v \in Writers \ {w} : Still(v)
    BY <1>9, <1>here, <1>types, OthersStill DEF ReadLastSeq, calVars
  <2> QED
    BY <1>here, <1>covered, <2>1, <2>3, <2>4, CursorStays, MoveKeeps DEF Positioned
<1>10. ASSUME NEW w \in Syncers, Insert(w), UNCHANGED calVars
       PROVE  SyncInv'
  <2>0. PICK n : n = NewRow(w)
    OBVIOUS
  <2>1. /\ rows' = rows \cup {n} /\ n.event = hand[w] /\ n.seq = nextSeq[w]
        /\ hand[w] \notin Logged /\ pc[w] = "insert" /\ pc'[w] = "ready"
        /\ batch' = batch /\ item' = item /\ cursor' = cursor
    BY <1>10, <1>here, <1>types, <2>0 DEF Insert, NewRow, TypeOK, calVars
  <2>2. Logged' = Logged \cup {hand[w]}
    BY <2>1 DEF Logged
  <2>3. Earlier(batch[w], item[w]) \subseteq Logged \cup {hand[w]}
    BY <2>1, <1>here, HandPassed DEF Appending
  <2>4. InSync(w)'
    BY <2>1, <2>2, <2>3 DEF InSync, Appending
  <2>5. PlacedAt(n, batch[w], item[w] - 1)'
    <3>1. /\ hand[w] = Batches[batch[w]][item[w] - 1]
          /\ Earlier(batch[w], item[w] - 1) \subseteq Logged
          /\ \A q \in rows : q.event \in Earlier(batch[w], item[w] - 1) => q.seq < nextSeq[w]
      BY <2>1, <1>here DEF InSync, Appending
    <3> QED
      BY <2>1, <2>2, <3>1 DEF PlacedAt
  <2>6. Placed(n)'
    <3>1. batch[w] \in 1 .. NumBatches /\ item[w] - 1 \in 1 .. Len(Batches[batch[w]])
      BY <2>1, <1>here DEF InSync, Appending
    <3> QED
      BY <2>1, <2>5, <3>1 DEF Placed
  <2>7. \A v \in Writers \ {w} : Still(v)
    BY <1>10, <1>here, <1>types, OthersStill DEF Insert, calVars
  <2> QED
    BY <1>here, <2>1, <2>4, <2>6, <2>7, InsertKeeps DEF Positioned
<1>11. ASSUME NEW w \in Syncers, AppendConflict(w) \/ FinishSync(w) \/ CrashSync(w)
       PROVE  SyncInv'
  <2>1. Return(w, "idle") /\ Forget(w) /\ UNCHANGED <<rows, cursor>>
    BY <1>11 DEF AppendConflict, InsertConflict, FinishSync, EndPass, CrashSync, Crash
  <2>2. pc'[w] = "idle" /\ batch'[w] = 0
    BY <2>1, <1>here, <1>types DEF TypeOK, Bounds, Forget
  <2>3. InSync(w)'
    BY <2>2 DEF InSync, Appending
  <2>4. \A v \in Writers \ {w} : Still(v)
    BY <2>1, <1>here, <1>types, OthersStill DEF Forget
  <2> QED
    BY <2>1, <1>here, <1>covered, <2>3, <2>4, CursorStays, MoveKeeps DEF Positioned
<1>12. ASSUME NEW w \in Syncers, SaveCursor(w)
       PROVE  SyncInv'
  <2>1. /\ batch[w] \in 1 .. NumBatches /\ item[w] \in Nat /\ item[w] > Len(Batches[batch[w]])
        /\ pc[w] = "ready" /\ UNCHANGED logVars
    BY <1>12, <1>here, BatchFacts DEF SaveCursor, InBatch, Bounds
  <2>2. /\ cursor' = batch[w] /\ batch'[w] = batch[w] + 1 /\ item'[w] = 1
        /\ pc'[w] = "ready" /\ rows' = rows
    BY <1>12, <1>here, <2>1 DEF SaveCursor, Bounds, logVars
  <2>3. Earlier(batch[w] + 1, 1) \subseteq Logged
    BY <2>1, <1>here, EarlierThanBatch DEF InSync
  <2>4. Logged' = Logged
    BY <2>2 DEF Logged
  <2>5. CursorCovered' /\ InSync(w)'
    BY <2>2, <2>3, <2>4 DEF CursorCovered, InSync, Appending
  <2>6. \A v \in Writers \ {w} : Still(v)
    BY <1>12, <1>here DEF SaveCursor, logVars, Still, Unmoved, Bounds
  <2> QED
    BY <2>2, <1>here, <2>5, <2>6, MoveKeeps DEF Positioned
<1>13. ASSUME NEW w \in Writers \ Syncers, ForeignStep(w)
       PROVE  SyncInv'
  <2>1. Elsewhere(w) /\ UNCHANGED calVars
    BY <1>13 DEF SyncInv, ForeignStep
  <2>2. \A v \in Writers \ {w} : Still(v)
    <3>1. /\ \E p : pc' = [pc EXCEPT ![w] = p]
          /\ hand' = hand \/ \E h : hand' = [hand EXCEPT ![w] = h]
          /\ nextSeq' = nextSeq \/ \E n : nextSeq' = [nextSeq EXCEPT ![w] = n]
      BY <1>13 DEF ForeignStep, BeginPass, Emit, AppendStep, CheckExists, PutPayload,
           PutProvenance, ReadLastSeq, Insert, InsertConflict, EndPass, Crash
    <3> QED
      BY <2>1, <3>1, <1>types, OthersStill DEF calVars
  <2>3. CASE Insert(w)
    <3>1. /\ rows' = rows \cup {NewRow(w)} /\ NewRow(w).event = hand[w]
          /\ hand[w] \notin Logged /\ hand[w] \notin Calendar /\ pc'[w] = "ready"
      BY <2>1, <2>3, <1>types DEF Insert, NewRow, Elsewhere, Appending, TypeOK
    <3>2. Elsewhere(w)'
      BY <3>1 DEF Elsewhere, Appending
    <3> QED
      BY <2>1, <2>2, <3>1, <3>2, InsertKeeps DEF Positioned, calVars
  <2>4. CASE ~ Insert(w)
    <3>1. rows' = rows
      BY <1>13, <2>4 DEF ForeignStep, BeginPass, Emit, AppendStep, CheckExists, PutPayload,
           PutProvenance, ReadLastSeq, InsertConflict, EndPass, Crash
    <3>2. Elsewhere(w)'
      BY <1>13, <2>1, <2>4, <1>types
         DEF ForeignStep, BeginPass, Emit, AppendStep, CheckExists, PutPayload, PutProvenance,
             ReadLastSeq, InsertConflict, EndPass, Crash, Elsewhere, Appending, TypeOK
    <3> QED
      BY <2>1, <2>2, <3>1, <3>2, <1>covered, CursorStays, MoveKeeps DEF Positioned, calVars
  <2> QED
    BY <2>3, <2>4
<1>14. CASE UNCHANGED syncVars
  BY <1>14, <1>covered, CursorStays, StillKeeps DEF syncVars, logVars, calVars
<1> QED
  BY <1>1, <1>2, <1>3, <1>4, <1>5, <1>6, <1>7, <1>8, <1>9, <1>10, <1>11, <1>12, <1>13, <1>14
     DEF SyncNext, SyncStep, AppendYielded

\* The invariant holds at every moment of every run.
LEMMA SyncInvariant == SyncSpec => []SyncInv
BY SyncInvInit, SyncInvNext, BoundsInvariant, SyncLogInvariant, PTL DEF SyncSpec

\* The stored token never runs ahead of the log, for every calendar, every number
\* of processes and every pattern of crashes, conflicts and forced resyncs.
THEOREM CursorNeverAhead == SyncSpec => []CursorCovered
<1>1. SyncInv => CursorCovered
  BY DEF SyncInv
<1> QED
  BY <1>1, SyncInvariant, PTL

\* The log always holds a prefix of the calendar's history.
THEOREM LogHoldsPrefix == SyncSpec => []HistoryPrefix
<1>1. SyncInv => HistoryPrefix
  BY DEF SyncInv, HistoryPrefix, Placed, PlacedAt, Logged
<1> QED
  BY <1>1, SyncInvariant, PTL

\* The fold's order agrees with the order of publication.
THEOREM ReplayKeepsOrder == SyncSpec => []ReplayOrder
<1>1. SyncInv => ReplayOrder
  BY DEF SyncInv, ReplayOrder, Placed, PlacedAt
<1> QED
  BY <1>1, SyncInvariant, PTL

\* What the log promises survives composition with the calendar's syncs, whose
\* cursors and crashes stand between a caller and append: the rows still appear at
\* once and for good, a settled view stays as it is, and nothing dangles.
THEOREM SyncKeepsPromises ==
  SyncSpec => /\ ImplementsBitemporalLog
              /\ SettledViewFrozen
              /\ []RowsResolvable
              /\ []SeqGapless
<1>1. Spec => /\ ImplementsBitemporalLog
              /\ SettledViewFrozen
              /\ []RowsResolvable
              /\ []SeqGapless
  BY LogImplementsBitemporalLog, SettledViewStaysFrozen, RowsAlwaysResolvable, SeqAlwaysGapless
<1> QED
  BY <1>1, SyncImplementsLog, PTL DEF ImplementsEventLog

=============================================================================
