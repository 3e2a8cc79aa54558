--------------------------- MODULE EventLogProofs ---------------------------
(***************************************************************************)
(* Proofs about EventLog, for any set of processes, events and bulk loads. *)
(***************************************************************************)
EXTENDS EventLog, TLAPS

Appending == {"check", "payload", "provenance", "seq", "insert"}

\* What must hold of a process inside append for its INSERT to be harmless: its
\* blobs are in the store and its number leaves no gap.
InAppend(w) ==
  /\ pc[w] \in Appending => hand[w] \in Events
  /\ pc[w] \in {"provenance", "seq", "insert"} => BlobsOf(hand[w].payload) \subseteq blobs
  /\ pc[w] \in {"seq", "insert"} => BlobsOf(hand[w].provenance) \subseteq blobs
  /\ At(w, "insert") => nextSeq[w] \in 1 .. LastSeq + 1

\* The inductive invariant.
LogInv ==
  /\ TypeOK
  /\ RowsResolvable
  /\ OneRowPerEvent
  /\ LastSeq \in Nat /\ SeqGapless
  /\ \A w \in Writers : InAppend(w)

-----------------------------------------------------------------------------
\* The elements of a sequence.
LEMMA ElementIn ==
  ASSUME NEW S, NEW es \in Seq(S), NEW i \in 1 .. Len(es)
  PROVE  es[i] \in S
OBVIOUS

\* A bulk load is a sequence of different events, each with an instant.
LEMMA BulkElements ==
  ASSUME NEW es \in Bulk
  PROVE  /\ Len(es) \in Nat
         /\ \A i \in 1 .. Len(es) : es[i].event \in Events /\ es[i].at \in Nat
         /\ \A i, j \in 1 .. Len(es) : es[i].event = es[j].event => i = j
<1> DEFINE S == [event : Events, at : Nat]
<1>1. es \in Seq(S)
  BY BulkAssumption
<1>2. \A r \in S : r.event \in Events /\ r.at \in Nat
  OBVIOUS
<1> HIDE DEF S
<1>3. Len(es) \in Nat /\ \A i \in 1 .. Len(es) : es[i] \in S
  BY <1>1, ElementIn
<1> QED
  BY <1>2, <1>3, BulkAssumption

\* MAX(seq) of rows numbered 1 .. m is m.
LEMMA MaxSeqOfInterval ==
  ASSUME NEW R, NEW m \in Nat, SeqsOf(R) = 1 .. m
  PROVE  MaxSeq(R) = m
<1>1. CASE R = {}
  <2>1. 1 .. m = {}
    BY <1>1 DEF SeqsOf
  <2>2. m = 0
    BY <2>1, SMT
  <2> QED
    BY <1>1, <2>2 DEF MaxSeq
<1>2. CASE R # {}
  <2>1. 1 .. m # {}
    BY <1>2 DEF SeqsOf
  <2>2. m \in 1 .. m /\ \A n \in 1 .. m : n <= m
    BY <2>1, SMT
  <2>3. \A k \in 1 .. m : (\A n \in 1 .. m : n <= k) => k = m
    BY <2>2, SMT
  <2>4. MaxSeq(R) = CHOOSE k \in 1 .. m : \A n \in 1 .. m : n <= k
    BY <1>2 DEF MaxSeq
  <2> QED
    BY <2>2, <2>3, <2>4
<1> QED
  BY <1>1, <1>2

\* A row numbered within 1 .. MAX(seq) + 1 leaves no gap and never lowers MAX(seq).
LEMMA InsertKeepsInterval ==
  ASSUME NEW R, MaxSeq(R) \in Nat, SeqsOf(R) = 1 .. MaxSeq(R),
         NEW r, r.seq \in 1 .. MaxSeq(R) + 1
  PROVE  /\ MaxSeq(R \cup {r}) \in Nat
         /\ MaxSeq(R \cup {r}) >= MaxSeq(R)
         /\ SeqsOf(R \cup {r}) = 1 .. MaxSeq(R \cup {r})
<1> DEFINE m == IF r.seq = MaxSeq(R) + 1 THEN MaxSeq(R) + 1 ELSE MaxSeq(R)
<1>1. SeqsOf(R \cup {r}) = SeqsOf(R) \cup {r.seq}
  BY DEF SeqsOf
<1>2. (1 .. MaxSeq(R)) \cup {r.seq} = 1 .. m
  BY SMT
<1>3. m \in Nat /\ m >= MaxSeq(R)
  BY SMT
<1>4. SeqsOf(R \cup {r}) = 1 .. m
  BY <1>1, <1>2
<1> HIDE DEF m
<1>5. MaxSeq(R \cup {r}) = m
  BY <1>3, <1>4, MaxSeqOfInterval
<1> QED
  BY <1>3, <1>4, <1>5

\* A bulk load numbered from MAX(seq) + 1 leaves no gap either.
LEMMA BulkKeepsInterval ==
  ASSUME NEW R, MaxSeq(R) \in Nat, SeqsOf(R) = 1 .. MaxSeq(R),
         NEW n \in Nat, NEW New, SeqsOf(New) = {MaxSeq(R) + i : i \in 1 .. n}
  PROVE  /\ MaxSeq(R \cup New) \in Nat
         /\ MaxSeq(R \cup New) >= MaxSeq(R)
         /\ SeqsOf(R \cup New) = 1 .. MaxSeq(R \cup New)
<1> DEFINE m == MaxSeq(R) + n
<1>1. SeqsOf(R \cup New) = SeqsOf(R) \cup {MaxSeq(R) + i : i \in 1 .. n}
  <2>1. SeqsOf(R \cup New) = SeqsOf(R) \cup SeqsOf(New)
    BY DEF SeqsOf
  <2> QED
    BY <2>1
<1>2. (1 .. MaxSeq(R)) \cup {MaxSeq(R) + i : i \in 1 .. n} = 1 .. m
  <2>1. ASSUME NEW k \in 1 .. m, k \notin 1 .. MaxSeq(R)
        PROVE  k \in {MaxSeq(R) + i : i \in 1 .. n}
    <3>1. k - MaxSeq(R) \in 1 .. n /\ k = MaxSeq(R) + (k - MaxSeq(R))
      BY <2>1, SMT
    <3> QED
      BY <3>1
  <2> QED
    BY <2>1, SMT
<1>3. m \in Nat /\ m >= MaxSeq(R)
  BY SMT
<1>4. SeqsOf(R \cup New) = 1 .. m
  BY <1>1, <1>2
<1> HIDE DEF m
<1>5. MaxSeq(R \cup New) = m
  BY <1>3, <1>4, MaxSeqOfInterval
<1> QED
  BY <1>3, <1>4, <1>5

-----------------------------------------------------------------------------
\* The invariant holds of an empty log.
LEMMA LogInvInit == Init => LogInv
<1> SUFFICES ASSUME Init
             PROVE  LogInv
  OBVIOUS
<1>1. LastSeq = 0 /\ SeqsOf(rows) = {}
  BY DEF Init, LastSeq, MaxSeq, SeqsOf
<1>2. SeqGapless /\ LastSeq \in Nat
  <2>1. 1 .. 0 = {}
    BY SMT
  <2> QED
    BY <1>1, <2>1 DEF SeqGapless
<1>3. TypeOK
  BY DEF Init, TypeOK, Steps
<1> QED
  BY <1>2, <1>3 DEF Init, LogInv, RowsResolvable, OneRowPerEvent, InAppend, Appending, At

\* A process that does not move keeps its conditions while the store only grows.
LEMMA BystanderKeeps ==
  ASSUME NEW v, InAppend(v),
         pc'[v] = pc[v], hand'[v] = hand[v], nextSeq'[v] = nextSeq[v],
         blobs \subseteq blobs', LastSeq \in Nat, LastSeq' \in Nat, LastSeq' >= LastSeq
  PROVE  InAppend(v)'
<1>1. ASSUME At(v, "insert")'
      PROVE  nextSeq'[v] \in 1 .. LastSeq' + 1
  <2>1. nextSeq[v] \in 1 .. LastSeq + 1
    BY <1>1 DEF InAppend, At
  <2> QED
    BY <2>1, SMT
<1> QED
  BY <1>1 DEF InAppend, At

\* Steps that leave the table alone leave its numbering alone.
LEMMA SameRows ==
  ASSUME LastSeq \in Nat, SeqGapless, OneRowPerEvent, UNCHANGED rows
  PROVE  LastSeq' = LastSeq /\ SeqGapless' /\ OneRowPerEvent'
BY DEF LastSeq, SeqGapless, OneRowPerEvent

Unmoved(v) == pc'[v] = pc[v] /\ hand'[v] = hand[v] /\ nextSeq'[v] = nextSeq[v]

\* A step of process w that leaves the table alone and only adds blobs preserves
\* the invariant, provided w itself meets its conditions afterwards.
LEMMA QuietStep ==
  ASSUME LogInv, NEW w \in Writers, TypeOK', InAppend(w)',
         rows' = rows, blobs \subseteq blobs', \A v \in Writers \ {w} : Unmoved(v)
  PROVE  LogInv'
<1>1. RowsResolvable'
  BY DEF LogInv, RowsResolvable
<1>2. LastSeq' = LastSeq /\ LastSeq \in Nat /\ SeqGapless' /\ OneRowPerEvent'
  BY SameRows DEF LogInv
<1>3. ASSUME NEW v \in Writers, v # w
      PROVE  InAppend(v)'
  <2>1. pc'[v] = pc[v] /\ hand'[v] = hand[v] /\ nextSeq'[v] = nextSeq[v] /\ InAppend(v)
    BY <1>3 DEF LogInv, Unmoved
  <2>2. LastSeq' >= LastSeq
    BY <1>2, SMT
  <2> QED
    BY <1>2, <2>1, <2>2, BystanderKeeps
<1> QED
  BY <1>1, <1>2, <1>3 DEF LogInv

\* Every step keeps the invariant.
LEMMA LogInvNext == LogInv /\ [Next]_logVars => LogInv'
<1> SUFFICES ASSUME LogInv, [Next]_logVars
             PROVE  LogInv'
  OBVIOUS
<1> USE DEF At, Goto, Return, Steps
<1>types. TypeOK
  BY DEF LogInv
<1>1. CASE Tick
  <2>1. TypeOK'
    BY <1>1, <1>types DEF Tick, TypeOK
  <2>2. LastSeq' = LastSeq /\ LastSeq \in Nat /\ SeqGapless' /\ OneRowPerEvent'
    BY <1>1, SameRows DEF Tick, LogInv
  <2> QED
    BY <1>1, <2>1, <2>2 DEF Tick, LogInv, RowsResolvable, InAppend
<1>2. ASSUME NEW w \in Writers, BeginPass(w)
      PROVE  LogInv'
  <2>1. InAppend(w)'
    BY <1>2, <1>types DEF BeginPass, InAppend, Appending, TypeOK
  <2>2. TypeOK'
    BY <1>2, <1>types, MaxTimeAssumption DEF BeginPass, TypeOK
  <2>3. rows' = rows /\ blobs \subseteq blobs' /\ \A v \in Writers \ {w} : Unmoved(v)
    BY <1>2, <1>types DEF BeginPass, TypeOK, Unmoved
  <2> QED
    BY <2>1, <2>2, <2>3, QuietStep
<1>3. ASSUME NEW w \in Writers, NEW e \in Events, Emit(w, e)
      PROVE  LogInv'
  <2>1. InAppend(w)'
    BY <1>3, <1>types DEF Emit, InAppend, Appending, TypeOK
  <2>2. TypeOK'
    BY <1>3, <1>types DEF Emit, TypeOK
  <2>3. rows' = rows /\ blobs \subseteq blobs' /\ \A v \in Writers \ {w} : Unmoved(v)
    BY <1>3, <1>types DEF Emit, TypeOK, Unmoved
  <2> QED
    BY <2>1, <2>2, <2>3, QuietStep
<1>4. ASSUME NEW w \in Writers, CheckExists(w)
      PROVE  LogInv'
  <2>1. InAppend(w)'
    BY <1>4, <1>types DEF CheckExists, InAppend, Appending, TypeOK, LogInv
  <2>2. TypeOK'
    BY <1>4, <1>types DEF CheckExists, TypeOK
  <2>3. rows' = rows /\ blobs \subseteq blobs' /\ \A v \in Writers \ {w} : Unmoved(v)
    BY <1>4, <1>types DEF CheckExists, TypeOK, Unmoved
  <2> QED
    BY <2>1, <2>2, <2>3, QuietStep
<1>5. ASSUME NEW w \in Writers, PutPayload(w)
      PROVE  LogInv'
  <2>1. InAppend(w)'
    BY <1>5, <1>types DEF PutPayload, InAppend, Appending, TypeOK, LogInv
  <2>2. TypeOK'
    BY <1>5, <1>types DEF PutPayload, TypeOK
  <2>3. rows' = rows /\ blobs \subseteq blobs' /\ \A v \in Writers \ {w} : Unmoved(v)
    BY <1>5, <1>types DEF PutPayload, TypeOK, Unmoved
  <2> QED
    BY <2>1, <2>2, <2>3, QuietStep
<1>6. ASSUME NEW w \in Writers, PutProvenance(w)
      PROVE  LogInv'
  <2>1. InAppend(w)'
    BY <1>6, <1>types DEF PutProvenance, InAppend, Appending, TypeOK, LogInv
  <2>2. TypeOK'
    BY <1>6, <1>types DEF PutProvenance, TypeOK
  <2>3. rows' = rows /\ blobs \subseteq blobs' /\ \A v \in Writers \ {w} : Unmoved(v)
    BY <1>6, <1>types DEF PutProvenance, TypeOK, Unmoved
  <2> QED
    BY <2>1, <2>2, <2>3, QuietStep
<1>7. ASSUME NEW w \in Writers, ReadLastSeq(w)
      PROVE  LogInv'
  <2>1. LastSeq \in Nat /\ LastSeq' = LastSeq
    BY <1>7, SameRows DEF ReadLastSeq, LogInv
  <2>2. LastSeq + 1 \in 1 .. LastSeq + 1 /\ LastSeq + 1 \in Nat
    BY <2>1, SMT
  <2>3. InAppend(w)
    BY DEF LogInv
  <2>4. InAppend(w)'
    BY <1>7, <1>types, <2>1, <2>2, <2>3 DEF ReadLastSeq, InAppend, Appending, TypeOK
  <2>5. TypeOK'
    BY <1>7, <2>2, <1>types DEF ReadLastSeq, TypeOK
  <2>6. rows' = rows /\ blobs \subseteq blobs' /\ \A v \in Writers \ {w} : Unmoved(v)
    BY <1>7, <1>types DEF ReadLastSeq, TypeOK, Unmoved
  <2> QED
    BY <2>4, <2>5, <2>6, QuietStep
<1>8. ASSUME NEW w \in Writers, Insert(w)
      PROVE  LogInv'
  <2>1. /\ InAppend(w) /\ pc[w] = "insert"
        /\ hand[w] \in Events
        /\ Refs(hand[w]) \subseteq blobs
        /\ nextSeq[w] \in 1 .. LastSeq + 1
    BY <1>8 DEF Insert, LogInv, InAppend, Appending, Refs
  <2>2. NewRow(w) \in Row
    BY <2>1, <1>types DEF NewRow, Row, TypeOK
  <2>3. TypeOK'
    BY <1>8, <2>2, <1>types DEF Insert, TypeOK
  <2>4. RowsResolvable'
    BY <1>8, <2>1 DEF Insert, NewRow, LogInv, RowsResolvable
  <2>5. OneRowPerEvent'
    BY <1>8 DEF Insert, NewRow, Logged, LogInv, OneRowPerEvent
  <2>6. LastSeq' \in Nat /\ LastSeq' >= LastSeq /\ SeqGapless'
    BY <1>8, <2>1, InsertKeepsInterval DEF Insert, NewRow, LogInv, LastSeq, SeqGapless
  <2>7. InAppend(w)'
    BY <1>8, <1>types DEF Insert, InAppend, Appending, TypeOK
  <2>8. ASSUME NEW v \in Writers, v # w
        PROVE  InAppend(v)'
    <3>1. /\ pc'[v] = pc[v] /\ hand'[v] = hand[v] /\ nextSeq'[v] = nextSeq[v]
          /\ blobs \subseteq blobs'
      BY <1>8, <2>8, <1>types DEF Insert, TypeOK
    <3> QED
      BY <2>6, <3>1, BystanderKeeps DEF LogInv
  <2> QED
    BY <2>3, <2>4, <2>5, <2>6, <2>7, <2>8 DEF LogInv
<1>9. ASSUME NEW w \in Writers, InsertConflict(w) \/ EndPass(w) \/ Crash(w)
      PROVE  LogInv'
  <2>1. Return(w, "idle") /\ UNCHANGED <<rows, blobs, now, stamp>>
    BY <1>9 DEF InsertConflict, EndPass, Crash
  <2>2. InAppend(w)'
    BY <2>1, <1>types DEF InAppend, Appending, TypeOK
  <2>3. TypeOK'
    BY <2>1, <1>types DEF TypeOK
  <2>4. \A v \in Writers \ {w} : Unmoved(v)
    BY <2>1, <1>types DEF TypeOK, Unmoved
  <2> QED
    BY <2>1, <2>2, <2>3, <2>4, QuietStep
<1>10. ASSUME NEW es \in Bulk, AppendMany(es)
       PROVE  LogInv'
  <2> DEFINE n == Len(es)
             new == [i \in 1 .. n |-> [event |-> es[i].event, stamp |-> es[i].at,
                                       seq |-> LastSeq + i]]
  <2>1. /\ n \in Nat /\ \A i \in 1 .. n : es[i].event \in Events /\ es[i].at \in Nat
        /\ \A i, j \in 1 .. n : es[i].event = es[j].event => i = j
    BY BulkElements
  <2>2. rows' = rows \cup {new[i] : i \in 1 .. n}
    BY <1>10 DEF AppendMany
  <2>3. LastSeq \in Nat
    BY DEF LogInv
  <2>4. \A i \in 1 .. n : new[i] \in Row
    BY <1>types, <2>1, <2>3 DEF TypeOK, Row
  <2>5. TypeOK'
    <3> HIDE DEF new
    <3> QED
      BY <1>10, <2>2, <2>4, <1>types DEF AppendMany, TypeOK
  <2>6. RowsResolvable'
    BY <1>10 DEF AppendMany, LogInv, RowsResolvable
  <2>7. OneRowPerEvent'
    BY <1>10, <2>1 DEF AppendMany, Logged, LogInv, OneRowPerEvent
  <2>8. LastSeq' \in Nat /\ LastSeq' >= LastSeq /\ SeqGapless'
    <3> DEFINE New == {new[i] : i \in 1 .. n}
    <3>1. SeqsOf(New) = {MaxSeq(rows) + i : i \in 1 .. n}
      <4>1. \A i \in 1 .. n : new[i] \in New /\ new[i].seq = MaxSeq(rows) + i
        BY DEF LastSeq
      <4> HIDE DEF new
      <4> QED
        BY <4>1 DEF SeqsOf
    <3>2. MaxSeq(rows) \in Nat /\ SeqsOf(rows) = 1 .. MaxSeq(rows) /\ n \in Nat
      BY <2>1 DEF LogInv, LastSeq, SeqGapless
    <3>3. rows' = rows \cup New
      BY <2>2
    <3> HIDE DEF New, n
    <3>4. /\ MaxSeq(rows') \in Nat /\ MaxSeq(rows') >= MaxSeq(rows)
          /\ SeqsOf(rows') = 1 .. MaxSeq(rows')
      BY <3>1, <3>2, <3>3, BulkKeepsInterval
    <3> QED
      BY <3>4 DEF LastSeq, SeqGapless
  <2>9. ASSUME NEW v \in Writers
        PROVE  InAppend(v)'
    BY <1>10, <2>8, BystanderKeeps DEF AppendMany, LogInv
  <2> QED
    BY <2>5, <2>6, <2>7, <2>8, <2>9 DEF LogInv
<1>11. ASSUME NEW es \in Bulk, NEW n \in 1 .. Len(es), RollBackMany(es, n)
       PROVE  LogInv'
  <2>1. TypeOK' /\ RowsResolvable'
    BY <1>11, <1>types DEF RollBackMany, TypeOK, LogInv, RowsResolvable
  <2>2. LastSeq' = LastSeq /\ LastSeq \in Nat /\ SeqGapless' /\ OneRowPerEvent'
    BY <1>11, SameRows DEF RollBackMany, LogInv
  <2>3. ASSUME NEW v \in Writers
        PROVE  InAppend(v)'
    BY <1>11, <2>2, BystanderKeeps DEF RollBackMany, LogInv
  <2> QED
    BY <2>1, <2>2, <2>3 DEF LogInv
<1>12. CASE UNCHANGED logVars
  BY <1>12 DEF logVars, LogInv, TypeOK, RowsResolvable, OneRowPerEvent, SeqGapless,
               LastSeq, InAppend
<1> QED
  BY <1>1, <1>2, <1>3, <1>4, <1>5, <1>6, <1>7, <1>8, <1>9, <1>10, <1>11, <1>12
     DEF Next, AppendStep

\* The invariant holds at every moment of every run.
LEMMA LogInvariant == Spec => []LogInv
BY LogInvInit, LogInvNext, PTL DEF Spec

\* The type invariant, for every number of processes and every set of events.
THEOREM TypeCorrect == Spec => []TypeOK
<1>1. LogInv => TypeOK
  BY DEF LogInv
<1> QED
  BY <1>1, LogInvariant, PTL

\* No row ever points at a missing blob, whatever crashes and races happen.
THEOREM RowsAlwaysResolvable == Spec => []RowsResolvable
<1>1. LogInv => RowsResolvable
  BY DEF LogInv
<1> QED
  BY <1>1, LogInvariant, PTL

\* The sequence numbers in use always form 1 .. LastSeq.
THEOREM SeqAlwaysGapless == Spec => []SeqGapless
<1>1. LogInv => SeqGapless
  BY DEF LogInv
<1> QED
  BY <1>1, LogInvariant, PTL

-----------------------------------------------------------------------------
\* A pass that could still add a row at or before tau keeps tau unsettled, so the
\* view as of a settled tau changes only where someone goes back behind it.
LEMMA SettledStep ==
  ASSUME LogInv, [Next]_logVars, NEW tau \in 0 .. MaxTime, SettledBy(tau), ~ BackDated(tau)
  PROVE  SettledBy(tau)' /\ KnownBy(tau)' = KnownBy(tau)
<1>1. SettledBy(tau)' /\ KnownBy(tau)' = KnownBy(tau)
  <2> USE DEF SettledBy, KnownBy, At, Goto, Return
  <2>types. /\ TypeOK /\ tau \in Nat /\ now \in Nat
            /\ \A w \in Writers : stamp[w] \in Nat
    BY MaxTimeAssumption DEF LogInv, TypeOK
  <2>1. CASE Tick
    BY <2>1, <2>types DEF Tick
  <2>2. ASSUME NEW w \in Writers, BeginPass(w)
        PROVE  SettledBy(tau)' /\ KnownBy(tau)' = KnownBy(tau)
    <3>1. ~ (stamp'[w] <= tau) /\ stamp'[w] \in Nat
      BY <2>2, <2>types, MaxTimeAssumption DEF BeginPass, BackDated, TypeOK
    <3>2. /\ rows' = rows /\ now' = now
          /\ \A v \in Writers : v # w => pc'[v] = pc[v] /\ stamp'[v] = stamp[v]
      BY <2>2, <2>types DEF BeginPass, TypeOK
    <3> QED
      BY <3>1, <3>2, <2>types
  <2>3. ASSUME NEW w \in Writers,
               \/ \E e \in Events : Emit(w, e)
               \/ CheckExists(w) \/ PutPayload(w) \/ PutProvenance(w) \/ ReadLastSeq(w)
        PROVE  SettledBy(tau)' /\ KnownBy(tau)' = KnownBy(tau)
    <3>1. rows' = rows /\ now' = now /\ stamp' = stamp
      BY <2>3 DEF Emit, CheckExists, PutPayload, PutProvenance, ReadLastSeq
    <3>2. ~ At(w, "idle") /\ \A v \in Writers : v # w => pc'[v] = pc[v]
      BY <2>3, <2>types
         DEF Emit, CheckExists, PutPayload, PutProvenance, ReadLastSeq, TypeOK
    <3> QED
      BY <3>1, <3>2
  <2>4. ASSUME NEW w \in Writers, Insert(w)
        PROVE  SettledBy(tau)' /\ KnownBy(tau)' = KnownBy(tau)
    <3>1. stamp[w] > tau /\ rows' = rows \cup {NewRow(w)} /\ now' = now /\ stamp' = stamp
      BY <2>4 DEF Insert
    <3>2. \A v \in Writers : v # w => pc'[v] = pc[v]
      BY <2>4, <2>types DEF Insert, TypeOK
    <3>3. ~ (NewRow(w).stamp <= tau)
      BY <3>1, <2>types DEF NewRow
    <3> QED
      BY <3>1, <3>2, <3>3
  <2>5. ASSUME NEW w \in Writers, InsertConflict(w) \/ EndPass(w) \/ Crash(w)
        PROVE  SettledBy(tau)' /\ KnownBy(tau)' = KnownBy(tau)
    BY <2>5, <2>types DEF InsertConflict, EndPass, Crash, TypeOK
  <2>6. ASSUME NEW es \in Bulk, AppendMany(es)
        PROVE  SettledBy(tau)' /\ KnownBy(tau)' = KnownBy(tau)
    <3>0. \A i \in 1 .. Len(es) : ~ (es[i].at <= tau)
      BY <2>6 DEF BackDated
    <3>1. \A r \in rows' \ rows : ~ (r.stamp <= tau)
      BY <2>6, <3>0 DEF AppendMany
    <3>2. rows \subseteq rows' /\ UNCHANGED <<now, pc, stamp>>
      BY <2>6 DEF AppendMany
    <3> QED
      BY <3>1, <3>2
  <2>7. ASSUME NEW es \in Bulk, NEW n \in 1 .. Len(es), RollBackMany(es, n)
        PROVE  SettledBy(tau)' /\ KnownBy(tau)' = KnownBy(tau)
    BY <2>7 DEF RollBackMany
  <2>8. CASE UNCHANGED logVars
    BY <2>8 DEF logVars
  <2> QED
    BY <2>1, <2>2, <2>3, <2>4, <2>5, <2>6, <2>7, <2>8 DEF Next, AppendStep
<1> QED
  BY <1>1

\* The view as of a settled instant is the same until someone goes back behind it.
THEOREM SettledViewStaysFrozen == Spec => SettledViewFrozen
<1>1. LogInv /\ [Next]_logVars =>
        [\A tau \in 0 .. MaxTime :
           SettledBy(tau) /\ ~ BackDated(tau) =>
             SettledBy(tau)' /\ KnownBy(tau)' = KnownBy(tau)]_logVars
  BY SettledStep
<1> QED
  BY <1>1, LogInvariant, PTL DEF Spec, SettledViewFrozen

\* Every frozen clock stands after tau and every bulk load is dated after it: so it is,
\* for every tau, where only the worker and "omb sync run" write.
OutOfReach(tau) ==
  /\ \A ts \in Given : ts > tau
  /\ \A es \in Bulk : \A i \in 1 .. Len(es) : es[i].at > tau

\* Nobody can go back behind an instant that is settled and out of reach of every
\* frozen clock and bulk load: its view is final.
THEOREM ViewsOutOfReachAreFinal ==
  Spec => [][\A tau \in 0 .. MaxTime :
               SettledBy(tau) /\ OutOfReach(tau) =>
                 SettledBy(tau)' /\ KnownBy(tau)' = KnownBy(tau)]_logVars
<1>1. ASSUME LogInv, [Next]_logVars, NEW tau \in 0 .. MaxTime, SettledBy(tau), OutOfReach(tau)
      PROVE  ~ BackDated(tau)
  <2>types. /\ TypeOK /\ tau \in Nat /\ now \in Nat /\ stamp \in [Writers -> Nat]
    BY <1>1, MaxTimeAssumption DEF LogInv, TypeOK
  <2>1. ASSUME NEW w \in Writers, At(w, "idle"), ~ At(w, "idle")', stamp'[w] <= tau
        PROVE  FALSE
    <3>1. BeginPass(w)
      BY <1>1, <2>1, <2>types
         DEF Next, logVars, At, Goto, Return, Tick, BeginPass, Emit, AppendStep, CheckExists,
             PutPayload, PutProvenance, ReadLastSeq, Insert, InsertConflict, EndPass, Crash,
             AppendMany, RollBackMany, TypeOK
    <3>2. stamp'[w] \in {now} \cup Given
      BY <3>1, <2>types DEF BeginPass
    <3>3. now > tau /\ \A ts \in Given : ts \in Nat /\ ts > tau
      BY <1>1, <2>types, MaxTimeAssumption DEF SettledBy, OutOfReach
    <3> QED
      BY <2>1, <3>2, <3>3, <2>types
  <2>2. ASSUME NEW es \in Bulk, NEW i \in 1 .. Len(es), es[i].at <= tau
        PROVE  FALSE
    <3>1. es[i].at > tau /\ es[i].at \in Nat
      BY <1>1, BulkElements DEF OutOfReach
    <3> QED
      BY <2>2, <3>1, <2>types
  <2> QED
    BY <2>1, <2>2 DEF BackDated
<1>2. LogInv /\ [Next]_logVars =>
        [\A tau \in 0 .. MaxTime :
           SettledBy(tau) /\ OutOfReach(tau) =>
             SettledBy(tau)' /\ KnownBy(tau)' = KnownBy(tau)]_logVars
  BY <1>1, SettledStep
<1> QED
  BY <1>2, LogInvariant, PTL DEF Spec

-----------------------------------------------------------------------------
\* The refinement mapping, named.
OpenOf == [w \in Writers |-> IF pc[w] = "idle" THEN Closed ELSE stamp[w]]

\* Moving a process between two steps of one pass shows nothing to a reader.
LEMMA InsidePassStutters ==
  ASSUME TypeOK, NEW w \in Writers, pc[w] # "idle", NEW p, p # "idle",
         pc' = [pc EXCEPT ![w] = p], rows' = rows, now' = now, stamp' = stamp
  PROVE  UNCHANGED <<rows, OpenOf, now>>
<1>1. \A v \in Writers : pc'[v] = "idle" <=> pc[v] = "idle"
  BY DEF TypeOK
<1> QED
  BY <1>1 DEF OpenOf

\* Every step of the log is a step of the abstract log, or invisible to it.
LEMMA StepSimulation ==
  ASSUME LogInv, [Next]_logVars
  PROVE  [Abs!AbsNext]_(Abs!absVars)
<1> USE DEF At, Goto, Return, Steps
<1>types. TypeOK
  BY DEF LogInv
<1>vars. ASSUME UNCHANGED <<rows, OpenOf, now>>
         PROVE  UNCHANGED Abs!absVars
  BY <1>vars DEF Abs!absVars, OpenOf
<1>same. Abs!Learned = Logged /\ Abs!Highest = LastSeq
  BY DEF Abs!Learned, Logged, Abs!Highest, Abs!Numbers, LastSeq, MaxSeq, SeqsOf
<1>1. CASE Tick
  BY <1>1 DEF Tick, Abs!AbsNext, Abs!Advance
<1>2. ASSUME NEW w \in Writers, BeginPass(w)
      PROVE  Abs!AbsNext
  <2>1. Abs!BeginAt(w)
    <3>1. PICK ts \in {now} \cup Given : stamp' = [stamp EXCEPT ![w] = ts]
      BY <1>2 DEF BeginPass
    <3>2. OpenOf' = [OpenOf EXCEPT ![w] = ts] /\ OpenOf[w] = Closed
      BY <1>2, <3>1, <1>types DEF BeginPass, OpenOf, TypeOK
    <3> QED
      BY <1>2, <3>2 DEF BeginPass, Abs!BeginAt, OpenOf
  <2> QED
    BY <2>1 DEF Abs!AbsNext
<1>3. ASSUME NEW w \in Writers, NEW e \in Events, Emit(w, e)
      PROVE  UNCHANGED Abs!absVars
  <2>1. /\ pc[w] # "idle" /\ pc' = [pc EXCEPT ![w] = "check"]
        /\ rows' = rows /\ now' = now /\ stamp' = stamp
    BY <1>3 DEF Emit
  <2>2. UNCHANGED <<rows, OpenOf, now>>
    BY <2>1, <1>types, InsidePassStutters
  <2> QED
    BY <2>2, <1>vars
<1>4. ASSUME NEW w \in Writers,
             CheckExists(w) \/ PutPayload(w) \/ PutProvenance(w) \/ ReadLastSeq(w)
      PROVE  UNCHANGED Abs!absVars
  <2>1. \E p : /\ pc[w] # "idle" /\ p # "idle" /\ pc' = [pc EXCEPT ![w] = p]
               /\ rows' = rows /\ now' = now /\ stamp' = stamp
    BY <1>4 DEF CheckExists, PutPayload, PutProvenance, ReadLastSeq
  <2>2. UNCHANGED <<rows, OpenOf, now>>
    BY <2>1, <1>types, InsidePassStutters
  <2> QED
    BY <2>2, <1>vars
<1>5. ASSUME NEW w \in Writers, Insert(w)
      PROVE  Abs!AbsNext
  <2>1. hand[w] \in Events \ Abs!Learned /\ nextSeq[w] \in 1 .. Abs!Highest + 1
    BY <1>5, <1>same DEF Insert, LogInv, InAppend, Appending
  <2>2. OpenOf' = OpenOf /\ OpenOf[w] = stamp[w]
    BY <1>5, <1>types DEF Insert, OpenOf, TypeOK
  <2>3. stamp[w] # Closed
    BY <1>types DEF TypeOK, Closed
  <2>4. rows' = rows \cup {[event |-> hand[w], stamp |-> OpenOf[w], seq |-> nextSeq[w]]}
    BY <1>5, <2>2 DEF Insert, NewRow
  <2>5. Abs!Learn(w)
    BY <1>5, <2>1, <2>2, <2>3, <2>4 DEF Insert, Abs!Learn, OpenOf
  <2> QED
    BY <2>5 DEF Abs!AbsNext
<1>6. ASSUME NEW w \in Writers, InsertConflict(w) \/ EndPass(w) \/ Crash(w)
      PROVE  Abs!AbsNext
  <2>1. /\ pc[w] # "idle" /\ pc' = [pc EXCEPT ![w] = "idle"]
        /\ rows' = rows /\ now' = now /\ stamp' = stamp
    BY <1>6 DEF InsertConflict, EndPass, Crash
  <2>2. OpenOf' = [OpenOf EXCEPT ![w] = Closed] /\ OpenOf[w] # Closed
    <3>1. OpenOf[w] = stamp[w] /\ stamp[w] # Closed
      BY <2>1, <1>types DEF OpenOf, TypeOK, Closed
    <3>2. OpenOf' = [OpenOf EXCEPT ![w] = Closed]
      BY <2>1, <1>types DEF OpenOf, TypeOK
    <3> QED
      BY <3>1, <3>2
  <2>3. Abs!EndAt(w)
    BY <2>1, <2>2 DEF Abs!EndAt, OpenOf
  <2> QED
    BY <2>3 DEF Abs!AbsNext
<1>7. ASSUME NEW es \in Bulk, AppendMany(es)
      PROVE  Abs!AbsNext
  <2>1. OpenOf' = OpenOf /\ now' = now
    BY <1>7 DEF AppendMany, OpenOf
  <2>2. Abs!LearnMany
    BY <1>7, <2>1, <1>same DEF AppendMany, Abs!LearnMany, OpenOf
  <2> QED
    BY <2>2 DEF Abs!AbsNext
<1>8. ASSUME NEW es \in Bulk, NEW n \in 1 .. Len(es), RollBackMany(es, n)
      PROVE  UNCHANGED Abs!absVars
  BY <1>8, <1>vars DEF RollBackMany, OpenOf
<1>9. CASE UNCHANGED logVars
  BY <1>9, <1>vars DEF logVars, OpenOf
<1> QED
  BY <1>1, <1>2, <1>3, <1>4, <1>5, <1>6, <1>7, <1>8, <1>9 DEF Next, AppendStep

\* The log with its five-step append implements the log whose rows appear at
\* once, for every number of processes.
THEOREM LogImplementsBitemporalLog == Spec => ImplementsBitemporalLog
<1>1. Init => Abs!AbsInit
  BY DEF Init, Abs!AbsInit
<1>2. LogInv /\ [Next]_logVars => [Abs!AbsNext]_(Abs!absVars)
  BY StepSimulation
<1> QED
  BY <1>1, <1>2, LogInvariant, PTL DEF Spec, ImplementsBitemporalLog, Abs!AbsSpec

=============================================================================
