---------------------------- MODULE TraceProofs ----------------------------
(***************************************************************************)
(* Proofs about TraceIngest: typing, the span index against the stored     *)
(* documents, what the gap between ingest's two transactions can lose, and *)
(* when the richer run wins.                                               *)
(***************************************************************************)
EXTENDS TraceIngest, FiniteSetTheorems, TLAPS

\* The spans a run or the store holds are finitely many, so COUNT(*) counts them.
FiniteSpans ==
  /\ \A t \in Traces : IsFiniteSet(rows[t])
  /\ \A p \in Finalizers : IsFiniteSet(mine[p].spans)

TypeInv == TraceTypeOK /\ FiniteSpans

\* The positions of a log or a transcript that give a span are finitely many.
LEMMA FinitePositions ==
  ASSUME NEW T, NEW q \in Seq(T), NEW I \in SUBSET Pos(q)
  PROVE  IsFiniteSet(I) /\ Cardinality(I) \in Nat
<1>1. Len(q) \in Nat
  OBVIOUS
<1>2. IsFiniteSet(1 .. Len(q))
  BY <1>1, FS_Interval
<1> QED
  BY <1>2, FS_Subset, FS_CardinalityType DEF Pos

\* A run built from the hook log is a run, and its spans are finitely many.
LEMMA HookRun ==
  ASSUME NEW s \in Sessions, NEW events \in Seq(HookEvents \cup {"Stop"})
  PROVE  FromHookLog(s, events) \in Runs /\ IsFiniteSet(FromHookLog(s, events).spans)
<1> DEFINE I == Captured(events)
           f(i) == [kind |-> SpanKind(events[i]), seed |-> <<s, i>>, salt |-> 0]
           S == {f(i) : i \in I}
<1>1. I \in SUBSET Pos(events)
  BY DEF Captured
<1>2. IsFiniteSet(I) /\ Cardinality(I) \in Nat
  BY <1>1, FinitePositions
<1>3. IsFiniteSet({Root} \cup S)
  <2>1. IsFiniteSet(S)
    <3> DEFINE g == [i \in I |-> f(i)]
    <3>1. g \in Surjection(I, S)
      BY DEF Surjection
    <3> HIDE DEF I, S, g
    <3> QED
      BY <1>2, <3>1, FS_Surjection
  <2> QED
    BY <2>1, FS_Singleton, FS_Union
<1>4. ASSUME NEW i \in I  PROVE f(i) \in SpanIds
  <2>1. i \in Nat \ {0}
    BY <1>1 DEF Pos
  <2>2. <<s, i>> \in HookSeeds
    BY <2>1 DEF HookSeeds
  <2>3. SpanKind(events[i]) \in SpanKinds
    BY DEF Captured, SpanKind, SpanKinds
  <2> QED
    BY <2>2, <2>3 DEF SpanIds
<1>5. Root \in SpanIds
  BY DEF Root, SpanIds, SpanKinds
<1>6. FromHookLog(s, events) = [spans |-> {Root} \cup S, len |-> 1 + Cardinality(I)]
  BY DEF FromHookLog
<1> QED
  BY <1>2, <1>3, <1>4, <1>5, <1>6 DEF Runs

\* A run built from a transcript is a run, its spans are finitely many, and none is
\* one the hook stamped.
LEMMA TranscriptRun ==
  ASSUME NEW blocks \in Seq(Blocks)
  PROVE  /\ FromTranscript(blocks) \in Runs
         /\ IsFiniteSet(FromTranscript(blocks).spans)
         /\ \A x \in FromTranscript(blocks).spans : x.seed \notin HookSeeds
<1> DEFINE I == Shown(blocks)
           S == {SpanOf(blocks, i) : i \in I}
<1>1. I \in SUBSET Pos(blocks)
  BY DEF Shown
<1>2. IsFiniteSet(I) /\ Cardinality(I) \in Nat
  BY <1>1, FinitePositions
<1>3. IsFiniteSet({Root} \cup S)
  <2>1. IsFiniteSet(S)
    <3> DEFINE g == [i \in I |-> SpanOf(blocks, i)]
    <3>1. g \in Surjection(I, S)
      BY DEF Surjection
    <3> HIDE DEF I, S, g
    <3> QED
      BY <1>2, <3>1, FS_Surjection
  <2> QED
    BY <2>1, FS_Singleton, FS_Union
<1>4. ASSUME NEW i \in I
      PROVE  SpanOf(blocks, i) \in SpanIds /\ SpanOf(blocks, i).seed \notin HookSeeds
  <2>1. blocks[i] \in Blocks /\ blocks[i].kind \in {"user", "assistant", "tool_use"}
    BY DEF Shown, Pos
  <2>2. SpanKind(blocks[i].kind) \in SpanKinds
    BY <2>1 DEF SpanKind, SpanKinds
  <2>3. Cardinality({j \in Shown(blocks) : j < i}) \in Nat
    <3>1. {j \in Shown(blocks) : j < i} \in SUBSET Pos(blocks)
      BY DEF Shown
    <3> QED
      BY <3>1, FinitePositions
  <2>4. blocks[i].seed \in Seeds
    BY <2>1 DEF Blocks
  <2>5. SpanOf(blocks, i).seed = blocks[i].seed
    BY DEF SpanOf
  <2>6. SpanOf(blocks, i).salt \in Nat
    BY <2>3 DEF SpanOf
  <2>7. SpanOf(blocks, i) \in SpanIds
    BY <2>2, <2>3, <2>4 DEF SpanOf, SpanIds
  <2> QED
    BY <2>4, <2>5, <2>7, SeedsAssumption
<1>5. Root \in SpanIds /\ Root.seed \notin HookSeeds
  BY SeedsAssumption DEF Root, SpanIds, SpanKinds
<1>6. FromTranscript(blocks) = [spans |-> {Root} \cup S, len |-> 1 + Cardinality(I)]
  BY DEF FromTranscript
<1> QED
  BY <1>2, <1>3, <1>4, <1>5, <1>6 DEF Runs

-----------------------------------------------------------------------------
\* A process that starts to ingest a run keeps the store's and the processes' types.
LEMMA IngestTyped ==
  ASSUME TypeInv, NEW p \in Finalizers, NEW t \in Traces, NEW run \in Runs,
         IsFiniteSet(run.spans), Ingest(p, t, run),
         log' \in [Sessions -> Seq(HookEvents \cup {"Stop"})], transcript' = transcript
  PROVE  TypeInv'
<1> USE DEF TypeInv, TraceTypeOK, FiniteSpans, Ingest, storeVars
<1>1. /\ pc' \in [Finalizers -> {"idle", "look", "count", "delete", "insert"}]
      /\ trace' \in [Finalizers -> Traces]
      /\ mine' \in [Finalizers -> Runs]
      /\ \A q \in Finalizers : IsFiniteSet(mine'[q].spans)
  OBVIOUS
<1>2. doc' = doc /\ rows' = rows /\ best' = best /\ failures' = failures
  OBVIOUS
<1>3. excused' \subseteq Traces
  OBVIOUS
<1> QED
  BY <1>1, <1>2, <1>3 DEF Stored

\* A process that leaves ingest keeps the processes' types.
LEMMA DoneTyped ==
  ASSUME TypeInv, NEW p \in Finalizers, Done(p)
  PROVE  /\ pc' \in [Finalizers -> {"idle", "look", "count", "delete", "insert"}]
         /\ trace' \in [Finalizers -> Traces]
         /\ mine' \in [Finalizers -> Runs]
         /\ \A q \in Finalizers : IsFiniteSet(mine'[q].spans)
<1>1. [spans |-> {}, len |-> 0] \in Runs /\ IsFiniteSet({})
  BY FS_EmptySet DEF Runs
<1> QED
  BY <1>1 DEF TypeInv, TraceTypeOK, FiniteSpans, Done, Traces

\* Every step keeps every variable in its type, span ids a primary key, and the
\* spans of every run and trace finitely many.
LEMMA TypeStep ==
  ASSUME TypeInv, [TraceNext]_traceVars
  PROVE  TypeInv'
<1> USE DEF traceVars, fileVars, storeVars, ghostVars
<1>1. CASE UNCHANGED traceVars
  BY <1>1 DEF TypeInv, TraceTypeOK, FiniteSpans, Stored
<1>2. ASSUME NEW s \in Sessions, WriteBlock(s)  PROVE TypeInv'
  <2>1. PICK script \in Scripts :
          /\ Len(transcript[s]) < Len(script)
          /\ transcript' = [transcript EXCEPT ![s] = Append(@, script[Len(transcript[s]) + 1])]
    BY <1>2 DEF WriteBlock
  <2>2. script \in Seq(Blocks) /\ transcript[s] \in Seq(Blocks)
    BY ScriptsAssumption DEF TypeInv, TraceTypeOK
  <2>3. script[Len(transcript[s]) + 1] \in Blocks
    BY <2>1, <2>2
  <2>4. transcript' \in [Sessions -> Seq(Blocks)]
    BY <2>1, <2>2, <2>3 DEF TypeInv, TraceTypeOK
  <2> QED
    BY <1>2, <2>4 DEF WriteBlock, TypeInv, TraceTypeOK, FiniteSpans
<1>3. ASSUME NEW s \in Sessions, Capture(s)  PROVE TypeInv'
  <2>1. log' \in [Sessions -> Seq(HookEvents \cup {"Stop"})]
    BY <1>3 DEF Capture, TypeInv, TraceTypeOK
  <2> QED
    BY <1>3, <2>1 DEF Capture, TypeInv, TraceTypeOK, FiniteSpans
<1>4. ASSUME NEW p \in Finalizers, NEW s \in Sessions, Finalize(p, s)  PROVE TypeInv'
  <2>1. log[s] \in Seq(HookEvents \cup {"Stop"}) /\ transcript[s] \in Seq(Blocks)
    BY DEF TypeInv, TraceTypeOK
  <2>2. log' \in [Sessions -> Seq(HookEvents \cup {"Stop"})]
    BY <1>4, <2>1 DEF Finalize, TypeInv, TraceTypeOK
  <2>3. PICK run \in {FromTranscript(transcript[s]), FromHookLog(s, log[s])} :
          IF HasContent(run)
          THEN Ingest(p, s, run)
          ELSE UNCHANGED <<storeVars, pc, trace, mine, ghostVars>>
    BY <1>4 DEF Finalize
  <2>4. run \in Runs /\ IsFiniteSet(run.spans)
    BY <2>1, HookRun, TranscriptRun
  <2>5. CASE HasContent(run)
    BY <1>4, <2>2, <2>3, <2>4, <2>5, IngestTyped DEF Finalize, Traces
  <2>6. CASE ~ HasContent(run)
    BY <1>4, <2>2, <2>3, <2>6 DEF Finalize, TypeInv, TraceTypeOK, FiniteSpans
  <2> QED
    BY <2>5, <2>6
<1>5. ASSUME NEW p \in Finalizers, NEW s \in Sessions, Import(p, s)  PROVE TypeInv'
  <2>1. PICK t \in {s, Ungrouped} : Ingest(p, t, FromTranscript(transcript[s]))
    BY <1>5 DEF Import
  <2>2. FromTranscript(transcript[s]) \in Runs /\ IsFiniteSet(FromTranscript(transcript[s]).spans)
    BY TranscriptRun DEF TypeInv, TraceTypeOK
  <2>3. log' = log /\ transcript' = transcript /\ t \in Traces
    BY <1>5 DEF Import, Traces
  <2> QED
    BY <2>1, <2>2, <2>3, IngestTyped DEF TypeInv, TraceTypeOK
<1>6. ASSUME NEW p \in Finalizers, LookUp(p)  PROVE TypeInv'
  BY <1>6 DEF LookUp, TypeInv, TraceTypeOK, FiniteSpans
<1>7. ASSUME NEW p \in Finalizers, KeepStored(p) \/ InsertConflict(p)  PROVE TypeInv'
  BY <1>7, DoneTyped DEF KeepStored, InsertConflict, TypeInv, TraceTypeOK, FiniteSpans
<1>8. ASSUME NEW p \in Finalizers, FindRicher(p)  PROVE TypeInv'
  BY <1>8 DEF FindRicher, TypeInv, TraceTypeOK, FiniteSpans
<1>9. ASSUME NEW p \in Finalizers, DeleteRun(p)  PROVE TypeInv'
  <2>1. /\ doc' \in [Traces -> {NoRun} \cup Runs]
        /\ rows' \in [Traces -> SUBSET SpanIds]
        /\ \A t \in Traces : rows'[t] \subseteq rows[t]
    BY <1>9 DEF DeleteRun, TypeInv, TraceTypeOK
  <2>2. \A t \in Traces : IsFiniteSet(rows'[t])
    BY <2>1, FS_Subset DEF TypeInv, FiniteSpans
  <2>3. \A t, u \in Traces : t # u => rows'[t] \cap rows'[u] = {}
    BY <2>1 DEF TypeInv, TraceTypeOK
  <2>4. pc' \in [Finalizers -> {"idle", "look", "count", "delete", "insert"}]
    BY <1>9 DEF DeleteRun, TypeInv, TraceTypeOK
  <2> QED
    BY <1>9, <2>1, <2>2, <2>3, <2>4 DEF DeleteRun, TypeInv, TraceTypeOK, FiniteSpans
<1>10. ASSUME NEW p \in Finalizers, InsertRun(p)  PROVE TypeInv'
  <2> DEFINE t == trace[p]
  <2>1. t \in Traces /\ mine[p] \in Runs /\ IsFiniteSet(mine[p].spans)
    BY DEF TypeInv, TraceTypeOK, FiniteSpans
  <2>2. /\ doc' = [doc EXCEPT ![t] = mine[p]]
        /\ rows' = [rows EXCEPT ![t] = @ \cup NewSpans(mine[p])]
        /\ best' = [best EXCEPT ![t] = IF mine[p].len > @ THEN mine[p].len ELSE @]
        /\ excused' \in {excused, excused \cup {t}}
    BY <1>10 DEF InsertRun
  <2>3. NewSpans(mine[p]) \subseteq mine[p].spans /\ mine[p].spans \subseteq SpanIds
    BY <2>1 DEF NewSpans, Runs
  <2>4. IsFiniteSet(rows[t] \cup NewSpans(mine[p]))
    BY <2>1, <2>3, FS_Subset, FS_Union DEF TypeInv, FiniteSpans
  <2>5. \A u \in Traces : IsFiniteSet(rows'[u])
    BY <2>1, <2>2, <2>4 DEF TypeInv, TraceTypeOK, FiniteSpans
  <2>6. \A u, v \in Traces : u # v => rows'[u] \cap rows'[v] = {}
    <3> SUFFICES ASSUME NEW u \in Traces, NEW v \in Traces, u # v, NEW x,
                        x \in rows'[u], x \in rows'[v]
                 PROVE  FALSE
      OBVIOUS
    <3>1. rows \in [Traces -> SUBSET SpanIds] /\ rows[u] \cap rows[v] = {}
      BY DEF TypeInv, TraceTypeOK
    <3>2. \A w \in Traces : x \in NewSpans(mine[p]) => x \notin rows[w]
      BY DEF NewSpans
    <3> QED
      BY <2>1, <2>2, <3>1, <3>2
  <2>7. doc' \in [Traces -> {NoRun} \cup Runs] /\ rows' \in [Traces -> SUBSET SpanIds]
    BY <2>1, <2>2, <2>3 DEF TypeInv, TraceTypeOK
  <2>8. best' \in [Traces -> Nat] /\ excused' \subseteq Traces
    BY <2>1, <2>2 DEF TypeInv, TraceTypeOK, Runs
  <2> QED
    BY <1>10, <2>5, <2>6, <2>7, <2>8, DoneTyped DEF InsertRun, TypeInv, TraceTypeOK, FiniteSpans
<1>11. ASSUME NEW p \in Finalizers, Fail(p)  PROVE TypeInv'
  <2>1. excused' \subseteq Traces /\ failures' \in 0 .. MaxFailures
    BY <1>11, BoundsAssumption DEF Fail, TypeInv, TraceTypeOK
  <2> QED
    BY <1>11, <2>1, DoneTyped DEF Fail, TypeInv, TraceTypeOK, FiniteSpans
<1> QED
  BY <1>1, <1>2, <1>3, <1>4, <1>5, <1>6, <1>7, <1>8, <1>9, <1>10, <1>11
  DEF TraceNext, IngestStep

\* The store starts empty and well typed.
LEMMA TypeStart == TraceInit => TypeInv
<1>1. [spans |-> {}, len |-> 0] \in Runs /\ IsFiniteSet({})
  BY FS_EmptySet DEF Runs
<1> SUFFICES ASSUME TraceInit  PROVE TypeInv
  OBVIOUS
<1>2. FiniteSpans
  BY <1>1 DEF TraceInit, FiniteSpans
<1>3. /\ \A T : <<>> \in Seq(T)
      /\ \A t, u \in Traces : t # u => rows[t] \cap rows[u] = {}
  BY DEF TraceInit
<1>4. /\ log \in [Sessions -> Seq(HookEvents \cup {"Stop"})]
      /\ transcript \in [Sessions -> Seq(Blocks)]
  BY <1>3 DEF TraceInit
<1>5. /\ doc \in [Traces -> {NoRun} \cup Runs]
      /\ rows \in [Traces -> SUBSET SpanIds]
      /\ trace \in [Finalizers -> Traces]
      /\ mine \in [Finalizers -> Runs]
  BY <1>1 DEF TraceInit, Traces
<1> QED
  BY <1>2, <1>3, <1>4, <1>5, BoundsAssumption DEF TraceInit, TypeInv, TraceTypeOK

LEMMA Typed == TraceSpec => []TypeInv
  BY TypeStart, TypeStep, PTL DEF TraceSpec

\* Every reachable state of the capture is well typed, and a span has a row under
\* one trace at most, for any sessions, transcripts, logs and processes.
THEOREM TraceTypeCorrect == TraceSpec => []TraceTypeOK
  BY Typed, PTL DEF TypeInv

-----------------------------------------------------------------------------
\* A run that is ingested as t's has the root, and the hook stamped its spans in t.
RunOf(t, run) ==
  /\ Root \in run.spans
  /\ \A x \in run.spans : x.seed \in HookSeeds => x.seed[1] = t

RunsInv == \A p \in Finalizers : Busy(p) => RunOf(trace[p], mine[p])

OwnRows == \A t \in Traces : \A x \in rows[t] : x.seed \in HookSeeds => x.seed[1] = t

IndexInv == RunsInv /\ OwnRows /\ IndexMatchesDocument

\* What a hook or an import does to the store and the processes: it starts to
\* ingest a run of its trace, or it leaves them alone.
LEMMA StartsIngest ==
  ASSUME TypeInv, NEW p \in Finalizers, NEW s \in Sessions, Finalize(p, s) \/ Import(p, s)
  PROVE  /\ ~ Busy(p)
         /\ \/ UNCHANGED <<storeVars, pc, trace, mine, ghostVars>>
            \/ \E t \in Traces, run \in Runs : RunOf(t, run) /\ Ingest(p, t, run)
<1>1. log[s] \in Seq(HookEvents \cup {"Stop"}) /\ transcript[s] \in Seq(Blocks)
  BY DEF TypeInv, TraceTypeOK
<1>2. /\ FromTranscript(transcript[s]) \in Runs
      /\ \A t \in Traces : RunOf(t, FromTranscript(transcript[s]))
  BY <1>1, TranscriptRun DEF RunOf, FromTranscript
<1>3. FromHookLog(s, log[s]) \in Runs /\ RunOf(s, FromHookLog(s, log[s]))
  <2>1. FromHookLog(s, log[s]) \in Runs
    BY <1>1, HookRun
  <2>2. ASSUME NEW x \in FromHookLog(s, log[s]).spans, x.seed \in HookSeeds
        PROVE  x.seed[1] = s
    <3>1. x = Root \/ \E i \in Captured(log[s]) : x.seed = <<s, i>>
      BY DEF FromHookLog
    <3>2. x # Root
      BY <2>2, SeedsAssumption DEF Root
    <3> QED
      BY <3>1, <3>2
  <2>3. Root \in FromHookLog(s, log[s]).spans
    BY DEF FromHookLog
  <2> QED
    BY <2>1, <2>2, <2>3 DEF RunOf
<1>4. CASE Finalize(p, s)
  <2>1. PICK run \in {FromTranscript(transcript[s]), FromHookLog(s, log[s])} :
          IF HasContent(run)
          THEN Ingest(p, s, run)
          ELSE UNCHANGED <<storeVars, pc, trace, mine, ghostVars>>
    BY <1>4 DEF Finalize
  <2>2. s \in Traces
    BY DEF Traces
  <2>3. run \in Runs /\ RunOf(s, run)
    BY <1>2, <1>3, <2>2
  <2> QED
    BY <1>4, <2>1, <2>2, <2>3 DEF Finalize
<1>5. CASE Import(p, s)
  <2>1. PICK t \in {s, Ungrouped} : Ingest(p, t, FromTranscript(transcript[s]))
    BY <1>5 DEF Import
  <2>2. t \in Traces
    BY DEF Traces
  <2> QED
    BY <1>2, <1>5, <2>1, <2>2 DEF Import
<1> QED
  BY <1>4, <1>5

\* Every step keeps the runs in hand those of their traces.
LEMMA RunsStep ==
  ASSUME TypeInv, RunsInv, [TraceNext]_traceVars
  PROVE  RunsInv'
<1> USE DEF RunsInv, Busy, traceVars, fileVars, storeVars, ghostVars
<1> SUFFICES ASSUME NEW q \in Finalizers, pc'[q] # "idle"
             PROVE  RunOf(trace'[q], mine'[q])
  BY DEF RunOf
<1>1. CASE UNCHANGED <<pc, trace, mine>>
  BY <1>1
<1>2. ASSUME NEW p \in Finalizers, NEW s \in Sessions, Finalize(p, s) \/ Import(p, s)
      PROVE  RunOf(trace'[q], mine'[q])
  <2>1. CASE UNCHANGED <<storeVars, pc, trace, mine, ghostVars>>
    BY <2>1
  <2>2. ASSUME NEW t \in Traces, NEW run \in Runs, RunOf(t, run), Ingest(p, t, run)
        PROVE  RunOf(trace'[q], mine'[q])
    BY <2>2 DEF Ingest, TypeInv, TraceTypeOK
  <2> QED
    BY <1>2, <2>1, <2>2, StartsIngest
<1>3. ASSUME NEW p \in Finalizers, LookUp(p) \/ FindRicher(p) \/ DeleteRun(p)
      PROVE  RunOf(trace'[q], mine'[q])
  <2>1. pc[p] # "idle" /\ trace' = trace /\ mine' = mine /\ (q # p => pc'[q] = pc[q])
    BY <1>3 DEF LookUp, FindRicher, DeleteRun, TypeInv, TraceTypeOK
  <2> QED
    BY <2>1
<1>4. ASSUME NEW p \in Finalizers,
             KeepStored(p) \/ InsertRun(p) \/ InsertConflict(p) \/ Fail(p)
      PROVE  RunOf(trace'[q], mine'[q])
  <2>1. Done(p)
    BY <1>4 DEF KeepStored, InsertRun, InsertConflict, Fail
  <2>2. q # p /\ pc'[q] = pc[q] /\ trace'[q] = trace[q] /\ mine'[q] = mine[q]
    BY <2>1 DEF Done, TypeInv, TraceTypeOK
  <2> QED
    BY <2>2
<1> QED
  BY <1>1, <1>2, <1>3, <1>4 DEF TraceNext, IngestStep, WriteBlock, Capture

\* Every step keeps the index that of the stored documents.
LEMMA IndexStep ==
  ASSUME TypeInv, IndexInv, [TraceNext]_traceVars
  PROVE  IndexInv'
<1> USE DEF traceVars, fileVars, storeVars, ghostVars
<1>1. RunsInv'
  BY RunsStep DEF IndexInv
<1>2. ASSUME UNCHANGED storeVars  PROVE OwnRows' /\ IndexMatchesDocument'
  BY <1>2 DEF IndexInv, OwnRows, IndexMatchesDocument, Stored
<1>3. ASSUME NEW p \in Finalizers, DeleteRun(p)  PROVE OwnRows' /\ IndexMatchesDocument'
  BY <1>3 DEF DeleteRun, IndexInv, OwnRows, IndexMatchesDocument, Stored, TypeInv, TraceTypeOK
<1>4. ASSUME NEW p \in Finalizers, InsertRun(p)  PROVE OwnRows' /\ IndexMatchesDocument'
  <2> DEFINE t == trace[p]
  <2>1. /\ ~ Stored(t)
        /\ pc[p] = "insert"
        /\ doc' = [doc EXCEPT ![t] = mine[p]]
        /\ rows' = [rows EXCEPT ![t] = @ \cup NewSpans(mine[p])]
    BY <1>4 DEF InsertRun
  <2>2. t \in Traces /\ mine[p] \in Runs /\ mine[p] # NoRun
    BY NoRunAssumption DEF TypeInv, TraceTypeOK
  <2>3. rows[t] = {}
    BY <2>1, <2>2 DEF IndexInv, IndexMatchesDocument
  <2>4. RunOf(t, mine[p])
    BY <2>1 DEF IndexInv, RunsInv, Busy
  <2>5. doc'[t] = mine[p] /\ rows'[t] = NewSpans(mine[p])
    BY <2>1, <2>2, <2>3 DEF TypeInv, TraceTypeOK
  <2>6. \A u \in Traces \ {t} : doc'[u] = doc[u] /\ rows'[u] = rows[u]
    BY <2>1 DEF TypeInv, TraceTypeOK
  <2>7. OwnRows'
    BY <2>4, <2>5, <2>6 DEF RunOf, NewSpans, IndexInv, OwnRows
  <2>8. ASSUME NEW x \in mine[p].spans \ NewSpans(mine[p])  PROVE x.seed \notin HookSeeds
    <3>1. PICK u \in Traces : x \in rows[u]
      BY DEF NewSpans
    <3> QED
      BY <2>3, <2>4, <3>1 DEF RunOf, IndexInv, OwnRows
  <2>9. NewSpans(mine[p]) \subseteq mine[p].spans
    BY DEF NewSpans
  <2> QED
    BY <2>2, <2>5, <2>6, <2>7, <2>8, <2>9 DEF IndexInv, IndexMatchesDocument, Stored
<1>5. \/ UNCHANGED storeVars
      \/ \E p \in Finalizers : DeleteRun(p) \/ InsertRun(p)
  BY DEF TraceNext, IngestStep, WriteBlock, Capture, Finalize, Import, Ingest, LookUp,
         KeepStored, FindRicher, InsertConflict, Fail
<1> QED
  BY <1>1, <1>2, <1>3, <1>4, <1>5 DEF IndexInv

\* The span index is that of the stored documents and never that of a run they
\* replaced, and every span the hook stamped has its row, whatever processes
\* ingest and wherever they fail.
THEOREM IndexAlwaysMatches == TraceSpec => []IndexMatchesDocument
<1>1. TraceInit => IndexInv
  BY DEF TraceInit, IndexInv, RunsInv, OwnRows, IndexMatchesDocument, Busy, Stored
<1> QED
  BY <1>1, Typed, IndexStep, PTL DEF TraceSpec, IndexInv

-----------------------------------------------------------------------------
\* What a step does to the processes that insert: those that do so go on, unless
\* they finish, and one that deletes becomes one.
LEMMA InsertersStay ==
  ASSUME TypeInv, TraceNext, NEW q \in Finalizers, pc[q] = "insert",
         ~ (InsertRun(q) \/ InsertConflict(q) \/ Fail(q))
  PROVE  pc'[q] = "insert" /\ trace'[q] = trace[q] /\ mine'[q] = mine[q]
<1> USE DEF fileVars, storeVars, ghostVars, TypeInv, TraceTypeOK
<1>1. ASSUME NEW p \in Finalizers, NEW s \in Sessions, Finalize(p, s) \/ Import(p, s)
      PROVE  pc'[q] = "insert" /\ trace'[q] = trace[q] /\ mine'[q] = mine[q]
  BY <1>1, StartsIngest DEF Ingest, Busy
<1>2. ASSUME NEW p \in Finalizers, LookUp(p) \/ FindRicher(p) \/ DeleteRun(p)
      PROVE  pc'[q] = "insert" /\ trace'[q] = trace[q] /\ mine'[q] = mine[q]
  BY <1>2 DEF LookUp, FindRicher, DeleteRun
<1>3. ASSUME NEW p \in Finalizers,
             KeepStored(p) \/ InsertRun(p) \/ InsertConflict(p) \/ Fail(p)
      PROVE  pc'[q] = "insert" /\ trace'[q] = trace[q] /\ mine'[q] = mine[q]
  <2>1. Done(p)
    BY <1>3 DEF KeepStored, InsertRun, InsertConflict, Fail
  <2>2. p # q
    BY <1>3 DEF KeepStored
  <2> QED
    BY <2>1, <2>2 DEF Done
<1> QED
  BY <1>1, <1>2, <1>3 DEF TraceNext, IngestStep, WriteBlock, Capture

\* What a step does to the store.
LEMMA StoreSteps ==
  ASSUME TraceNext
  PROVE  \/ doc' = doc /\ rows' = rows /\ best' = best
         \/ \E p \in Finalizers : DeleteRun(p) \/ InsertRun(p)
BY DEF TraceNext, IngestStep, WriteBlock, Capture, Finalize, Import, Ingest, LookUp,
       KeepStored, FindRicher, InsertConflict, Fail, storeVars, ghostVars

\* A step from a state where something has failed, or a failure, leaves a state
\* where something has.
LEMMA FailuresStay ==
  ASSUME TypeInv, TraceNext, failures' = 0
  PROVE  failures = 0 /\ \A p \in Finalizers : ~ Fail(p)
<1>1. failures \in Nat
  BY BoundsAssumption DEF TypeInv, TraceTypeOK
<1>2. \/ failures' = failures
      \/ \E p \in Finalizers : Fail(p)
  BY DEF TraceNext, IngestStep, WriteBlock, Capture, Finalize, Import, Ingest, LookUp,
         KeepStored, FindRicher, DeleteRun, InsertRun, InsertConflict, storeVars, ghostVars
<1>3. \A p \in Finalizers : Fail(p) => failures' = failures + 1
  BY DEF Fail
<1> QED
  BY <1>1, <1>2, <1>3

\* A step never opens a gap in the store without a process that will fill it.
LEMMA LostStep ==
  ASSUME TypeInv, LostOnlyInReplacement, [TraceNext]_traceVars
  PROVE  LostOnlyInReplacement'
<1> SUFFICES ASSUME TraceNext, NEW t \in Traces,
                    best'[t] > 0, ~ Stored(t)', failures' = 0
             PROVE  \E p \in Finalizers : pc'[p] = "insert" /\ trace'[p] = t
  BY DEF LostOnlyInReplacement, Stored, traceVars, storeVars, ghostVars
<1>1. failures = 0 /\ \A p \in Finalizers : ~ Fail(p)
  BY FailuresStay
<1>2. ASSUME NEW p \in Finalizers, DeleteRun(p), trace[p] = t
      PROVE  \E q \in Finalizers : pc'[q] = "insert" /\ trace'[q] = t
  BY <1>2 DEF DeleteRun, TypeInv, TraceTypeOK
<1>3. ASSUME NEW p \in Finalizers, InsertRun(p)
      PROVE  trace[p] # t /\ best'[t] = best[t] /\ doc'[t] = doc[t]
  <2>1. doc'[trace[p]] # NoRun
    BY <1>3, NoRunAssumption DEF InsertRun, TypeInv, TraceTypeOK
  <2> QED
    BY <1>3, <2>1 DEF InsertRun, Stored, TypeInv, TraceTypeOK
<1>4. ASSUME ~ \E p \in Finalizers : DeleteRun(p) /\ trace[p] = t
      PROVE  \E q \in Finalizers : pc'[q] = "insert" /\ trace'[q] = t
  <2>1. best'[t] = best[t] /\ doc'[t] = doc[t]
    BY <1>3, <1>4, StoreSteps DEF DeleteRun, TypeInv, TraceTypeOK, ghostVars
  <2>2. PICK q \in Finalizers : pc[q] = "insert" /\ trace[q] = t
    BY <1>1, <2>1 DEF LostOnlyInReplacement, Stored
  <2>3. ~ InsertRun(q) /\ ~ InsertConflict(q)
    BY <1>3, <2>1, <2>2 DEF InsertConflict, Stored
  <2> QED
    BY <1>1, <2>2, <2>3, InsertersStay
<1> QED
  BY <1>2, <1>4

\* A trace that has been stored is missing only while some process replaces it, or
\* after a failure.
THEOREM LossesAreReplacements == TraceSpec => []LostOnlyInReplacement
<1>1. TraceInit => LostOnlyInReplacement
  BY DEF TraceInit, LostOnlyInReplacement
<1> QED
  BY <1>1, Typed, LostStep, PTL DEF TraceSpec

RootInv == RunsInv /\ RootIndexed

\* A step never takes the root out of the index without a process that will put it
\* back.
LEMMA RootStep ==
  ASSUME TypeInv, RootInv, [TraceNext]_traceVars
  PROVE  RootInv'
<1>1. RunsInv'
  BY RunsStep DEF RootInv
<1> SUFFICES ASSUME TraceNext, NEW t \in Traces, Stored(t)', failures' = 0,
                    \A u \in Traces : Root \notin rows'[u]
             PROVE  \E p \in Finalizers : pc'[p] = "insert" /\ ~ Stored(trace[p])'
  BY <1>1 DEF RootInv, RootIndexed, Stored, traceVars, storeVars, ghostVars
<1>2. failures = 0 /\ \A p \in Finalizers : ~ Fail(p)
  BY FailuresStay
<1>3. ASSUME NEW p \in Finalizers, InsertRun(p)  PROVE FALSE
  <2>1. Root \in mine[p].spans /\ trace[p] \in Traces
    BY <1>3 DEF InsertRun, RootInv, RunsInv, RunOf, Busy, TypeInv, TraceTypeOK
  <2>2. \A u \in Traces : rows[u] \subseteq rows'[u]
    BY <1>3 DEF InsertRun, TypeInv, TraceTypeOK
  <2>3. Root \in NewSpans(mine[p])
    BY <2>1, <2>2 DEF NewSpans
  <2>4. Root \in rows'[trace[p]]
    BY <1>3, <2>1, <2>3 DEF InsertRun, TypeInv, TraceTypeOK
  <2> QED
    BY <2>1, <2>4
<1>4. ASSUME NEW p \in Finalizers, DeleteRun(p)
      PROVE  pc'[p] = "insert" /\ doc'[trace'[p]] = NoRun
  BY <1>4 DEF DeleteRun, TypeInv, TraceTypeOK
<1>5. CASE doc' = doc /\ rows' = rows
  <2>1. PICK q \in Finalizers : pc[q] = "insert" /\ ~ Stored(trace[q])
    BY <1>2, <1>5 DEF RootInv, RootIndexed, Stored
  <2>2. ~ InsertRun(q) /\ ~ InsertConflict(q)
    BY <1>3, <2>1 DEF InsertConflict
  <2>3. pc'[q] = "insert" /\ trace'[q] = trace[q]
    BY <1>2, <2>1, <2>2, InsertersStay
  <2> QED
    BY <1>5, <2>1, <2>3 DEF Stored
<1> QED
  BY <1>3, <1>4, <1>5, StoreSteps DEF Stored

\* The root all runs share is missing from the index only while the trace that held
\* its row is replaced, or after a failure.
THEOREM RootAlwaysIndexed == TraceSpec => []RootIndexed
<1>1. TraceInit => RootInv
  BY DEF TraceInit, RootInv, RunsInv, RootIndexed, Busy, Stored
<1> QED
  BY <1>1, Typed, RootStep, PTL DEF TraceSpec, RootInv

-----------------------------------------------------------------------------
\* Of a trace that is not excused: one process at a time ingests it,
Alone ==
  \A p, q \in Finalizers :
    p # q /\ Busy(p) /\ Busy(q) /\ trace[p] = trace[q] => trace[p] \in excused

\* what is stored is the longest run ever, and at most one of its spans has no row,
LongestStored ==
  \A t \in Traces \ excused :
    Stored(t) => doc[t].len >= best[t] /\ doc[t].len <= Cardinality(rows[t]) + 1

\* nothing is stored only before the first run or while a process replaces it,
NothingStored ==
  \A t \in Traces \ excused :
    ~ Stored(t) => best[t] = 0 \/ \E p \in Finalizers : pc[p] = "insert" /\ trace[p] = t

\* a process that counts finds the run it looked up, and one that replaces has a run
\* as long as any before.
Replacing ==
  \A p \in Finalizers :
    trace[p] \notin excused =>
      /\ pc[p] = "count" => Stored(trace[p])
      /\ pc[p] \in {"delete", "insert"} => mine[p].len >= best[trace[p]]

RicherInv == Alone /\ LongestStored /\ NothingStored /\ Replacing

\* The counts that RicherInv compares are integers.
LEMMA Counts ==
  ASSUME TypeInv
  PROVE  /\ \A t \in Traces : Cardinality(rows[t]) \in Nat /\ best[t] \in Nat
         /\ \A t \in Traces : Stored(t) => doc[t].len \in Nat
         /\ \A p \in Finalizers : mine[p].len \in Nat /\ trace[p] \in Traces
BY FS_CardinalityType DEF TypeInv, TraceTypeOK, FiniteSpans, Stored, Runs

\* A process that leaves ingest, or starts to ingest a run alone, keeps the
\* others apart.
LEMMA AloneStep ==
  ASSUME TypeInv, Alone, [TraceNext]_traceVars
  PROVE  Alone' /\ excused \subseteq excused'
<1> USE DEF Alone, Busy, traceVars, fileVars, storeVars, ghostVars, TypeInv, TraceTypeOK
<1>1. CASE UNCHANGED <<pc, trace, excused>>
  BY <1>1
<1>2. ASSUME NEW p \in Finalizers, NEW s \in Sessions, Finalize(p, s) \/ Import(p, s)
      PROVE  Alone' /\ excused \subseteq excused'
  <2>1. ASSUME NEW t \in Traces, NEW run \in Runs, Ingest(p, t, run)
        PROVE  Alone' /\ excused \subseteq excused'
    <3>1. excused' = IF Overlapping(p, t) THEN excused \cup {t} ELSE excused
      BY <2>1 DEF Ingest
    <3>2. pc' = [pc EXCEPT ![p] = "look"] /\ trace' = [trace EXCEPT ![p] = t]
      BY <2>1 DEF Ingest
    <3>3. \A q \in Finalizers \ {p} : pc[q] # "idle" /\ trace[q] = t => t \in excused'
      BY <3>1 DEF Overlapping
    <3> QED
      BY <3>1, <3>2, <3>3
  <2> QED
    BY <1>1, <1>2, <2>1, StartsIngest
<1>3. ASSUME NEW p \in Finalizers, LookUp(p) \/ FindRicher(p) \/ DeleteRun(p)
      PROVE  Alone' /\ excused \subseteq excused'
  BY <1>3 DEF LookUp, FindRicher, DeleteRun
<1>4. ASSUME NEW p \in Finalizers,
             KeepStored(p) \/ InsertRun(p) \/ InsertConflict(p) \/ Fail(p)
      PROVE  Alone' /\ excused \subseteq excused'
  <2>1. Done(p) /\ excused \subseteq excused'
    BY <1>4 DEF KeepStored, InsertRun, InsertConflict, Fail
  <2> QED
    BY <2>1 DEF Done
<1> QED
  BY <1>1, <1>2, <1>3, <1>4 DEF TraceNext, IngestStep, WriteBlock, Capture

\* Every step keeps the longest run of a trace that is not excused.
LEMMA RicherStep ==
  ASSUME TypeInv, RicherInv, [TraceNext]_traceVars
  PROVE  RicherInv'
<1> USE DEF traceVars, fileVars, storeVars, ghostVars
<1>1. Alone' /\ excused \subseteq excused'
  BY AloneStep DEF RicherInv
<1>2. ASSUME UNCHANGED <<doc, rows, best>>  PROVE LongestStored'
  BY <1>1, <1>2 DEF RicherInv, LongestStored, Stored
<1>3. ASSUME UNCHANGED <<doc, rows, best>>, TraceNext  PROVE NothingStored'
  <2> SUFFICES ASSUME NEW t \in Traces, t \notin excused', doc[t] = NoRun, best[t] # 0
               PROVE  \E p \in Finalizers : pc'[p] = "insert" /\ trace'[p] = t
    BY <1>3 DEF NothingStored, Stored
  <2>1. PICK q \in Finalizers : pc[q] = "insert" /\ trace[q] = t
    BY <1>1 DEF RicherInv, NothingStored, Stored
  <2>2. ~ InsertRun(q)
    BY <1>3, <2>1, NoRunAssumption DEF InsertRun, TypeInv, TraceTypeOK
  <2>3. ~ InsertConflict(q) /\ ~ Fail(q)
    BY <2>1 DEF InsertConflict, Stored, Fail
  <2> QED
    BY <1>3, <2>1, <2>2, <2>3, InsertersStay
<1>4. CASE UNCHANGED traceVars
  BY <1>4 DEF RicherInv, Alone, LongestStored, NothingStored, Replacing, Busy, Stored
<1>5. ASSUME NEW s \in Sessions, WriteBlock(s) \/ Capture(s)  PROVE Replacing'
  BY <1>5 DEF WriteBlock, Capture, RicherInv, Replacing, Stored
<1>6. ASSUME NEW p \in Finalizers, NEW s \in Sessions, Finalize(p, s) \/ Import(p, s)
      PROVE  Replacing'
  <2>1. CASE UNCHANGED <<storeVars, pc, trace, mine, ghostVars>>
    BY <2>1 DEF RicherInv, Replacing, Stored
  <2>2. ASSUME NEW t \in Traces, NEW run \in Runs, Ingest(p, t, run)  PROVE Replacing'
    BY <1>1, <2>2 DEF Ingest, RicherInv, Replacing, Stored, TypeInv, TraceTypeOK
  <2> QED
    BY <1>6, <2>1, <2>2, StartsIngest
<1>7. ASSUME NEW p \in Finalizers, LookUp(p)  PROVE Replacing'
  <2> SUFFICES ASSUME NEW q \in Finalizers, trace[q] \notin excused
               PROVE  /\ pc'[q] = "count" => Stored(trace[q])
                      /\ pc'[q] \in {"delete", "insert"} => mine[q].len >= best[trace[q]]
    BY <1>7 DEF LookUp, Replacing, Stored
  <2>1. CASE q # p
    BY <1>7, <2>1 DEF LookUp, RicherInv, Replacing, TypeInv, TraceTypeOK
  <2>2. CASE q = p /\ Stored(trace[p])
    BY <1>7, <2>2 DEF LookUp, TypeInv, TraceTypeOK
  <2>3. CASE q = p /\ ~ Stored(trace[p])
    <3>1. trace[p] \in Traces /\ mine[p].len \in Nat
      BY Counts
    <3>2. \A r \in Finalizers : pc[r] = "insert" => trace[r] # trace[p]
      BY <1>7, <2>3 DEF LookUp, RicherInv, Alone, Busy
    <3>3. best[trace[p]] = 0
      BY <2>3, <3>1, <3>2 DEF RicherInv, NothingStored
    <3> QED
      BY <1>7, <2>3, <3>1, <3>3 DEF LookUp, TypeInv, TraceTypeOK
  <2> QED
    BY <2>1, <2>2, <2>3
<1>8. ASSUME NEW p \in Finalizers, FindRicher(p)  PROVE Replacing'
  <2> SUFFICES ASSUME NEW q \in Finalizers, trace[q] \notin excused
               PROVE  /\ pc'[q] = "count" => Stored(trace[q])
                      /\ pc'[q] \in {"delete", "insert"} => mine[q].len >= best[trace[q]]
    BY <1>8 DEF FindRicher, Replacing, Stored
  <2>1. CASE q # p
    BY <1>8, <2>1 DEF FindRicher, RicherInv, Replacing, TypeInv, TraceTypeOK
  <2>2. CASE q = p
    <3> DEFINE t == trace[p]
    <3>1. pc[p] = "count" /\ mine[p].len > Cardinality(rows[t])
      BY <1>8 DEF FindRicher
    <3>2. t \in Traces \ excused /\ Stored(t)
      BY <2>2, <3>1, Counts DEF RicherInv, Replacing
    <3>3. doc[t].len >= best[t] /\ doc[t].len <= Cardinality(rows[t]) + 1
      BY <3>2 DEF RicherInv, LongestStored
    <3>4. mine[p].len >= best[t]
      BY <3>1, <3>2, <3>3, Counts
    <3> QED
      BY <1>8, <2>2, <3>4 DEF FindRicher, TypeInv, TraceTypeOK
  <2> QED
    BY <2>1, <2>2
<1>9. ASSUME NEW p \in Finalizers, KeepStored(p) \/ InsertConflict(p) \/ Fail(p)
      PROVE  Replacing'
  <2>1. Done(p) /\ doc' = doc /\ best' = best
    BY <1>9 DEF KeepStored, InsertConflict, Fail
  <2>2. pc'[p] = "idle" /\ \A q \in Finalizers \ {p} :
          pc'[q] = pc[q] /\ trace'[q] = trace[q] /\ mine'[q] = mine[q]
    BY <2>1 DEF Done, TypeInv, TraceTypeOK
  <2> QED
    BY <1>1, <2>1, <2>2 DEF RicherInv, Replacing, Stored
<1>10. ASSUME NEW p \in Finalizers, DeleteRun(p)
       PROVE  LongestStored' /\ NothingStored' /\ Replacing'
  <2> DEFINE t == trace[p]
  <2>1. /\ pc[p] = "delete"
        /\ t \in Traces
        /\ doc'[t] = NoRun
        /\ \A u \in Traces \ {t} : doc'[u] = doc[u] /\ rows'[u] = rows[u]
        /\ pc'[p] = "insert"
        /\ \A q \in Finalizers \ {p} : pc'[q] = pc[q]
        /\ trace' = trace /\ mine' = mine /\ best' = best /\ excused' = excused
    BY <1>10 DEF DeleteRun, TypeInv, TraceTypeOK
  <2>2. LongestStored'
    BY <2>1 DEF RicherInv, LongestStored, Stored
  <2>3. NothingStored'
    BY <2>1 DEF RicherInv, NothingStored, Stored
  <2>4. \A q \in Finalizers \ {p} : pc[q] = "count" /\ trace[q] \notin excused => trace[q] # t
    BY <2>1 DEF RicherInv, Alone, Busy
  <2>5. \A q \in Finalizers : trace[q] \in Traces
    BY Counts
  <2>6. Replacing'
    BY <2>1, <2>4, <2>5 DEF RicherInv, Replacing, Stored
  <2> QED
    BY <2>2, <2>3, <2>6
<1>11. ASSUME NEW p \in Finalizers, InsertRun(p)
       PROVE  LongestStored' /\ NothingStored' /\ Replacing'
  <2> DEFINE t == trace[p]
  <2>1. /\ pc[p] = "insert"
        /\ t \in Traces
        /\ doc'[t] = mine[p] /\ mine[p] # NoRun
        /\ \A u \in Traces \ {t} : doc'[u] = doc[u] /\ rows'[u] = rows[u] /\ best'[u] = best[u]
        /\ best'[t] = IF mine[p].len > best[t] THEN mine[p].len ELSE best[t]
        /\ pc'[p] = "idle"
        /\ \A q \in Finalizers \ {p} :
             pc'[q] = pc[q] /\ trace'[q] = trace[q] /\ mine'[q] = mine[q]
    BY <1>11, NoRunAssumption DEF InsertRun, Done, TypeInv, TraceTypeOK
  <2>2. excused' = IF mine[p].len > Cardinality(rows'[t]) + 1 THEN excused \cup {t} ELSE excused
    BY <1>11 DEF InsertRun
  <2>3. t \notin excused => mine[p].len >= best[t]
    BY <2>1 DEF RicherInv, Replacing
  <2>4. mine[p].len \in Nat /\ best[t] \in Nat /\ Cardinality(rows'[t]) \in Nat
    BY <2>1, Counts, TypeStep, FS_CardinalityType DEF TypeInv, FiniteSpans
  <2>5. t \notin excused' => /\ doc'[t].len >= best'[t]
                            /\ doc'[t].len <= Cardinality(rows'[t]) + 1
    BY <1>1, <2>1, <2>2, <2>3, <2>4
  <2>6. LongestStored'
    BY <1>1, <2>1, <2>5 DEF RicherInv, LongestStored, Stored
  <2>7. NothingStored'
    <3> SUFFICES ASSUME NEW u \in Traces \ excused', doc'[u] = NoRun, best'[u] # 0
                 PROVE  \E q \in Finalizers : pc'[q] = "insert" /\ trace'[q] = u
      BY DEF NothingStored, Stored
    <3>1. u # t
      BY <2>1
    <3>2. PICK q \in Finalizers : pc[q] = "insert" /\ trace[q] = u
      BY <1>1, <2>1, <3>1 DEF RicherInv, NothingStored, Stored
    <3> QED
      BY <2>1, <3>1, <3>2
  <2>8. \A q \in Finalizers \ {p} : pc[q] # "idle" /\ trace[q] \notin excused => trace[q] # t
    BY <2>1 DEF RicherInv, Alone, Busy
  <2>9. \A q \in Finalizers : trace[q] \in Traces
    BY Counts
  <2>10. Replacing'
    BY <1>1, <2>1, <2>8, <2>9 DEF RicherInv, Replacing, Stored
  <2> QED
    BY <2>6, <2>7, <2>10
<1>12. CASE \E p \in Finalizers : DeleteRun(p) \/ InsertRun(p)
  BY <1>1, <1>10, <1>11, <1>12 DEF RicherInv
<1>13. CASE TraceNext /\ ~ \E p \in Finalizers : DeleteRun(p) \/ InsertRun(p)
  <2>1. Replacing'
    BY <1>5, <1>6, <1>7, <1>8, <1>9, <1>13 DEF TraceNext, IngestStep
  <2> QED
    BY <1>1, <1>2, <1>3, <1>13, <2>1, StoreSteps DEF RicherInv
<1> QED
  BY <1>4, <1>12, <1>13

\* The richer run of a trace wins, whatever comes first and from whichever source,
\* as long as one process at a time ingests the trace, none fails, and the rows of
\* what is stored lack at most one span.
THEOREM RicherAlwaysWins == TraceSpec => []RicherWins
<1>1. TraceInit => RicherInv
  BY DEF TraceInit, RicherInv, Alone, LongestStored, NothingStored, Replacing, Busy, Stored
<1>2. RicherInv => RicherWins
  BY DEF RicherInv, LongestStored, RicherWins
<1> QED
  BY <1>1, <1>2, Typed, RicherStep, PTL DEF TraceSpec

=============================================================================
