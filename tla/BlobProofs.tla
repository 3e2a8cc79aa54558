---------------------------- MODULE BlobProofs ----------------------------
(***************************************************************************)
(* Proofs about BlobStore, for any processes, contents, inodes and number  *)
(* of write calls.                                                         *)
(***************************************************************************)
EXTENDS BlobStore, TLAPS

\* How far each process is.
Phases ==
  \A w \in Writers :
    /\ pc[w] # "idle" => want[w] \in Digests
    /\ pc[w] = "write" <=> fd[w] # NoFile
    /\ pc[w] \in {"idle", "exists", "open"} => pos[w] = 1
    /\ pc[w] = "write" => pos[w] <= Chunks
    /\ pc[w] = "replace" => pos[w] = Chunks + 1

\* No inode has two names.
SeparateNames ==
  \A d, e \in Digests :
    /\ final[d] # NoFile /\ final[d] = final[e] => d = e
    /\ tmp[d] # NoFile /\ tmp[d] = tmp[e] => d = e
    /\ final[d] # NoFile => final[d] # tmp[e]

\* A named file is open only in processes that store its content.
OpenForOwn ==
  \A w \in Writers : \A d \in Digests :
    fd[w] # NoFile /\ fd[w] \in {final[d], tmp[d]} => want[w] = d

\* Two processes that write the same content have been noticed.
TwoWritersNoticed ==
  \A v, w \in Writers :
    v # w /\ Writing(v) /\ Writing(w) /\ want[v] = want[w] => want[w] \in contended

\* A process alone with its content has the temporary file open until it has
\* written all of it.
LoneWriterHasTmp ==
  \A w \in Writers : pc[w] = "write" /\ want[w] \notin contended => fd[w] = tmp[want[w]]

\* Nobody writes to a blob whose content has never had two writers.
FinalClosed ==
  \A d \in Digests : Stored(d) /\ d \notin contended => \A w \in Writers : fd[w] # final[d]

\* The inductive invariant.
BlobInv ==
  /\ BlobTypeOK
  /\ Phases
  /\ SeparateNames
  /\ OpenForOwn
  /\ TwoWritersNoticed
  /\ LoneWriterHasTmp
  /\ LoneWriterOwnsTmp
  /\ FinalClosed
  /\ AtomicUnlessContended

\* The invariant holds of an empty directory.
LEMMA BlobInvInit == BlobInit => BlobInv
BY ChunksAssumption, CrashesAssumption
   DEF BlobInit, BlobInv, BlobTypeOK, Files, Phases, SeparateNames, OpenForOwn, TwoWritersNoticed,
       LoneWriterHasTmp, LoneWriterOwnsTmp, FinalClosed, AtomicUnlessContended, Torn, Stored,
       Writing, Whole

\* A step of w that touches no file and after which w writes nothing.
LEMMA QuietStep ==
  ASSUME BlobInv, NEW w \in Writers,
         UNCHANGED <<final, tmp, content, contended>>, BlobTypeOK', Phases',
         ~ Writing(w)', fd'[w] = NoFile,
         \A v \in Writers \ {w} :
           pc'[v] = pc[v] /\ want'[v] = want[v] /\ fd'[v] = fd[v] /\ pos'[v] = pos[v]
  PROVE  BlobInv'
<1>1. SeparateNames' /\ AtomicUnlessContended'
  BY DEF BlobInv, SeparateNames, AtomicUnlessContended, Torn, Stored
<1>2. OpenForOwn' /\ FinalClosed'
  BY DEF BlobInv, OpenForOwn, FinalClosed, Stored
<1>3. TwoWritersNoticed' /\ LoneWriterHasTmp' /\ LoneWriterOwnsTmp'
  BY DEF BlobInv, TwoWritersNoticed, LoneWriterHasTmp, LoneWriterOwnsTmp, Writing
<1> QED
  BY <1>1, <1>2, <1>3 DEF BlobInv

\* Every step keeps the invariant.
LEMMA BlobInvNext == BlobInv /\ [BlobNext]_blobVars => BlobInv'
<1> SUFFICES ASSUME BlobInv, [BlobNext]_blobVars
             PROVE  BlobInv'
  OBVIOUS
<1>types. BlobTypeOK /\ Phases
  BY DEF BlobInv
<1> USE ChunksAssumption, FileAssumption, CrashesAssumption
<1>1. ASSUME NEW w \in Writers, NEW d \in Digests, Put(w, d)
      PROVE  BlobInv'
  <2>1. BlobTypeOK' /\ Phases'
    BY <1>1, <1>types DEF Put, BlobTypeOK, Phases, Files
  <2>2. ~ Writing(w)' /\ fd'[w] = NoFile
    BY <1>1, <1>types DEF Put, BlobTypeOK, Phases, Writing
  <2> QED
    BY <1>1, <1>types, <2>1, <2>2, QuietStep DEF Put, BlobTypeOK
<1>2. ASSUME NEW w \in Writers,
             \/ FindPath(w) \/ ReplaceMissing(w) \/ Die(w)
      PROVE  BlobInv'
  <2>1. Leave(w) /\ UNCHANGED <<final, tmp, content, contended>> /\ crashes' \in 0 .. MaxCrashes
    BY <1>2, <1>types DEF FindPath, ReplaceMissing, Die, BlobTypeOK
  <2>2. BlobTypeOK' /\ Phases'
    BY <2>1, <1>types DEF Leave, BlobTypeOK, Phases, Files
  <2>3. ~ Writing(w)' /\ fd'[w] = NoFile
    BY <2>1, <1>types DEF Leave, BlobTypeOK, Writing
  <2> QED
    BY <2>1, <1>types, <2>2, <2>3, QuietStep DEF Leave, BlobTypeOK
<1>3. ASSUME NEW w \in Writers, MissPath(w)
      PROVE  BlobInv'
  <2>1. BlobTypeOK' /\ Phases'
    BY <1>3, <1>types DEF MissPath, BlobTypeOK, Phases, Files
  <2>2. ~ Writing(w)' /\ fd'[w] = NoFile
    BY <1>3, <1>types DEF MissPath, BlobTypeOK, Phases, Writing
  <2> QED
    BY <1>3, <1>types, <2>1, <2>2, QuietStep DEF MissPath, BlobTypeOK
<1>4. ASSUME NEW w \in Writers, OpenTmp(w)
      PROVE  BlobInv'
  <2> DEFINE d == want[w]
  <2>1. PICK i \in Inodes :
          /\ IF tmp[d] = NoFile THEN ~ InUse(i) ELSE i = tmp[d]
          /\ tmp' = [tmp EXCEPT ![d] = i]
          /\ content' = [content EXCEPT ![i] = {}]
          /\ fd' = [fd EXCEPT ![w] = i]
    BY <1>4 DEF OpenTmp
  <2>2. /\ pc[w] = "open" /\ d \in Digests /\ pos[w] = 1
        /\ pc' = [pc EXCEPT ![w] = "write"] /\ UNCHANGED <<final, want, pos, crashes>>
    BY <1>4, <1>types DEF OpenTmp, Phases
  <2>3. /\ contended \subseteq contended' /\ contended' \subseteq Digests
        /\ \A v \in Writers \ {w} : Writing(v) /\ want[v] = d => d \in contended'
    BY <1>4, <1>types, <2>2 DEF OpenTmp, BlobTypeOK
  <2>4. BlobTypeOK'
    BY <1>types, <2>1, <2>2, <2>3 DEF BlobTypeOK, Files
  <2>5. Phases'
    BY <1>types, <2>1, <2>2 DEF BlobTypeOK, Phases
  <2>6. \A e \in Digests : final[e] # i /\ (e # d => tmp[e] # i)
    BY <2>1, <2>2 DEF BlobInv, SeparateNames, InUse
  <2>7. \A v \in Writers : fd[v] = i => want[v] = d
    BY <2>1, <2>2 DEF BlobInv, OpenForOwn, InUse
  <2>8. \A v \in Writers \ {w} :
          fd'[v] = fd[v] /\ want'[v] = want[v] /\ pos'[v] = pos[v] /\ (Writing(v)' <=> Writing(v))
    BY <1>types, <2>1, <2>2 DEF BlobTypeOK, Writing
  <2>9. /\ fd'[w] = i /\ want'[w] = d /\ pos'[w] = 1 /\ pc'[w] = "write"
        /\ tmp'[d] = i /\ content'[i] = {}
        /\ \A e \in Digests : e # d => tmp'[e] = tmp[e]
        /\ \A j \in Inodes : j # i => content'[j] = content[j]
    BY <1>types, <2>1, <2>2 DEF BlobTypeOK
  <2> HIDE DEF d
  <2>10. SeparateNames'
    BY <2>2, <2>6, <2>9 DEF BlobInv, SeparateNames
  <2>11. OpenForOwn'
    BY <2>2, <2>6, <2>7, <2>8, <2>9 DEF BlobInv, OpenForOwn
  <2>12. TwoWritersNoticed'
    BY <2>2, <2>3, <2>8, <2>9 DEF BlobInv, TwoWritersNoticed, Writing
  <2>13. LoneWriterHasTmp'
    <3>1. ASSUME NEW v \in Writers, v # w, pc'[v] = "write", want'[v] \notin contended'
          PROVE  fd'[v] = tmp'[want'[v]]
      <4>1. Writing(v) /\ pc[v] = "write" /\ want[v] \notin contended /\ want[v] # d
        BY <3>1, <2>2, <2>3, <2>8, <1>types DEF Writing, BlobTypeOK
      <4>2. fd[v] = tmp[want[v]] /\ want[v] \in Digests
        BY <4>1, <1>types DEF BlobInv, LoneWriterHasTmp, Phases
      <4> QED
        BY <3>1, <4>1, <4>2, <2>8, <2>9
    <3> QED
      BY <3>1, <2>9 DEF LoneWriterHasTmp
  <2>14. LoneWriterOwnsTmp'
    <3>1. ASSUME NEW v \in Writers, v # w, Writing(v)', want'[v] \notin contended'
          PROVE  tmp'[want'[v]] # NoFile /\ content'[tmp'[want'[v]]] = 1 .. pos'[v] - 1
      <4>1. Writing(v) /\ want[v] \notin contended /\ want[v] # d
        BY <3>1, <2>2, <2>3, <2>8
      <4>2. /\ want[v] \in Digests /\ tmp[want[v]] # NoFile
            /\ content[tmp[want[v]]] = 1 .. pos[v] - 1
        BY <4>1, <1>types DEF BlobInv, LoneWriterOwnsTmp, Phases, Writing
      <4>3. tmp[want[v]] \in Inodes /\ tmp[want[v]] # i
        BY <4>1, <4>2, <2>6, <1>types DEF BlobTypeOK, Files
      <4> QED
        BY <3>1, <4>1, <4>2, <4>3, <2>8, <2>9
    <3>2. 1 .. 1 - 1 = {}
      OBVIOUS
    <3> QED
      BY <3>1, <3>2, <2>9 DEF LoneWriterOwnsTmp
  <2>15. FinalClosed'
    BY <2>2, <2>3, <2>6, <2>8, <2>9 DEF BlobInv, FinalClosed, Stored
  <2>16. AtomicUnlessContended'
    BY <1>types, <2>2, <2>3, <2>6, <2>9
       DEF BlobInv, AtomicUnlessContended, Torn, Stored, BlobTypeOK, Files
  <2> QED
    BY <2>4, <2>5, <2>10, <2>11, <2>12, <2>13, <2>14, <2>15, <2>16 DEF BlobInv
<1>5. ASSUME NEW w \in Writers, WriteChunk(w)
      PROVE  BlobInv'
  <2> DEFINE i == fd[w]
             d == want[w]
  <2>1. /\ pc[w] = "write" /\ d \in Digests /\ i \in Inodes /\ pos[w] \in 1 .. Chunks
        /\ UNCHANGED <<final, tmp, want, contended, crashes>>
    BY <1>5, <1>types DEF WriteChunk, Phases, BlobTypeOK, Files
  <2>2. /\ content'[i] = content[i] \cup {pos[w]} /\ pos'[w] = pos[w] + 1
        /\ \A j \in Inodes : j # i => content'[j] = content[j]
    BY <1>5, <1>types, <2>1 DEF WriteChunk, BlobTypeOK
  <2>3. BlobTypeOK' /\ Phases'
    <3>1. content' \in [Inodes -> SUBSET Whole] /\ pos' \in [Writers -> 1 .. Chunks + 1]
      BY <1>5, <1>types, <2>1 DEF WriteChunk, BlobTypeOK, Whole
    <3>2. BlobTypeOK'
      BY <1>5, <1>types, <2>1, <3>1 DEF WriteChunk, BlobTypeOK, Files
    <3>3. Phases'
      BY <1>5, <1>types, <2>1 DEF WriteChunk, BlobTypeOK, Phases
    <3> QED
      BY <3>2, <3>3
  <2>4. \A v \in Writers \ {w} : pc'[v] = pc[v] /\ fd'[v] = fd[v] /\ pos'[v] = pos[v]
    BY <1>5, <1>types DEF WriteChunk, BlobTypeOK
  <2>5. pc'[w] \in {"write", "replace"} /\ (pc'[w] = "write" => fd'[w] = i) /\ fd'[w] \in {i, NoFile}
    BY <1>5, <1>types DEF WriteChunk, BlobTypeOK
  <2>6. Writing(w) /\ \A v \in Writers : Writing(v)' <=> Writing(v)
    BY <2>1, <2>4, <2>5 DEF Writing
  <2> HIDE DEF i, d
  <2>7. SeparateNames' /\ TwoWritersNoticed'
    BY <2>1, <2>6 DEF BlobInv, SeparateNames, TwoWritersNoticed
  <2>8. OpenForOwn' /\ LoneWriterHasTmp' /\ FinalClosed'
    BY <2>1, <2>4, <2>5 DEF BlobInv, OpenForOwn, LoneWriterHasTmp, FinalClosed, Stored, i, d
  <2>9. AtomicUnlessContended'
    <3>1. ASSUME NEW e \in Digests, Stored(e), e \notin contended
          PROVE  final[e] # i /\ final[e] \in Inodes
      BY <3>1, <1>types DEF BlobInv, FinalClosed, i, BlobTypeOK, Files, Stored
    <3> QED
      BY <2>1, <2>2, <3>1 DEF BlobInv, AtomicUnlessContended, Torn, Stored
  <2>10. LoneWriterOwnsTmp'
    <3>1. ASSUME NEW v \in Writers, v # w, Writing(v), want[v] \notin contended
          PROVE  tmp[want[v]] # NoFile /\ content'[tmp[want[v]]] = 1 .. pos'[v] - 1
      <4>1. /\ want[v] \in Digests /\ tmp[want[v]] # NoFile
            /\ content[tmp[want[v]]] = 1 .. pos[v] - 1
        BY <3>1, <1>types DEF BlobInv, LoneWriterOwnsTmp, Phases, Writing
      <4>2. tmp[want[v]] # i
        <5>1. want[v] # d
          BY <3>1, <2>6 DEF BlobInv, TwoWritersNoticed, d
        <5> QED
          BY <4>1, <5>1 DEF BlobInv, OpenForOwn, i, d
      <4> QED
        BY <3>1, <4>1, <4>2, <2>2, <2>4, <1>types DEF BlobTypeOK, Files
    <3>2. ASSUME d \notin contended
          PROVE  tmp[d] # NoFile /\ content'[tmp[d]] = 1 .. pos'[w] - 1
      <4>1. i = tmp[d] /\ content[i] = 1 .. pos[w] - 1
        BY <3>2, <2>1, <2>6 DEF BlobInv, LoneWriterHasTmp, LoneWriterOwnsTmp, i, d
      <4>2. (1 .. pos[w] - 1) \cup {pos[w]} = 1 .. (pos[w] + 1) - 1
        BY <2>1
      <4> QED
        BY <4>1, <4>2, <2>1, <2>2
    <3> QED
      BY <3>1, <3>2, <2>1, <2>6 DEF LoneWriterOwnsTmp, d
  <2> QED
    BY <2>3, <2>7, <2>8, <2>9, <2>10 DEF BlobInv
<1>6. ASSUME NEW w \in Writers, Replace(w)
      PROVE  BlobInv'
  <2> DEFINE d == want[w]
  <2>1. /\ pc[w] = "replace" /\ d \in Digests /\ tmp[d] # NoFile /\ tmp[d] \in Inodes
        /\ pos[w] = Chunks + 1 /\ fd[w] = NoFile /\ Writing(w)
        /\ Leave(w) /\ UNCHANGED <<content, contended, crashes>>
    BY <1>6, <1>types DEF Replace, Phases, BlobTypeOK, Files, Writing
  <2>2. /\ final'[d] = tmp[d] /\ tmp'[d] = NoFile
        /\ \A e \in Digests : e # d => final'[e] = final[e] /\ tmp'[e] = tmp[e]
    BY <1>6, <1>types, <2>1 DEF Replace, BlobTypeOK
  <2>3. BlobTypeOK' /\ Phases'
    BY <1>6, <1>types, <2>1 DEF Replace, Leave, BlobTypeOK, Phases, Files
  <2>4. /\ \A v \in Writers \ {w} :
             pc'[v] = pc[v] /\ want'[v] = want[v] /\ fd'[v] = fd[v] /\ pos'[v] = pos[v]
        /\ pc'[w] = "idle" /\ fd'[w] = NoFile
    BY <1>types, <2>1 DEF Leave, BlobTypeOK
  <2>5. \A v \in Writers \ {w} : Writing(v) /\ want[v] = d => d \in contended
    BY <2>1 DEF BlobInv, TwoWritersNoticed
  <2> HIDE DEF d
  <2>6. SeparateNames'
    BY <2>1, <2>2 DEF BlobInv, SeparateNames
  <2>7. OpenForOwn'
    BY <2>1, <2>2, <2>4 DEF BlobInv, OpenForOwn
  <2>8. TwoWritersNoticed'
    BY <2>1, <2>4 DEF BlobInv, TwoWritersNoticed, Writing
  <2>9. LoneWriterHasTmp' /\ LoneWriterOwnsTmp'
    <3>1. ASSUME NEW v \in Writers, Writing(v)', want'[v] \notin contended'
          PROVE  /\ v # w /\ Writing(v) /\ want'[v] = want[v] /\ want[v] \in Digests
                 /\ tmp'[want[v]] = tmp[want[v]]
      BY <3>1, <1>types, <2>1, <2>2, <2>4, <2>5 DEF Writing, Phases
    <3> QED
      BY <3>1, <2>1, <2>4 DEF BlobInv, LoneWriterHasTmp, LoneWriterOwnsTmp, Writing
  <2>10. FinalClosed'
    <3>1. ASSUME NEW v \in Writers, fd[v] = tmp[d]
          PROVE  d \in contended
      <4>1. v # w /\ Writing(v) /\ want[v] = d
        BY <3>1, <1>types, <2>1 DEF BlobInv, OpenForOwn, Phases, Writing
      <4> QED
        BY <4>1, <2>5
    <3> QED
      BY <3>1, <2>1, <2>2, <2>4 DEF BlobInv, FinalClosed, Stored
  <2>11. AtomicUnlessContended'
    <3>1. d \notin contended => content[tmp[d]] = Whole
      BY <2>1 DEF BlobInv, LoneWriterOwnsTmp, Whole, d
    <3> QED
      BY <3>1, <2>1, <2>2 DEF BlobInv, AtomicUnlessContended, Torn, Stored
  <2> QED
    BY <2>3, <2>6, <2>7, <2>8, <2>9, <2>10, <2>11 DEF BlobInv
<1>7. CASE UNCHANGED blobVars
  BY <1>7 DEF blobVars, BlobInv, BlobTypeOK, Phases, SeparateNames, OpenForOwn,
              TwoWritersNoticed, LoneWriterHasTmp, LoneWriterOwnsTmp, FinalClosed,
              AtomicUnlessContended, Torn, Stored, Writing
<1> QED
  BY <1>1, <1>2, <1>3, <1>4, <1>5, <1>6, <1>7 DEF BlobNext, PutStep

\* The invariant holds at every moment of every run.
LEMMA BlobInvariant == BlobSpec => []BlobInv
BY BlobInvInit, BlobInvNext, PTL DEF BlobSpec

\* The type invariant, for any number of processes, contents and chunks.
THEOREM BlobTypeCorrect == BlobSpec => []BlobTypeOK
<1>1. BlobInv => BlobTypeOK
  BY DEF BlobInv
<1> QED
  BY <1>1, BlobInvariant, PTL

\* A blob is torn only if two processes have written its content at the same time:
\* deaths alone never tear one.
THEOREM TornNeedsTwoWriters == BlobSpec => []AtomicUnlessContended
<1>1. BlobInv => AtomicUnlessContended
  BY DEF BlobInv
<1> QED
  BY <1>1, BlobInvariant, PTL

\* A process alone with its content finds in the temporary file what it wrote.
THEOREM LoneWriterAlwaysOwnsTmp == BlobSpec => []LoneWriterOwnsTmp
<1>1. BlobInv => LoneWriterOwnsTmp
  BY DEF BlobInv
<1> QED
  BY <1>1, BlobInvariant, PTL

=============================================================================
