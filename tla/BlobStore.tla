----------------------------- MODULE BlobStore -----------------------------
(***************************************************************************)
(* BlobStore.put_bytes on the file system, for processes that share one    *)
(* blob directory.  A put looks for the blob's file, and if there is none  *)
(* writes the bytes to a temporary file and renames it into place.  The    *)
(* temporary file's name depends on the digest alone, so two processes     *)
(* that store the same bytes write the same temporary file.                *)
(*                                                                         *)
(* A file is an inode with two possible names per digest, the blob's and   *)
(* the temporary one; an inode's content is the set of the chunks of the   *)
(* digest's bytes that are in it, each at its own offset.  Digests share   *)
(* no name and no inode.                                                   *)
(***************************************************************************)
EXTENDS Integers, FiniteSets

CONSTANTS
  Writers,     \* processes that store blobs
  Digests,     \* the contents they store
  Inodes,      \* enough for every name and every open file
  Chunks,      \* how many write calls a content takes
  NoFile,      \* the target of a name that does not exist
  NoDigest,    \* want[w] while w stores nothing
  MaxCrashes   \* bound on the crashes of a behaviour

ASSUME ChunksAssumption == Chunks \in Nat \ {0}

ASSUME FileAssumption == NoFile \notin Inodes

ASSUME CrashesAssumption == MaxCrashes \in Nat

VARIABLES
  final,       \* final[d]: the inode named by d's path
  tmp,         \* tmp[d]: the inode named by d's path with suffix .tmp
  content,     \* content[i]: the chunks in inode i
  pc,          \* pc[w]: where w stands in put_bytes
  want,        \* want[w]: the digest w is storing
  fd,          \* fd[w]: the inode w has open
  pos,         \* pos[w]: the next chunk w writes
  contended,   \* history: digests two processes have been writing at once
  crashes      \* crashes so far

blobVars == <<final, tmp, content, pc, want, fd, pos, contended, crashes>>

Whole == 1 .. Chunks

Files      == Inodes \cup {NoFile}
InUse(i)   == (\E d \in Digests : i \in {final[d], tmp[d]}) \/ (\E w \in Writers : fd[w] = i)
Stored(d)  == final[d] # NoFile
Torn(d)    == Stored(d) /\ content[final[d]] # Whole
Writing(w) == pc[w] \in {"write", "replace"}

\* put_bytes returns, raises or dies with its process.
Leave(w) ==
  /\ pc' = [pc EXCEPT ![w] = "idle"]
  /\ want' = [want EXCEPT ![w] = NoDigest]
  /\ fd' = [fd EXCEPT ![w] = NoFile]
  /\ pos' = [pos EXCEPT ![w] = 1]

BlobInit ==
  /\ final = [d \in Digests |-> NoFile]
  /\ tmp = [d \in Digests |-> NoFile]
  /\ content = [i \in Inodes |-> {}]
  /\ pc = [w \in Writers |-> "idle"]
  /\ want = [w \in Writers |-> NoDigest]
  /\ fd = [w \in Writers |-> NoFile]
  /\ pos = [w \in Writers |-> 1]
  /\ contended = {}
  /\ crashes = 0

-----------------------------------------------------------------------------
\* put_bytes is called.
Put(w, d) ==
  /\ pc[w] = "idle"
  /\ pc' = [pc EXCEPT ![w] = "exists"]
  /\ want' = [want EXCEPT ![w] = d]
  /\ UNCHANGED <<final, tmp, content, fd, pos, contended, crashes>>

\* path.exists(): the early return.
FindPath(w) ==
  /\ pc[w] = "exists"
  /\ Stored(want[w])
  /\ Leave(w)
  /\ UNCHANGED <<final, tmp, content, contended, crashes>>

MissPath(w) ==
  /\ pc[w] = "exists"
  /\ ~ Stored(want[w])
  /\ pc' = [pc EXCEPT ![w] = "open"]
  /\ UNCHANGED <<final, tmp, content, want, fd, pos, contended, crashes>>

\* Mutant: the temporary file is created exclusively.
OpenNewTmp(w) ==
  /\ pc[w] = "open"
  /\ tmp[want[w]] = NoFile
  /\ \E i \in Inodes :
       /\ ~ InUse(i)
       /\ tmp' = [tmp EXCEPT ![want[w]] = i]
       /\ content' = [content EXCEPT ![i] = {}]
       /\ fd' = [fd EXCEPT ![w] = i]
  /\ pc' = [pc EXCEPT ![w] = "write"]
  /\ UNCHANGED <<final, want, pos, contended, crashes>>

\* write_bytes opens the temporary file: one that exists, a dead process's or
\* another's, is truncated and shared.
OpenTmp(w) ==
  /\ pc[w] = "open"
  /\ \E i \in Inodes :
       /\ IF tmp[want[w]] = NoFile THEN ~ InUse(i) ELSE i = tmp[want[w]]
       /\ tmp' = [tmp EXCEPT ![want[w]] = i]
       /\ content' = [content EXCEPT ![i] = {}]
       /\ fd' = [fd EXCEPT ![w] = i]
  /\ contended' = IF \E v \in Writers \ {w} : want[v] = want[w] /\ Writing(v)
                  THEN contended \cup {want[w]} ELSE contended
  /\ pc' = [pc EXCEPT ![w] = "write"]
  /\ UNCHANGED <<final, want, pos, crashes>>

\* Mutant: the last chunk is never written.
WriteShort(w) ==
  /\ pc[w] = "write"
  /\ pos' = [pos EXCEPT ![w] = @ + 1]
  /\ IF pos[w] = Chunks
     THEN /\ pc' = [pc EXCEPT ![w] = "replace"]
          /\ fd' = [fd EXCEPT ![w] = NoFile]
          /\ UNCHANGED content
     ELSE /\ content' = [content EXCEPT ![fd[w]] = @ \cup {pos[w]}]
          /\ UNCHANGED <<pc, fd>>
  /\ UNCHANGED <<final, tmp, want, contended, crashes>>

\* Mutant: one write call too many.
WriteLong(w) ==
  /\ pc[w] = "write"
  /\ content' = [content EXCEPT ![fd[w]] = @ \cup {pos[w]}]
  /\ pos' = [pos EXCEPT ![w] = @ + 1]
  /\ IF pos[w] > Chunks
     THEN /\ pc' = [pc EXCEPT ![w] = "replace"]
          /\ fd' = [fd EXCEPT ![w] = NoFile]
     ELSE UNCHANGED <<pc, fd>>
  /\ UNCHANGED <<final, tmp, want, contended, crashes>>

\* One write call; after the last one the file is closed.
WriteChunk(w) ==
  /\ pc[w] = "write"
  /\ content' = [content EXCEPT ![fd[w]] = @ \cup {pos[w]}]
  /\ pos' = [pos EXCEPT ![w] = @ + 1]
  /\ IF pos[w] = Chunks
     THEN /\ pc' = [pc EXCEPT ![w] = "replace"]
          /\ fd' = [fd EXCEPT ![w] = NoFile]
     ELSE UNCHANGED <<pc, fd>>
  /\ UNCHANGED <<final, tmp, want, contended, crashes>>

\* tmp.replace(path) renames whatever inode the temporary name denotes by now.
Replace(w) ==
  /\ pc[w] = "replace"
  /\ tmp[want[w]] # NoFile
  /\ final' = [final EXCEPT ![want[w]] = tmp[want[w]]]
  /\ tmp' = [tmp EXCEPT ![want[w]] = NoFile]
  /\ Leave(w)
  /\ UNCHANGED <<content, contended, crashes>>

\* Another process has renamed the file away: FileNotFoundError.
ReplaceMissing(w) ==
  /\ pc[w] = "replace"
  /\ tmp[want[w]] = NoFile
  /\ Leave(w)
  /\ UNCHANGED <<final, tmp, content, contended, crashes>>

\* The process dies; its files stay as they are.
Die(w) ==
  /\ pc[w] # "idle"
  /\ crashes < MaxCrashes
  /\ crashes' = crashes + 1
  /\ Leave(w)
  /\ UNCHANGED <<final, tmp, content, contended>>

PutStep(w) ==
  \/ FindPath(w)
  \/ MissPath(w)
  \/ OpenTmp(w)
  \/ WriteChunk(w)
  \/ Replace(w)
  \/ ReplaceMissing(w)

BlobNext ==
  \E w \in Writers :
    \/ \E d \in Digests : Put(w, d)
    \/ PutStep(w)
    \/ Die(w)

BlobSpec == BlobInit /\ [][BlobNext]_blobVars

\* A put runs on while its process lives, and a process whose sync failed stores
\* the same content again in its next cycle.
Retries ==
  \A w \in Writers :
    /\ WF_blobVars(PutStep(w))
    /\ \A d \in Digests : SF_blobVars(Put(w, d))

FairBlobSpec == BlobSpec /\ Retries

-----------------------------------------------------------------------------
BlobTypeOK ==
  /\ final \in [Digests -> Files]
  /\ tmp \in [Digests -> Files]
  /\ content \in [Inodes -> SUBSET Whole]
  /\ pc \in [Writers -> {"idle", "exists", "open", "write", "replace"}]
  /\ want \in [Writers -> Digests \cup {NoDigest}]
  /\ fd \in [Writers -> Files]
  /\ pos \in [Writers -> 1 .. Chunks + 1]
  /\ contended \subseteq Digests
  /\ crashes \in 0 .. MaxCrashes

\* put_bytes's docstring: "The write is atomic".  A blob's file is never seen with
\* part of its bytes.
BlobAtomic == \A d \in Digests : ~ Torn(d)

\* The write is atomic as long as no two processes write the same content at the
\* same time, whoever dies in the middle of a write and leaves a temporary file.
AtomicUnlessContended == \A d \in Digests : Torn(d) => d \in contended

\* A process that has the file open or is about to rename it has put every chunk
\* it wrote into the inode the temporary name denotes, as long as it is alone.
LoneWriterOwnsTmp ==
  \A w \in Writers :
    Writing(w) /\ want[w] \notin contended =>
      /\ tmp[want[w]] # NoFile
      /\ content[tmp[want[w]]] = 1 .. pos[w] - 1

\* A temporary file left by a dead process never stops a content from being stored.
EventuallyStored == \A d \in Digests : <> Stored(d)

=============================================================================
