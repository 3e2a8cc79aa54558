CONSTANTS
  Writers = {w1, w2, w3}
  Digests = {d1}
  Inodes <- MCInodes
  Chunks = 2
  NoFile = NoFile
  NoDigest = NoDigest
  MaxCrashes = 1
SPECIFICATION FairBlobSpec
INVARIANTS
  BlobTypeOK
  AtomicUnlessContended
PROPERTIES
  EventuallyStored
