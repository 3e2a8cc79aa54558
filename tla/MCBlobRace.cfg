CONSTANTS
  Writers = {w1, w2}
  Digests = {d1}
  Inodes <- MCInodes
  Chunks = 2
  NoFile = NoFile
  NoDigest = NoDigest
  MaxCrashes = 1
SPECIFICATION BlobSpec
INVARIANTS
  BlobAtomic
