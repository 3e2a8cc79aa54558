---------------------------- MODULE MCBlobStore ----------------------------
(***************************************************************************)
(* Processes that all store the same content, of two chunks; one of them   *)
(* may die once, with the temporary file in any state.  Enough inodes for  *)
(* both names of the content and an open file per process.                 *)
(***************************************************************************)
EXTENDS BlobStore

MCInodes == 1 .. 2 * Cardinality(Digests) + Cardinality(Writers)

=============================================================================
