--------------------------- MODULE MCVectorStore ---------------------------
(***************************************************************************)
(* The instance of VectorStore for TLC: every fault except a crash between *)
(* the renames of a compaction, after which no promise holds.              *)
(***************************************************************************)
EXTENDS VectorStore

MCFaults == StoreFaults \ {"compact"}
=============================================================================
