------------------------------- MODULE MCWal -------------------------------
(***************************************************************************)
(* Instances of Wal for TLC.  A record of one cell is a Delete with empty  *)
(* metadata (38 bytes, as long as a checkpoint record), a longer one       *)
(* carries metadata or a vector.                                           *)
(***************************************************************************)
EXTENDS Wal

AllCalls == {"checkpoint", "clear", "shutdown"}
AllFaults == {"write", "header", "fsync", "rename", "create", "set_len"}
RotationFaults == {"rename", "create"}
ShortAndLong == {1, 2}
=============================================================================
