----------------------------- MODULE MCRagIndex -----------------------------
(***************************************************************************)
(* Instances of RagIndex for TLC: a text of one chunk and one of two.      *)
(***************************************************************************)
EXTENDS RagIndex

CONSTANTS short, long

ShortAndLong == {short, long}
OneAndTwo == [t \in ShortAndLong |-> IF t = short THEN 1 ELSE 2]
Symmetry == Permutations(Clients) \cup Permutations(Sources)
AllRagFaults == {"embed", "insert", "delete", "flush", "edit"}
=============================================================================
