----------------------------- MODULE DurableLog -----------------------------
(***************************************************************************)
(* What the write-ahead log promises to the vector database, with no file, *)
(* LSN or thread in sight: records are numbered as they are issued, some   *)
(* are acknowledged, and an acknowledged record is needed until its effect *)
(* is in the flushed data files.  A recovery returns every needed record,  *)
(* once, in the order of issue.  It may return others as well: a record    *)
(* whose caller had no answer yet, or one that was released.               *)
(***************************************************************************)
EXTENDS Naturals, Sequences

VARIABLES
    issued,         \* how many records were issued
    needed,         \* acknowledged and not released
    released,       \* no longer needed
    replay          \* what the last recovery returned

vars == <<issued, needed, released, replay>>

Init == issued = 0 /\ needed = {} /\ released = {} /\ replay = <<>>

Issue ==
    /\ issued' = issued + 1
    /\ UNCHANGED <<needed, released, replay>>

Acknowledge ==
    /\ \E u \in (1 .. issued) \ (needed \cup released) : needed' = needed \cup {u}
    /\ UNCHANGED <<issued, released, replay>>

Release ==
    /\ needed' = {}
    /\ needed \cup released \subseteq released'
    /\ released' \subseteq 1 .. issued
    /\ UNCHANGED <<issued, replay>>

\* Every needed record, once and in the order of issue.
Returns(s) ==
    /\ needed \subseteq {s[i] : i \in DOMAIN s}
    /\ \A i, j \in DOMAIN s : i < j /\ {s[i], s[j]} \subseteq needed => s[i] < s[j]

Recover ==
    /\ Returns(replay')
    /\ UNCHANGED <<issued, needed, released>>

Next == Issue \/ Acknowledge \/ Release \/ Recover

Spec == Init /\ [][Next]_vars
=============================================================================
