----------------------------- MODULE VectorMap -----------------------------
(***************************************************************************)
(* What the vector database promises, with no file, log or crash in sight: *)
(* a row appended by an insert keeps its number until a compaction, which  *)
(* drops the deleted rows and numbers the others anew in their order; an   *)
(* update replaces the vector and the metadata of a live row together, a   *)
(* delete is final.  An operation that was refused although its record is  *)
(* in the log leaves the rows in doubt until the log is emptied.           *)
(***************************************************************************)
EXTENDS Naturals, Sequences, SortedSets

CONSTANTS Vectors, Data

VARIABLES
    db,             \* the rows: a live row or Deleted
    doubt           \* the log holds a record whose operation was refused

Live == [vec : Vectors, data : Data]
Deleted == [deleted |-> TRUE]

Init == db = <<>> /\ doubt = FALSE

Insert == \E row \in Live : db' = Append(db, row)
Update == \E i \in DOMAIN db, row \in Live : db[i] # Deleted /\ db' = [db EXCEPT ![i] = row]
Delete == \E i \in DOMAIN db : db[i] # Deleted /\ db' = [db EXCEPT ![i] = Deleted]

Compact ==
    LET kept == Ascending({i \in DOMAIN db : db[i] # Deleted})
    IN  db' = [k \in DOMAIN kept |-> db[kept[k]]]

Operation == (Insert \/ Update \/ Delete \/ Compact) /\ UNCHANGED doubt

\* Nothing is promised from the refusal to the end of the log.
InDoubt == doubt \/ doubt'

Next == Operation \/ InDoubt

Spec == Init /\ [][Next]_<<db, doubt>>
=============================================================================
