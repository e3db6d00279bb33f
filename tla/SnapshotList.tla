--------------------------- MODULE SnapshotList ----------------------------
(***************************************************************************)
(* SnapshotList (snapshot.h): the std::list of live snapshots, oldest     *)
(* first.  A Snapshot holds only its sequence number, so a list is a      *)
(* sequence of sequence numbers and a handle is the number it pins.  The  *)
(* list is a value here; its methods are operators on it.                 *)
(***************************************************************************)
EXTENDS Sequences, SequencesExt

SnapshotListEmpty(l) == l = <<>>

\* oldest() and newest(): both assert the list is not empty.
Oldest(l) == Head(l)
Newest(l) == l[Len(l)]

(***************************************************************************)
(* NewSnapshot(s): asserts s is not older than the newest snapshot and    *)
(* returns a new Snapshot, without adding it to the list (the comment     *)
(* says it appends).  Returns the list after the call and the handle.     *)
(***************************************************************************)
NewSnapshot(l, s) == [lists |-> l, handle |-> s]

\* The assertion at the top of NewSnapshot.
NewSnapshotAssert(l, s) == IF SnapshotListEmpty(l) THEN TRUE ELSE Newest(l) <= s

\* DeleteSnapshot(h): erase the first snapshot with h's sequence number.
DeleteSnapshot(l, h) == RemoveFirst(l, h)
=============================================================================
