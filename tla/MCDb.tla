------------------------------- MODULE MCDb --------------------------------
(***************************************************************************)
(* Model-checking constants for Db.  Two keys let a read meet another   *)
(* key's entry; one value is enough, since a Put against a Delete shows  *)
(* any shadowing.  Two clients let a follower join a leader's group, and *)
(* a sync writer queue behind one that does not sync; they are           *)
(* interchangeable, so their permutations are a symmetry.  In MCDb.cfg a *)
(* write buffer of 11 bytes is exceeded by one Put (12 bytes), so the    *)
(* next write rotates the memtable: imm, the wait for the flush, two     *)
(* level-0 files, a compaction and a crash with imm's log still on disk  *)
(* all occur within four sequence numbers.                                *)
(***************************************************************************)
EXTENDS Db, TLC

MCKeys == {1, 2}
MCValues == {"a"}
CONSTANTS c1, c2
MCClients == {c1, c2}
ClientSymmetry == Permutations(MCClients)
MCClient == {c1}
=============================================================================
