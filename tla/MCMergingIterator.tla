------------------------ MODULE MCMergingIterator --------------------------
(***************************************************************************)
(* Up to three sources over four keys, each key in one source or in none  *)
(* (354 layouts): no source, one source, empty sources, a source holding  *)
(* every key, and keys alternating between sources so that direction     *)
(* changes reposition several of them.  Seek targets include one below   *)
(* and one above every key.                                                *)
(***************************************************************************)
EXTENDS MergingIterator

MCKeys == 1..4
MCTargets == 0..5
=============================================================================
