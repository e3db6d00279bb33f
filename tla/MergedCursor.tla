---------------------------- MODULE MergedCursor ----------------------------
(***************************************************************************)
(* What an Iterator over a set of keys promises (iterator.h's contract,   *)
(* which NewMergingIterator's result must keep): a cursor that is either  *)
(* invalid or at one key of the set; SeekToFirst, SeekToLast and Seek(t)  *)
(* move it to the smallest key, the largest key and the smallest key not  *)
(* below t, Next and Prev to the following and preceding key, and each    *)
(* becomes invalid when there is no such key.                              *)
(***************************************************************************)
EXTENDS Integers, FiniteSets

CONSTANTS
  Keys,      \* the keys that may be in the set
  Targets    \* the keys Seek may be called with

VARIABLES
  keyset,   \* the keys the iterator ranges over (fixed)
  valid,    \* Valid()
  at,       \* key() when valid
  call      \* the last method called, with its argument

vars == <<keyset, valid, at, call>>

\* Move to the smallest (or largest) key of S, or become invalid.
MoveToLeast(S) ==
  IF S = {} THEN valid' = FALSE /\ at' = 0
  ELSE valid' = TRUE /\ at' = CHOOSE k \in S : \A j \in S : k <= j
MoveToGreatest(S) ==
  IF S = {} THEN valid' = FALSE /\ at' = 0
  ELSE valid' = TRUE /\ at' = CHOOSE k \in S : \A j \in S : k >= j

Init == keyset \subseteq Keys /\ valid = FALSE /\ at = 0 /\ call = [op |-> "none", arg |-> 0]

Called(op, arg) == call' = [op |-> op, arg |-> arg] /\ UNCHANGED keyset

SeekToFirst == MoveToLeast(keyset) /\ Called("SeekToFirst", 0)
SeekToLast == MoveToGreatest(keyset) /\ Called("SeekToLast", 0)
Seek(t) == MoveToLeast({k \in keyset : k >= t}) /\ Called("Seek", t)
Next == valid /\ MoveToLeast({k \in keyset : k > at}) /\ Called("Next", 0)
Prev == valid /\ MoveToGreatest({k \in keyset : k < at}) /\ Called("Prev", 0)

Step == SeekToFirst \/ SeekToLast \/ (\E t \in Targets : Seek(t)) \/ Next \/ Prev

Spec == Init /\ [][Step]_vars
=============================================================================
