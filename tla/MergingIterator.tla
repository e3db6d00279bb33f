-------------------------- MODULE MergingIterator --------------------------
(***************************************************************************)
(* MergingIterator (merger.cc): an iterator over the union of n child     *)
(* iterators, keeping each child positioned and pointing current at the  *)
(* child whose key is next in the direction of travel.  Keys are integers *)
(* ordered by the comparator; each child ranges over a sorted sequence of *)
(* keys (an immutable memtable or table), and the children's key sets are *)
(* disjoint, as internal keys of one version are.                          *)
(*                                                                         *)
(* A child's position is an index into its sequence, 0 when the child is  *)
(* not Valid().  current is a child index, 0 for nullptr.                 *)
(***************************************************************************)
EXTENDS Integers, Sequences, SequencesExt

CONSTANTS
  N,         \* the most sources (n) an iterator is built over
  Keys,      \* the keys the sources may hold
  Targets    \* the keys Seek is called with

VARIABLES
  children,   \* Seq of sorted key sequences, fixed
  pos,        \* the position of each child
  current,    \* the child current points to, 0 for nullptr
  direction,  \* kForward or kReverse
  call,       \* the client's last call and its argument (history only)
  kind        \* what NewMergingIterator returned, fixed

vars == <<children, pos, current, direction, call, kind>>

Child == DOMAIN children

(* The child iterators: MemTableIterator (memtable.cc), which forwards  *)
(* each call to the skip list's iterator over the memtable's sorted       *)
(* entries c (Seek after EncodeKey length-prefixes the target); a table   *)
(* iterator keeps the same contract.  Past either end a child is invalid. *)
ChildSeekToFirst(c) == IF c = <<>> THEN 0 ELSE 1
ChildSeekToLast(c) == Len(c)
ChildSeek(c, t) ==
  LET ge == {j \in DOMAIN c : c[j] >= t}
  IN IF ge = {} THEN 0 ELSE Min(ge)
ChildNext(c, p) == IF p < Len(c) THEN p + 1 ELSE 0
ChildPrev(c, p) == p - 1

\* key() of a child at position p.
KeyAt(p, i) == children[i][p[i]]

(***************************************************************************)
(* findSmallest: scan the children in order, keep the first valid one and *)
(* replace it by any later one with a strictly smaller key.  findLargest  *)
(* scans from the last child down and replaces on a strictly larger key. *)
(***************************************************************************)
FindSmallest(p) ==
  LET V == {i \in Child : p[i] # 0}
  IN IF V = {} THEN 0
     ELSE CHOOSE i \in V : \A j \in V : KeyAt(p, i) < KeyAt(p, j)
                                        \/ (KeyAt(p, i) = KeyAt(p, j) /\ i <= j)

FindLargest(p) ==
  LET V == {i \in Child : p[i] # 0}
  IN IF V = {} THEN 0
     ELSE CHOOSE i \in V : \A j \in V : KeyAt(p, i) > KeyAt(p, j)
                                        \/ (KeyAt(p, i) = KeyAt(p, j) /\ i >= j)

(***************************************************************************)
(* NewMergingIterator(list, n): an empty iterator when there is no        *)
(* source, the only source itself when there is one, and a                 *)
(* MergingIterator (whose constructor leaves the children unpositioned)   *)
(* otherwise.  Each key of Keys is in one source or in none.              *)
(***************************************************************************)
\* Seeded fault: n <= 1 takes the empty-iterator branch.
NewMergingIteratorNoSingle(n) ==
  IF n <= 1 THEN "empty" ELSE "merging"

NewMergingIterator(n) ==
  IF n = 0 THEN "empty" ELSE IF n = 1 THEN "child" ELSE "merging"

Init ==
  /\ \E n \in 0..N : \E owner \in [Keys -> 0..n] :
       /\ children = [i \in 1..n |-> SetToSortSeq({k \in Keys : owner[k] = i}, <)]
       /\ kind = NewMergingIterator(n)
  /\ pos = [i \in Child |-> 0]
  /\ current = 0
  /\ direction = "kForward"
  /\ call = [op |-> "none", arg |-> 0]

SeekToFirst ==
  LET p == [i \in Child |-> ChildSeekToFirst(children[i])]
  IN /\ pos' = p
     /\ current' = FindSmallest(p)
     /\ direction' = "kForward"
     /\ call' = [op |-> "SeekToFirst", arg |-> 0]
     /\ UNCHANGED <<children, kind>>

\* Seeded fault: SeekToLast leaves the direction forward.
SeekToLastForward ==
  LET p == [i \in Child |-> ChildSeekToLast(children[i])]
  IN /\ pos' = p
     /\ current' = FindLargest(p)
     /\ direction' = "kForward"
     /\ call' = [op |-> "SeekToLast", arg |-> 0]
     /\ UNCHANGED <<children, kind>>

SeekToLast ==
  LET p == [i \in Child |-> ChildSeekToLast(children[i])]
  IN /\ pos' = p
     /\ current' = FindLargest(p)
     /\ direction' = "kReverse"
     /\ call' = [op |-> "SeekToLast", arg |-> 0]
     /\ UNCHANGED <<children, kind>>

Seek(t) ==
  LET p == [i \in Child |-> ChildSeek(children[i], t)]
  IN /\ pos' = p
     /\ current' = FindSmallest(p)
     /\ direction' = "kForward"
     /\ call' = [op |-> "Seek", arg |-> t]
     /\ UNCHANGED <<children, kind>>

(***************************************************************************)
(* Next: when the last move was backward, position every other child at   *)
(* its first key after key() (seek, then step over an equal key); then   *)
(* advance current and find the smallest.                                  *)
(***************************************************************************)
NextReposition ==
  LET k == KeyAt(pos, current)
  IN [i \in Child |->
        IF i = current THEN pos[i]
        ELSE LET s == ChildSeek(children[i], k)
             IN IF s # 0 /\ children[i][s] = k THEN ChildNext(children[i], s) ELSE s]

\* Seeded fault: the merge ends as soon as the current child is exhausted.
NextStopsAtChildEnd ==
  LET p1 == IF direction # "kForward" THEN NextReposition ELSE pos
      p2 == [p1 EXCEPT ![current] = ChildNext(children[current], @)]
  IN /\ current # 0
     /\ pos' = p2
     /\ current' = IF p2[current] = 0 THEN 0 ELSE FindSmallest(p2)
     /\ direction' = "kForward"
     /\ call' = [op |-> "Next", arg |-> 0]
     /\ UNCHANGED <<children, kind>>

Next ==
  LET p1 == IF direction # "kForward" THEN NextReposition ELSE pos
      p2 == [p1 EXCEPT ![current] = ChildNext(children[current], @)]
  IN /\ current # 0
     /\ pos' = p2
     /\ current' = FindSmallest(p2)
     /\ direction' = "kForward"
     /\ call' = [op |-> "Next", arg |-> 0]
     /\ UNCHANGED <<children, kind>>

(***************************************************************************)
(* Prev: when the last move was forward, position every other child at    *)
(* its last key before key(): seek, then step back, or SeekToLast if no   *)
(* key is at or after key(); then step current back and find the largest.*)
(***************************************************************************)
PrevReposition ==
  LET k == KeyAt(pos, current)
  IN [i \in Child |->
        IF i = current THEN pos[i]
        ELSE LET s == ChildSeek(children[i], k)
             IN IF s # 0 THEN ChildPrev(children[i], s)
                ELSE ChildSeekToLast(children[i])]

Prev ==
  LET p1 == IF direction # "kReverse" THEN PrevReposition ELSE pos
      p2 == [p1 EXCEPT ![current] = ChildPrev(children[current], @)]
  IN /\ current # 0
     /\ pos' = p2
     /\ current' = FindLargest(p2)
     /\ direction' = "kReverse"
     /\ call' = [op |-> "Prev", arg |-> 0]
     /\ UNCHANGED <<children, kind>>

(***************************************************************************)
(* The iterator returned for n <= 1.  The only source moves by itself     *)
(* (MemTableIterator's calls), and is current while it is valid.  The     *)
(* empty iterator (NewEmptyIterator) is never valid, so only the seeks    *)
(* may be called on it.                                                    *)
(***************************************************************************)
LoneMove(p, op, t) ==
  /\ pos' = <<p>>
  /\ current' = IF p = 0 THEN 0 ELSE 1
  /\ call' = [op |-> op, arg |-> t]
  /\ UNCHANGED <<children, direction, kind>>

LoneStep ==
  LET c == children[1] IN
  \/ LoneMove(ChildSeekToFirst(c), "SeekToFirst", 0)
  \/ LoneMove(ChildSeekToLast(c), "SeekToLast", 0)
  \/ \E t \in Targets : LoneMove(ChildSeek(c, t), "Seek", t)
  \/ current # 0 /\ LoneMove(ChildNext(c, pos[1]), "Next", 0)
  \/ current # 0 /\ LoneMove(ChildPrev(c, pos[1]), "Prev", 0)

EmptyStep ==
  /\ \E op \in {"SeekToFirst", "SeekToLast", "Seek"}, t \in Targets :
       call' = [op |-> op, arg |-> IF op = "Seek" THEN t ELSE 0]
  /\ UNCHANGED <<children, pos, current, direction, kind>>

Step ==
  \/ kind = "merging" /\ \/ SeekToFirst
                         \/ SeekToLast
                         \/ \E t \in Targets : Seek(t)
                         \/ Next
                         \/ Prev
  \/ kind = "child" /\ LoneStep
  \/ kind = "empty" /\ EmptyStep

Spec == Init /\ [][Step]_vars

-----------------------------------------------------------------------------
\* The keys of all children.
AllKeys == UNION {ToSet(children[i]) : i \in Child}

(***************************************************************************)
(* The comments of Next and Prev: moving forward, every child other than  *)
(* current is at its first key after key() (invalid if it has none);      *)
(* moving backward, at its last key before key().  Next and Prev skip     *)
(* repositioning when the direction is unchanged because of this.         *)
(***************************************************************************)
ChildrenPositioned ==
  current # 0 =>
    \A i \in Child \ {current} :
      LET c == children[i]
          k == KeyAt(pos, current)
          after  == {j \in DOMAIN c : c[j] > k}
          before == {j \in DOMAIN c : c[j] < k}
      IN IF direction = "kForward"
         THEN pos[i] = (IF after = {} THEN 0 ELSE Min(after))
         ELSE pos[i] = (IF before = {} THEN 0 ELSE Max(before))

\* The merged iterator is a cursor over the union of its children's keys.
Cursor == INSTANCE MergedCursor WITH
            keyset <- AllKeys,
            valid  <- current # 0,
            at     <- IF current # 0 THEN KeyAt(pos, current) ELSE 0,
            call   <- call

(***************************************************************************)
(* Every call moves the merged iterator exactly as a cursor over the      *)
(* sorted union moves: no key skipped or repeated, also when Next follows *)
(* Prev or Prev follows Next, and when a child runs out.                  *)
(***************************************************************************)
MergingRefinesCursor == Cursor!Spec
=============================================================================
