---------------------------- MODULE Comparator -----------------------------
(***************************************************************************)
(* Key shortening in dbformat.cc: BytewiseComparatorImpl's                 *)
(* FindShortestSeparator and FindShortSuccessor on user keys, and the      *)
(* InternalKeyComparator versions that re-append the largest tag when     *)
(* they shorten the user key.  The table builder uses them to shorten the *)
(* keys of its index.  A user key is a sequence of bytes over a small     *)
(* alphabet that includes 0xff; an internal key is its user key and tag.  *)
(*                                                                         *)
(* The algorithms are pure: the state is the pair of keys they are called *)
(* with (the last key of a block and the first key of the next, so       *)
(* start < limit), fixed for a behaviour.                                  *)
(***************************************************************************)
EXTENDS DbFormat, SequencesExt

CONSTANTS
  Bytes,    \* the byte values keys are made of (a subset of 0..255)
  MaxLen    \* the longest user key

ASSUME Bytes \subseteq 0..255 /\ 255 \in Bytes

UserKeys == UNION {[1..n -> Bytes] : n \in 0..MaxLen}

\* BytewiseComparatorImpl::Compare(a, b) < 0: memcmp of the common length,
\* then the shorter key first.
RECURSIVE BytewiseLess(_, _)
BytewiseLess(a, b) ==
  IF b = <<>> THEN FALSE
  ELSE IF a = <<>> THEN TRUE
  ELSE IF Head(a) # Head(b) THEN Head(a) < Head(b)
  ELSE BytewiseLess(Tail(a), Tail(b))

\* Seeded fault: the byte is incremented when it is one below the limit's.
FindShortestSeparatorOffByOne(start, limit) ==
  LET minLength == IF Len(start) < Len(limit) THEN Len(start) ELSE Len(limit)
      diffIndex == Len(LongestCommonPrefix({start, limit}))
      diffByte  == start[diffIndex + 1]
  IN IF diffIndex >= minLength THEN start
     ELSE IF diffByte < 255 /\ diffByte + 1 <= limit[diffIndex + 1]
     THEN [SubSeq(start, 1, diffIndex + 1) EXCEPT ![diffIndex + 1] = diffByte + 1]
     ELSE start

(***************************************************************************)
(* BytewiseComparatorImpl::FindShortestSeparator: past the common prefix, *)
(* if start's byte can be incremented and stay below limit's, increment  *)
(* it and cut start after it; keep start if one key is a prefix of the   *)
(* other.  (Bytes are 1-based here; diffIndex is the code's 0-based one.) *)
(***************************************************************************)
FindShortestSeparator(start, limit) ==
  LET minLength == IF Len(start) < Len(limit) THEN Len(start) ELSE Len(limit)
      diffIndex == Len(LongestCommonPrefix({start, limit}))
      diffByte  == start[diffIndex + 1]
  IN IF diffIndex >= minLength THEN start
     ELSE IF diffByte < 255 /\ diffByte + 1 < limit[diffIndex + 1]
     THEN [SubSeq(start, 1, diffIndex + 1) EXCEPT ![diffIndex + 1] = diffByte + 1]
     ELSE start

\* Seeded fault: the key is cut before the incremented byte (resize(i)).
FindShortSuccessorDropsByte(key) ==
  LET inc == {i \in DOMAIN key : key[i] # 255}
      i   == Min(inc)
  IN IF inc = {} THEN key ELSE SubSeq(key, 1, i - 1)

\* BytewiseComparatorImpl::FindShortSuccessor: increment the first byte
\* that is not 0xff and cut the key after it; an all-0xff key is kept.
FindShortSuccessor(key) ==
  LET inc == {i \in DOMAIN key : key[i] # 255}
      i   == Min(inc)
  IN IF inc = {} THEN key ELSE [SubSeq(key, 1, i) EXCEPT ![i] = key[i] + 1]

-----------------------------------------------------------------------------
(* Internal keys: a user key and the 64-bit tag (sequence << 8 | type). *)

InternalKeys == [user : UserKeys,
                 tag : {packSequenceAndType(s, t) : s \in 0..MaxSequence,
                                                    t \in {kTypeDeletion, kTypeValue}}]

\* InternalKeyComparator::Compare(a, b) < 0 on byte-string user keys.
InternalKeyLess(a, b) ==
  \/ BytewiseLess(a.user, b.user)
  \/ a.user = b.user /\ a.tag > b.tag

\* The tag appended to a shortened user key: the earliest possible entry.
MaxTag == packSequenceAndType(MaxSequence, kValueTypeForSeek)

\* Seeded fault: the shortened key is not swapped in; start gets the tag.
InternalFindShortestSeparatorKeepsUser(start, limit) ==
  LET tmp == FindShortestSeparator(start.user, limit.user)
  IN IF Len(tmp) < Len(start.user) /\ BytewiseLess(start.user, tmp)
     THEN [user |-> start.user, tag |-> MaxTag]
     ELSE start

(***************************************************************************)
(* InternalKeyComparator::FindShortestSeparator: shorten the user key;   *)
(* if it became physically shorter and logically larger, append the      *)
(* largest tag and use it, else keep start.                               *)
(***************************************************************************)
InternalFindShortestSeparator(start, limit) ==
  LET tmp == FindShortestSeparator(start.user, limit.user)
  IN IF Len(tmp) < Len(start.user) /\ BytewiseLess(start.user, tmp)
     THEN [user |-> tmp, tag |-> MaxTag]
     ELSE start

\* InternalKeyComparator::FindShortSuccessor, likewise.
InternalFindShortSuccessor(key) ==
  LET tmp == FindShortSuccessor(key.user)
  IN IF Len(tmp) < Len(key.user) /\ BytewiseLess(key.user, tmp)
     THEN [user |-> tmp, tag |-> MaxTag]
     ELSE key
-----------------------------------------------------------------------------
(***************************************************************************)
(* The call being checked: the keys FindShortestSeparator is called with  *)
(* (start < limit, as the table builder's last and next keys are), and   *)
(* start's own successor (FindShortSuccessor on the last key of a table). *)
(***************************************************************************)
VARIABLES start, limit

Init ==
  /\ start \in InternalKeys
  /\ limit \in InternalKeys
  /\ InternalKeyLess(start, limit)

\* The keys of one call do not change.
Next == UNCHANGED <<start, limit>>

Spec == Init /\ [][Next]_<<start, limit>>

\* The user keys between two keys: the reference the shortened key is
\* checked against.
Between(a, b) == {s \in UserKeys : ~BytewiseLess(s, a) /\ BytewiseLess(s, b)}

(***************************************************************************)
(* The bytewise separator of two user keys a < b lies in [a, b) and is no *)
(* longer than a: incrementing a byte past the common prefix never        *)
(* reaches the limit's byte, and 0xff is never incremented                 *)
(* (BytewiseComparatorImpl::FindShortestSeparator).                        *)
(***************************************************************************)
SeparatorInBounds ==
  BytewiseLess(start.user, limit.user) =>
    LET r == FindShortestSeparator(start.user, limit.user)
    IN r \in Between(start.user, limit.user) /\ Len(r) <= Len(start.user)

(***************************************************************************)
(* The internal separator satisfies the assertions of                      *)
(* InternalKeyComparator::FindShortestSeparator: start <= result < limit   *)
(* in internal-key order, whatever the tags of the two keys.               *)
(***************************************************************************)
InternalSeparatorInBounds ==
  LET r == InternalFindShortestSeparator(start, limit)
  IN ~InternalKeyLess(r, start) /\ InternalKeyLess(r, limit)

(***************************************************************************)
(* FindShortSuccessor returns a key not below its input and as short as    *)
(* the shortest such key (reference: every user key up to MaxLen), also    *)
(* when leading bytes are 0xff and when every byte is.                     *)
(***************************************************************************)
SuccessorIsShortest ==
  LET r == FindShortSuccessor(start.user)
      above == {s \in UserKeys : ~BytewiseLess(s, start.user)}
  IN /\ r \in above
     /\ \A s \in above : Len(r) <= Len(s)
=============================================================================
