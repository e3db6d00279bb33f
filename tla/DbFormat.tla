----------------------------- MODULE DbFormat ------------------------------
(***************************************************************************)
(* Internal keys (dbformat.cc): a user key followed by an 8-byte tag       *)
(* (sequence << 8 | type).  User keys are abstracted to integers ordered  *)
(* like the bytewise comparator orders them; an entry of a memtable or a  *)
(* table is a record of its user key, sequence, type and value.           *)
(***************************************************************************)
EXTENDS Integers, Words

kTypeDeletion == 0
kTypeValue == 1
\* The type packed into a seek target: the largest type, so that the target
\* sorts before every entry of the same user key and sequence.
kValueTypeForSeek == kTypeValue

CONSTANT MaxSequence   \* kMaxSequenceNumber, bounded for the model
ASSUME MaxSequence \in Nat

Entry(keys, vals) == [key : keys, seq : 0..MaxSequence,
                      type : {kTypeDeletion, kTypeValue}, val : vals]

\* packSequenceAndType: the 64-bit tag (no wrap: seq is asserted to fit).
packSequenceAndType(seq, t) == seq * 256 + t

Tag(e) == packSequenceAndType(e.seq, e.type)

(***************************************************************************)
(* The tag as the code computes it, on uint64_t words: packSequenceAndType *)
(* shifts the sequence left by 8 (its top 8 bits are lost) and ORs in the *)
(* type; ParseInternalKey reads the sequence back as num >> 8 and the     *)
(* type as the low byte, which must not exceed kTypeValue.  The check    *)
(* n < 8 on the key's length is left out: a tag is always 8 bytes here.   *)
(***************************************************************************)
\* kMaxSequenceNumber = (1 << 56) - 1: sequences are 56-bit.
kMaxSequenceNumber == [i \in 0..63 |-> IF i < 56 THEN 1 ELSE 0]

PackSequenceAndTypeWord(seq, t) == BitOr(ShiftLeft(seq, 8), ToWord(t, 64))

\* Seeded fault: the parsed type is accepted only below kTypeValue.
ParseInternalKeyStrict(num) ==
  LET c == NatOf(LowBits(num, 8))
  IN [sequence |-> ShiftRight(num, 8), type |-> c, ok |-> c < kTypeValue]

ParseInternalKey(num) ==
  LET c == NatOf(LowBits(num, 8))
  IN [sequence |-> ShiftRight(num, 8), type |-> c, ok |-> c <= kTypeValue]

(***************************************************************************)
(* InternalKeyComparator::Compare(a, b) < 0: increasing user key, then    *)
(* decreasing tag (newer sequence first).                                  *)
(***************************************************************************)
InternalLess(a, b) ==
  \/ a.key < b.key
  \/ a.key = b.key /\ Tag(a) > Tag(b)

\* Seeded fault: the seek target carries kTypeDeletion, so an entry written
\* at exactly the read sequence sorts before the target and is skipped.
LookupKeyDeletionType(k, s) == [key |-> k, seq |-> s, type |-> kTypeDeletion]

\* LookupKey::LookupKey(userkey, s): the internal key the memtable and the
\* tables seek to.
LookupKey(k, s) == [key |-> k, seq |-> s, type |-> kValueTypeForSeek]

\* Iterator::Seek(target) on a sorted collection of entries: the first
\* entry that is not less than the target, as a set of at most one entry.
SeekFirst(S, target) ==
  LET ge == {e \in S : ~InternalLess(e, target)}
  IN {e \in ge : \A f \in ge : ~InternalLess(f, e)}
-----------------------------------------------------------------------------
\* Sequences at the edges of the 56 bits: 0, 1, the byte boundary, the top
\* bit, and the two largest.
SequenceEdges ==
  {ToWord(0, 64), ToWord(1, 64), ToWord(255, 64), ToWord(256, 64),
   ShiftLeft(ToWord(1, 64), 55), Minus(kMaxSequenceNumber, ToWord(1, 64)),
   kMaxSequenceNumber}

\* Tags of (s1, t1) and (s2, t2) parse back to their sequence and type, and
\* compare as unsigned 64-bit words as the (sequence, type) pairs do.
TagOrdered(s1, t1, s2, t2) ==
  LET a == PackSequenceAndTypeWord(s1, t1)
      b == PackSequenceAndTypeWord(s2, t2)
  IN /\ ParseInternalKey(a) = [sequence |-> s1, type |-> t1, ok |-> TRUE]
     /\ WordLess(a, b) <=> WordLess(s1, s2) \/ (s1 = s2 /\ t1 < t2)
=============================================================================
