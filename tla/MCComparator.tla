--------------------------- MODULE MCComparator ----------------------------
(***************************************************************************)
(* The on-disk format's pure algorithms, one call per behaviour.          *)
(*                                                                         *)
(* Key shortening: keys over the bytes 0xfc..0xff up to three bytes long: *)
(* a byte that can be incremented below the limit's (0xfc below 0xfe),    *)
(* one that would reach it (0xfd below 0xfe), one that cannot be          *)
(* incremented (0xff), prefixes and equal user keys with different tags.  *)
(* Every increment the code makes stays in the alphabet, so results are  *)
(* keys of the model and the reference sets range over them.              *)
(*                                                                         *)
(* Word calls: Mask and Unmask on every edge checksum of Crc32c, and      *)
(* packSequenceAndType and ParseInternalKey on every pair of edge         *)
(* sequences of DbFormat and types.  A word call leaves the key pair at   *)
(* one fixed pair, so each behaviour is one call of one algorithm.        *)
(***************************************************************************)
EXTENDS Table, Crc32c

MCBytes == {252, 253, 254, 255}

\* Table keys: user keys of up to two bytes over 0xfc, 0xfd and 0xff, so
\* that a separator is shortened (0xfc below 0xff) or not (0xfc below 0xfd),
\* with the oldest tag and MaxTag, the tag a shortened separator carries.
MCTableKeys ==
  {k \in InternalKeys : /\ Len(k.user) <= 2
                        /\ \A i \in DOMAIN k.user : k.user[i] # 254
                        /\ k.tag \in {packSequenceAndType(0, kTypeDeletion), MaxTag}}

VARIABLE word   \* the arguments of a word call, or NoCall

NoCall == [op |-> "none"]

WordCalls ==
  {[op |-> "mask", crc |-> c] : c \in CrcEdges}
    \cup {[op |-> "tag", s1 |-> s1, t1 |-> t1, s2 |-> s2, t2 |-> t2] :
            s1, s2 \in SequenceEdges, t1, t2 \in {kTypeDeletion, kTypeValue}}

FirstPair == CHOOSE p \in InternalKeys \X InternalKeys : InternalKeyLess(p[1], p[2])

TableCall == [op |-> "table"]

\* The builder of a behaviour that is not a table call is never used.
TableIdle == input = <<>> /\ NewBuilder

MCInit ==
  /\ Init
  /\ \/ word = NoCall /\ TableIdle
     \/ <<start, limit>> = FirstPair /\ word \in WordCalls /\ TableIdle
     \/ <<start, limit>> = FirstPair /\ word = TableCall /\ TableInit

MCNext ==
  \/ Next /\ UNCHANGED <<word, tableVars>>
  \/ word = TableCall /\ TableNext /\ UNCHANGED <<start, limit, word>>

MCSpec == MCInit /\ [][MCNext]_<<start, limit, word, tableVars>>

(***************************************************************************)
(* The WAL reader recovers the checksum the writer stored: Unmask(Mask(c)) *)
(* is c for every edge checksum, including those where Mask's addition    *)
(* wraps past 2^32 and Unmask's subtraction wraps below 0 (crc32c.h).     *)
(* Without it every record of an undamaged log fails logreader.cc's       *)
(* checksum test.                                                          *)
(***************************************************************************)
MaskRoundTrip == word.op = "mask" => MaskRoundTripFor(word.crc)

(***************************************************************************)
(* The 64-bit tag keeps what the models' integer Tag assumes, up to       *)
(* kMaxSequenceNumber: ParseInternalKey gives back the sequence and type  *)
(* packSequenceAndType packed and accepts them, and tags compare as       *)
(* (sequence, type) pairs, so InternalKeyComparator's decreasing-tag      *)
(* order is newest first with a Put before a Deletion of the same         *)
(* sequence.  packSequenceAndType checks the bound only with assert.      *)
(***************************************************************************)
PackedTagOrder == word.op = "tag" => TagOrdered(word.s1, word.t1, word.s2, word.t2)
=============================================================================
