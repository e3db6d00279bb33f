----------------------------- MODULE MemTable ------------------------------
(***************************************************************************)
(* MemTable (memtable.cc): a skip list of encoded entries ordered by the  *)
(* internal-key comparator, and the bytes it has allocated.  A memtable   *)
(* is a value here (the set of its entries and memoryusage), so the DB    *)
(* can hold two of them (mem and imm); its methods are operators on it.  *)
(* The skip list is abstracted to the ordered set its iterator walks.     *)
(***************************************************************************)
EXTENDS DbFormat

CONSTANTS
  KeySize,     \* bytes of every user key in the model
  ValueSize    \* bytes of every value put (a deletion's value is empty)

\* Result of MemTable::Get when the key is not decided here (returns false).
Miss == "miss"
\* Result when Get returns true with Status::NotFound (a deletion marker).
Deleted == "deleted"

\* VarintLength of a 32-bit length.
VarintLength(v) == IF v < 128 THEN 1 ELSE IF v < 16384 THEN 2 ELSE 3

EmptyMemTable == [entries |-> {}, memoryusage |-> 0]

(***************************************************************************)
(* MemTable::Add: encode the entry and insert it; memoryusage grows by    *)
(* the encoded length.                                                     *)
(***************************************************************************)
Add(m, seq, type, key, value) ==
  LET valsize == IF type = kTypeValue THEN ValueSize ELSE 0
      internalkeysize == KeySize + 8
      encodedlen == VarintLength(internalkeysize) + internalkeysize
                    + VarintLength(valsize) + valsize
  IN [entries |-> m.entries \cup {[key |-> key, seq |-> seq, type |-> type, val |-> value]},
      memoryusage |-> m.memoryusage + encodedlen]

(***************************************************************************)
(* MemTable::Get(LookupKey(k, s)): seek to the lookup key; if the entry   *)
(* found has the same user key, its type decides.  Sequence numbers are   *)
(* not checked: the seek skipped every entry newer than s.                 *)
(***************************************************************************)
Get(m, k, s) ==
  LET hit == SeekFirst(m.entries, LookupKey(k, s))
  IN IF \E e \in hit : e.key = k
     THEN LET e == CHOOSE e \in hit : TRUE
          IN IF e.type = kTypeValue THEN e.val ELSE Deleted
     ELSE Miss
=============================================================================
