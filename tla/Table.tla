------------------------------- MODULE Table -------------------------------
(***************************************************************************)
(* Building a table file and probing it (spec 4.6; tablebuilder.h and     *)
(* table.h declare TableBuilder and Table, their bodies are not among the *)
(* sources).  TableBuilder::Add appends a key to the current data block;  *)
(* a block is flushed when it is full or on flush(), and the index entry *)
(* of a flushed block is written only when the next key arrives, as the   *)
(* shortest separator between the block's last key and that key, or by   *)
(* Finish as the short successor of the last key.  Table::InternalGet     *)
(* seeks the index to the first separator not below the target, and      *)
(* seeks that one data block.  Values and the byte layout of blocks,      *)
(* handles and footer are left out: a data block is its sequence of      *)
(* keys and a handle is the block's position in the file.                 *)
(***************************************************************************)
EXTENDS Comparator

CONSTANTS
  TableKeys,     \* the internal keys a table is built from
  MaxEntries,    \* the most keys one builder is given
  BlockEntries   \* a data block's size limit (options.block_size), in keys

ASSUME TableKeys \subseteq InternalKeys /\ MaxEntries \in Nat /\ BlockEntries >= 1

\* The keys a caller may Add, in order: REQUIRES key is after any
\* previously added key.
SortedInputs ==
  {s \in UNION {[1..n -> TableKeys] : n \in 0..MaxEntries} :
     \A i \in 1..Len(s) - 1 : InternalKeyLess(s[i], s[i + 1])}

VARIABLES
  input,       \* the keys the caller adds, in order
  added,       \* number of calls to Add so far (pendinghandle())
  dataBlock,   \* the keys of the data block being built
  blocks,      \* the data blocks written to the file, in order
  index,       \* the index block: <<separator, block number>> entries
  pendingIndexEntry,
  lastKey,     \* the last key added, shortened once its block's entry is written
  closed       \* "building", "finished" or "abandoned"

tableVars == <<input, added, dataBlock, blocks, index, pendingIndexEntry, lastKey, closed>>

NoKey == [user |-> <<>>, tag |-> 0]

\* The TableBuilder constructor: an empty builder over an empty file.
NewBuilder ==
  /\ added = 0
  /\ dataBlock = <<>>
  /\ blocks = <<>>
  /\ index = <<>>
  /\ pendingIndexEntry = FALSE
  /\ lastKey = NoKey
  /\ closed = "building"

TableInit == input \in SortedInputs /\ NewBuilder

\* Flush's effect: an empty block is not written; otherwise it is, and its
\* index entry becomes pending.
FlushBlock(block, bs, pend) ==
  IF block = <<>> THEN [block |-> block, blocks |-> bs, pending |-> pend]
  ELSE [block |-> <<>>, blocks |-> Append(bs, block), pending |-> TRUE]

(***************************************************************************)
(* Add(key): REQUIRES Finish, Abandon not called.  The pending index      *)
(* entry of the previous block is written with FindShortestSeparator of  *)
(* the last key and this one; the key goes into the data block, which is *)
(* flushed if it has reached the block size.                              *)
(***************************************************************************)
Add ==
  /\ closed = "building"
  /\ added < Len(input)
  /\ LET key == input[added + 1]
         sep == InternalFindShortestSeparator(lastKey, key)
         f   == FlushBlock(Append(dataBlock, key), blocks, FALSE)
     IN /\ index' = IF pendingIndexEntry THEN Append(index, <<sep, Len(blocks)>>)
                                         ELSE index
        /\ lastKey' = key
        /\ added' = added + 1
        /\ IF Len(dataBlock) + 1 >= BlockEntries
             THEN /\ dataBlock' = f.block
                  /\ blocks' = f.blocks
                  /\ pendingIndexEntry' = f.pending
             ELSE /\ dataBlock' = Append(dataBlock, key)
                  /\ UNCHANGED blocks
                  /\ pendingIndexEntry' = FALSE
  /\ UNCHANGED <<input, closed>>

\* flush(): ensure the keys added so far and later ones are in different blocks.
Flush ==
  /\ closed = "building"
  /\ LET f == FlushBlock(dataBlock, blocks, pendingIndexEntry)
     IN /\ dataBlock' = f.block
        /\ blocks' = f.blocks
        /\ pendingIndexEntry' = f.pending
  /\ UNCHANGED <<input, added, index, lastKey, closed>>

\* Seeded fault: Finish does not write the index entry of the last block.
FinishDropsLastIndexEntry ==
  /\ closed = "building"
  /\ LET f == FlushBlock(dataBlock, blocks, pendingIndexEntry)
     IN /\ blocks' = f.blocks
        /\ dataBlock' = f.block
        /\ pendingIndexEntry' = FALSE
        /\ UNCHANGED <<index, lastKey>>
  /\ closed' = "finished"
  /\ UNCHANGED <<input, added>>

(***************************************************************************)
(* Finish: flush the data block, then write the pending index entry with  *)
(* FindShortSuccessor of the last key.                                    *)
(***************************************************************************)
Finish ==
  /\ closed = "building"
  /\ LET f == FlushBlock(dataBlock, blocks, pendingIndexEntry)
         succ == InternalFindShortSuccessor(lastKey)
     IN /\ blocks' = f.blocks
        /\ dataBlock' = f.block
        /\ pendingIndexEntry' = FALSE
        /\ IF f.pending
             THEN index' = Append(index, <<succ, Len(f.blocks)>>) /\ lastKey' = succ
             ELSE UNCHANGED <<index, lastKey>>
  /\ closed' = "finished"
  /\ UNCHANGED <<input, added>>

\* Abandon: the builder stops using the file; nothing more is written.
Abandon ==
  /\ closed = "building"
  /\ closed' = "abandoned"
  /\ UNCHANGED <<input, added, dataBlock, blocks, index, pendingIndexEntry, lastKey>>

TableNext == Add \/ Flush \/ Finish \/ Abandon

-----------------------------------------------------------------------------
\* The first key of a sorted sequence that is not below target, as a set of
\* at most one key (Iterator::Seek).
SeekSeq(s, target) ==
  LET ge == {i \in 1..Len(s) : ~InternalKeyLess(s[i], target)}
  IN IF ge = {} THEN {} ELSE {s[Min(ge)]}

(***************************************************************************)
(* Table::InternalGet(key): seek the index to the first separator not     *)
(* below key; if there is one, seek its data block and report the key     *)
(* found there, if any.  The next block is not looked at.                 *)
(***************************************************************************)
InternalGet(key) ==
  LET seps == {i \in 1..Len(index) : ~InternalKeyLess(index[i][1], key)}
  IN IF seps = {} THEN {}
     ELSE SeekSeq(blocks[index[Min(seps)][2]], key)

\* The keys of a set with the user key of target (TableCache::Get's callback
\* keeps an entry only if its user key is the one looked up).
SameUser(S, target) == {k \in S : k.user = target.user}

(***************************************************************************)
(* A finished table gives DB::Get what the keys added before Finish hold: *)
(* for every probe, InternalGet reports the first key not below it that   *)
(* has the probe's user key, exactly when the sorted keys have one.       *)
(* InternalGet looks only in the one block the index routes the probe to: *)
(* a probe between a block's last key and its separator finds nothing    *)
(* there and is not passed on to the next block, which is harmless only  *)
(* because a shortened separator's user key is below every user key of   *)
(* the next block.  It also needs Finish to write the last block's entry. *)
(***************************************************************************)
TableGetExact ==
  closed = "finished" =>
    \A t \in InternalKeys :
      SameUser(InternalGet(t), t) = SameUser(SeekSeq(SubSeq(input, 1, added), t), t)
=============================================================================
