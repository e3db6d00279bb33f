----------------------------- MODULE LogWriter -----------------------------
(***************************************************************************)
(* LogWriter (logwriter.h): appends logical records to a log file,        *)
(* fragmenting each one into physical records that fit the current block. *)
(* The body of AddRecord (logwriter.cc) is not part of the repository's  *)
(* sources; it is modelled from the specification (section 4.4).          *)
(***************************************************************************)
EXTENDS LogFormat

VARIABLES
  file,         \* Seq(Chunk): the physical records appended so far
  written,      \* bytes appended to the file, padding included
  blockoffset   \* LogWriter::blockoffset, current offset in the block

writerVars == <<file, written, blockoffset>>

WriterInit ==
  /\ file = <<>>
  /\ written = 0
  /\ blockoffset = 0

\* Seeded fault: block_offset_ is not reset after padding a block tail;
\* the size_t avail then wraps and the whole rest is emitted as one fragment.
RECURSIVE FragmentNoPadReset(_, _, _, _, _, _)
FragmentNoPadReset(left, begin, w, bo, rid, part) ==
  LET leftover == BlockSize - bo
      w1  == IF leftover < kHeaderSize THEN w + leftover ELSE w
      avail == BlockSize - bo - kHeaderSize
      n   == IF avail < 0 THEN left ELSE MinOf(left, avail)
      end == (n = left)
      type == IF begin THEN (IF end THEN "Full" ELSE "First")
                       ELSE (IF end THEN "Last" ELSE "Middle")
      c    == [off |-> w1, type |-> type, len |-> n, rid |-> rid, part |-> part]
      here == [chunks |-> <<c>>, w |-> w1 + kHeaderSize + n,
               bo |-> bo + kHeaderSize + n]
      rest == FragmentNoPadReset(left - n, FALSE, here.w, here.bo, rid, part + 1)
  IN IF end THEN here
     ELSE [rest EXCEPT !.chunks = <<c>> \o @]

(***************************************************************************)
(* The do/while loop of AddRecord: pad a block tail shorter than a header, *)
(* emit the largest fragment that fits, repeat while payload is left.  An  *)
(* empty record still emits one Full record.  Returns the chunks emitted   *)
(* and the final file length and block offset.                             *)
(***************************************************************************)
RECURSIVE Fragment(_, _, _, _, _, _)
Fragment(left, begin, w, bo, rid, part) ==
  LET leftover == BlockSize - bo
      w1  == IF leftover < kHeaderSize THEN w + leftover ELSE w
      bo1 == IF leftover < kHeaderSize THEN 0 ELSE bo
      n   == MinOf(left, BlockSize - bo1 - kHeaderSize)
      end == (n = left)
      type == IF begin THEN (IF end THEN "Full" ELSE "First")
                       ELSE (IF end THEN "Last" ELSE "Middle")
      c    == [off |-> w1, type |-> type, len |-> n, rid |-> rid, part |-> part]
      here == [chunks |-> <<c>>, w |-> w1 + kHeaderSize + n,
               bo |-> bo1 + kHeaderSize + n]
      rest == Fragment(left - n, FALSE, here.w, here.bo, rid, part + 1)
  IN IF end THEN here
     ELSE [rest EXCEPT !.chunks = <<c>> \o @]

\* LogWriter::AddRecord of a record of len payload bytes.
AddRecord(len) ==
  LET r == Fragment(len, TRUE, written, blockoffset, Cardinality(RidsOf(file)) + 1, 1)
  IN /\ file' = file \o r.chunks
     /\ written' = r.w
     /\ blockoffset' = r.bo
=============================================================================
