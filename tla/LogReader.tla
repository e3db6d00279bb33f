----------------------------- MODULE LogReader -----------------------------
(***************************************************************************)
(* LogReader (logreader.cc): reads logical records back from a log file,  *)
(* one block at a time, validating each physical record and reassembling *)
(* fragments.  The file being read is a parameter: its chunks, the number *)
(* of bytes that reached the disk, the damage it suffered, and the        *)
(* initial offset the reader was constructed with.                         *)
(*                                                                         *)
(* The reader's member state is a record                                   *)
(*   fpos    position of the underlying SequentialFile                     *)
(*   eob     endofbufferoffset                                             *)
(*   bsize   buffer.size(): the unread bytes of the buffer are             *)
(*           [eob - bsize, eob)                                            *)
(*   eof, last (lastrecordoffset), resync (resyncing)                      *)
(* The reporter is abstracted to the number of drops it is told about.    *)
(***************************************************************************)
EXTENDS LogFormat

CONSTANTS
  File,           \* Seq(Chunk): the physical records written
  FileLength,     \* bytes of the file present when it is read
  Damage,         \* [kind |-> "none"|"crc"|"len"|"io", at |-> chunk or block]
  InitialOffset   \* LogReader::initialoffset

ReaderState == [fpos : Nat, eob : Nat, bsize : Nat, eof : BOOLEAN,
                last : Nat, resync : BOOLEAN]

\* LogReader::LogReader
NewReader == [fpos |-> 0, eob |-> 0, bsize |-> 0, eof |-> FALSE,
              last |-> 0, resync |-> InitialOffset > 0]

NoFrag == [off |-> 0, type |-> "Full", len |-> 0, rid |-> 0, part |-> 0]

\* The chunk whose header starts at byte p (the header parsed at buffer.data()).
ChunkIndexAt(p) == CHOOSE i \in DOMAIN File : File[i].off = p

(***************************************************************************)
(* LogReader::ReportDrop: the reporter is told only about bytes at or     *)
(* after the initial offset.  The test is on uint64_t: a negative         *)
(* difference wraps to a value above any offset.                           *)
(***************************************************************************)
ReportDrop(st, bytes) ==
  LET d == st.eob - st.bsize - bytes
  IN IF d < 0 \/ d >= InitialOffset THEN 1 ELSE 0

\* Seeded fault: a block tail that can still hold a header is skipped.
SkipToInitialBlockOffByOne(st) ==
  LET offsetInblock == InitialOffset % BlockSize
      start0 == InitialOffset - offsetInblock
      start  == IF offsetInblock >= BlockSize - 7 THEN start0 + BlockSize ELSE start0
  IN [st EXCEPT !.eob = start,
                !.fpos = IF start > 0 THEN @ + start ELSE @]

\* LogReader::SkipToInitialBlock: file->Skip is relative to the position.
SkipToInitialBlock(st) ==
  LET offsetInblock == InitialOffset % BlockSize
      start0 == InitialOffset - offsetInblock
      start  == IF offsetInblock > BlockSize - 6 THEN start0 + BlockSize ELSE start0
  IN [st EXCEPT !.eob = start,
                !.fpos = IF start > 0 THEN @ + start ELSE @]

\* A read of the block at the file position fails (io damage).
ReadFails(st) == Damage.kind = "io" /\ BlockOf(st.fpos) = Damage.at

(***************************************************************************)
(* LogReader::ReadPhysicalRecord.  Returns the new reader state, the type  *)
(* read (or Eof / Bad), the fragment, and the number of drops reported.   *)
(***************************************************************************)
RECURSIVE ReadPhysicalRecord(_)
ReadPhysicalRecord(st) ==
  IF st.bsize < kHeaderSize
  THEN IF ~st.eof
       THEN IF ReadFails(st)
            THEN LET st1 == [st EXCEPT !.bsize = 0, !.eof = TRUE]
                 IN [st |-> st1, type |-> "Eof", frag |-> NoFrag,
                     drops |-> ReportDrop(st1, BlockSize)]
            ELSE LET n == MinOf(BlockSize, IF FileLength > st.fpos
                                           THEN FileLength - st.fpos ELSE 0)
                 IN ReadPhysicalRecord([st EXCEPT !.bsize = n, !.eob = @ + n,
                                          !.fpos = @ + n, !.eof = n < BlockSize])
       ELSE [st |-> [st EXCEPT !.bsize = 0], type |-> "Eof", frag |-> NoFrag,
             drops |-> 0]
  ELSE
    LET p   == st.eob - st.bsize
        i   == ChunkIndexAt(p)
        c   == File[i]
        len == IF Damage.kind = "len" /\ Damage.at = i THEN CorruptLength ELSE c.len
        dropped == [st EXCEPT !.bsize = 0]
        rest    == [st EXCEPT !.bsize = @ - kHeaderSize - len]
    IN
    IF kHeaderSize + len > st.bsize
    THEN IF ~st.eof
         THEN [st |-> dropped, type |-> "Bad", frag |-> NoFrag,
               drops |-> ReportDrop(dropped, st.bsize)]
         ELSE [st |-> dropped, type |-> "Eof", frag |-> NoFrag, drops |-> 0]
    ELSE IF Damage.kind = "crc" /\ Damage.at = i
    THEN [st |-> dropped, type |-> "Bad", frag |-> NoFrag,
          drops |-> ReportDrop(dropped, st.bsize)]
    ELSE IF rest.eob - rest.bsize - kHeaderSize - len < InitialOffset
    THEN [st |-> rest, type |-> "Bad", frag |-> NoFrag, drops |-> 0]
    ELSE [st |-> rest, type |-> c.type, frag |-> c, drops |-> 0]

\* Payload bytes held in scratch.
ScratchBytes(scratch) ==
  LET RECURSIVE S(_)
      S(s) == IF s = <<>> THEN 0 ELSE Head(s).len + S(Tail(s))
  IN S(scratch)

(***************************************************************************)
(* The locals of LogReader::ReadRecord's loop: infragmentedrecord, scratch *)
(* and prospectiverecordoffset, with the reader state, the drops reported  *)
(* so far, and whether the loop has returned (done) and with what (ok).   *)
(* When a record is returned, scratch holds its fragments.                 *)
(***************************************************************************)
LoopStart(st) == [st |-> st, infrag |-> FALSE, scratch |-> <<>>, prosp |-> 0,
                  drops |-> 0, done |-> FALSE, ok |-> FALSE]

\* ReportCorruption(scratch->size(), "partial record without end")
Partial(l, s2) ==
  IF l.infrag /\ ScratchBytes(l.scratch) > 0 THEN ReportDrop(s2, ScratchBytes(l.scratch)) ELSE 0

\* The cases of the switch on the record type.  r is the result of
\* ReadPhysicalRecord, s2 the reader state after it, phys the
\* physicalrecordoffset computed from it.
OnFull(l, r, s2, phys) ==
  [l EXCEPT !.st = [s2 EXCEPT !.last = phys], !.scratch = <<r.frag>>,
            !.drops = @ + Partial(l, s2), !.done = TRUE, !.ok = TRUE]

OnFirst(l, r, s2, phys) ==
  [l EXCEPT !.st = s2, !.infrag = TRUE, !.scratch = <<r.frag>>, !.prosp = phys,
            !.drops = @ + Partial(l, s2)]

OnMiddle(l, r, s2, phys) ==
  IF ~l.infrag
  THEN [l EXCEPT !.st = s2, !.drops = @ + ReportDrop(s2, r.frag.len)]
  ELSE [l EXCEPT !.st = s2, !.scratch = Append(@, r.frag)]

\* Seeded fault: the record's offset taken from its last fragment.
OnLastAtFragment(l, r, s2, phys) ==
  IF ~l.infrag
  THEN [l EXCEPT !.st = s2, !.drops = @ + ReportDrop(s2, r.frag.len)]
  ELSE [l EXCEPT !.st = [s2 EXCEPT !.last = phys], !.scratch = Append(@, r.frag),
                 !.done = TRUE, !.ok = TRUE]

OnLast(l, r, s2, phys) ==
  IF ~l.infrag
  THEN [l EXCEPT !.st = s2, !.drops = @ + ReportDrop(s2, r.frag.len)]
  ELSE [l EXCEPT !.st = [s2 EXCEPT !.last = l.prosp], !.scratch = Append(@, r.frag),
                 !.done = TRUE, !.ok = TRUE]

\* Seeded fault: a torn fragmented record reported as corruption.
OnEofReports(l, r, s2, phys) ==
  [l EXCEPT !.st = s2, !.scratch = <<>>, !.done = TRUE, !.ok = FALSE,
            !.drops = @ + (IF l.infrag THEN ReportDrop(s2, ScratchBytes(l.scratch)) ELSE 0)]

OnEof(l, r, s2, phys) ==
  [l EXCEPT !.st = s2, !.scratch = <<>>, !.done = TRUE, !.ok = FALSE]

\* Seeded fault: a bad record in the middle of a record keeps the fragments.
OnBadKeepsScratch(l, r, s2, phys) ==
  IF l.infrag
  THEN [l EXCEPT !.st = s2, !.drops = @ + ReportDrop(s2, ScratchBytes(l.scratch))]
  ELSE [l EXCEPT !.st = s2]

OnBad(l, r, s2, phys) ==
  IF l.infrag
  THEN [l EXCEPT !.st = s2, !.infrag = FALSE, !.scratch = <<>>,
                 !.drops = @ + ReportDrop(s2, ScratchBytes(l.scratch))]
  ELSE [l EXCEPT !.st = s2]

(***************************************************************************)
(* The while loop of LogReader::ReadRecord: read a physical record, let   *)
(* resyncing swallow Middle and Last fragments, dispatch on the type.      *)
(***************************************************************************)
RECURSIVE ReadLoop(_)
ReadLoop(l) ==
  LET r    == ReadPhysicalRecord(l.st)
      s1   == r.st
      phys == s1.eob - s1.bsize - kHeaderSize - r.frag.len
      s2   == [s1 EXCEPT !.resync = FALSE]
      l1   == [l EXCEPT !.drops = @ + r.drops]
      n    == IF s1.resync /\ r.type = "Middle" THEN [l1 EXCEPT !.st = s1]
              ELSE IF s1.resync /\ r.type = "Last" THEN [l1 EXCEPT !.st = s2]
              ELSE CASE r.type = "Full"   -> OnFull(l1, r, s2, phys)
                     [] r.type = "First"  -> OnFirst(l1, r, s2, phys)
                     [] r.type = "Middle" -> OnMiddle(l1, r, s2, phys)
                     [] r.type = "Last"   -> OnLast(l1, r, s2, phys)
                     [] r.type = "Eof"    -> OnEof(l1, r, s2, phys)
                     [] r.type = "Bad"    -> OnBad(l1, r, s2, phys)
  IN IF n.done THEN n ELSE ReadLoop(n)

\* LogReader::ReadRecord: skip to the initial block while no record at or
\* after the initial offset has been returned, then run the loop.
ReadRecord(st) ==
  ReadLoop(LoopStart(IF st.last < InitialOffset THEN SkipToInitialBlock(st) ELSE st))
=============================================================================
