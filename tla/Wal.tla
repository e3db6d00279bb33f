-------------------------------- MODULE Wal --------------------------------
(***************************************************************************)
(* The write-ahead log end to end: a LogWriter appends records, the       *)
(* process crashes leaving any prefix of the bytes on disk (and possibly  *)
(* one damaged record or an unreadable block), and on restart a LogReader *)
(* constructed at some initial offset reads the file back until           *)
(* ReadRecord returns false, as recovery's replay loop does.              *)
(***************************************************************************)
EXTENDS LogWriter

CONSTANTS
  RecLens,         \* payload lengths AddRecord is called with
  MaxRecords,      \* number of AddRecord calls before the crash (bound)
  InitialOffsets   \* initial offsets a reader may be constructed with

VARIABLES
  phase,     \* "write", "crashed", "read" or "done"
  flen,      \* bytes of the file that survived the crash
  damage,    \* damage the surviving bytes suffered
  initial,   \* initial offset of the reader
  rs,        \* the LogReader's member state
  out,       \* records ReadRecord returned: [rec, off] (off = GetLastRecordOffset)
  drops      \* drops reported to the LogReporter

vars == <<file, written, blockoffset, phase, flen, damage, initial, rs, out, drops>>

R == INSTANCE LogReader WITH File <- file, FileLength <- flen,
                             Damage <- damage, InitialOffset <- initial

NoDamage == [kind |-> "none", at |-> 0]

\* The damage a crash or the disk can leave on the first n bytes of the
\* file: a corrupted checksummed byte of a durable record, a corrupted
\* length field of a durable header, or a block whose read fails.
Damages(n) ==
  {NoDamage}
  \cup {[kind |-> "crc", at |-> i] : i \in {j \in DOMAIN file : ChunkEnd(file[j]) <= n}}
  \cup {[kind |-> "len", at |-> i] : i \in {j \in DOMAIN file : file[j].off + kHeaderSize <= n}}
  \cup {[kind |-> "io", at |-> b] : b \in {k \in 0..BlockOf(written) : k * BlockSize < n}}

Init ==
  /\ WriterInit
  /\ phase = "write"
  /\ flen = 0
  /\ damage = NoDamage
  /\ initial = 0
  /\ rs = R!NewReader
  /\ out = <<>>
  /\ drops = 0

\* A client appends one record (LogWriter::AddRecord).
Write(len) ==
  /\ phase = "write"
  /\ Cardinality(RidsOf(file)) < MaxRecords
  /\ AddRecord(len)
  /\ UNCHANGED <<phase, flen, damage, initial, rs, out, drops>>

\* The process dies: any prefix of the appended bytes is on disk.
Crash ==
  /\ phase = "write"
  /\ \E n \in 0..written : \E d \in Damages(n) :
       /\ flen' = n
       /\ damage' = d
  /\ phase' = "crashed"
  /\ UNCHANGED <<writerVars, initial, rs, out, drops>>

\* Recovery constructs a LogReader on the file.
OpenReader(off) ==
  /\ phase = "crashed"
  /\ initial' = off
  /\ rs' = [R!NewReader EXCEPT !.resync = off > 0]
  /\ phase' = "read"
  /\ UNCHANGED <<writerVars, flen, damage, out, drops>>

\* One call of LogReader::ReadRecord; returning false ends the replay.
ReadRecord ==
  /\ phase = "read"
  /\ LET r == R!ReadRecord(rs)
     IN /\ rs' = r.st
        /\ drops' = drops + r.drops
        /\ IF r.ok
           THEN /\ out' = Append(out, [rec |-> r.scratch, off |-> r.st.last])
                /\ UNCHANGED phase
           ELSE /\ phase' = "done"
                /\ UNCHANGED out
  /\ UNCHANGED <<writerVars, flen, damage, initial>>

Next ==
  \/ \E len \in RecLens : Write(len)
  \/ Crash
  \/ \E off \in InitialOffsets : OpenReader(off)
  \/ ReadRecord

Spec == Init /\ [][Next]_vars

-----------------------------------------------------------------------------
(* Helpers for the properties. *)

\* Record r survived the crash whole and lies at or after the initial offset.
Expected(r) == RecEnd(file, r) <= flen /\ RecStart(file, r) >= initial

\* The damaged block, if any.
DamagedBlock == IF damage.kind = "io" THEN damage.at
                ELSE IF damage.kind = "none" THEN -1
                ELSE BlockOf(file[damage.at].off)

\* No fragment of r lies in a block the damage can affect.
Untouched(r) ==
  LET fs == FragsOf(file, r)
  IN \/ damage.kind = "none"
     \/ damage.kind \in {"crc", "len"} /\ \A k \in DOMAIN fs : BlockOf(fs[k].off) # DamagedBlock
     \/ damage.kind = "io" /\ \A k \in DOMAIN fs : BlockOf(fs[k].off) < DamagedBlock

\* A returned record is exactly the fragments of one written record.
Intact(o) == o.rec # <<>> /\ o.rec = FragsOf(file, o.rec[1].rid)

Delivered(r) == \E i \in DOMAIN out : Intact(out[i]) /\ out[i].rec[1].rid = r

-----------------------------------------------------------------------------
TypeOK ==
  /\ file \in Seq(Chunk)
  /\ written \in Nat /\ blockoffset \in 0..BlockSize
  /\ phase \in {"write", "crashed", "read", "done"}
  /\ flen \in 0..written
  /\ initial \in Nat
  /\ rs \in R!ReaderState
  /\ drops \in Nat

(***************************************************************************)
(* After ReadRecord returns a record, GetLastRecordOffset() is the offset  *)
(* of the record's first fragment, not of the fragment that completed it   *)
(* (ReadRecord's prospectiverecordoffset).  Together with the refinement   *)
(* below, every record returned is one written record, whole.              *)
(***************************************************************************)
LastRecordOffsetExact ==
  \A i \in DOMAIN out : out[i].rec # <<>> => out[i].off = RecStart(file, out[i].rec[1].rid)

(***************************************************************************)
(* When replay ends, every record that reached the disk whole, starts at  *)
(* or after the initial offset and has no fragment in a damaged block has *)
(* been returned: a checksum or length error drops at most the rest of    *)
(* its block, a read error ends the replay, and a torn tail loses only    *)
(* the record being written (ReadPhysicalRecord, ReadRecord's kEof case). *)
(***************************************************************************)
DamageConfined ==
  phase = "done" =>
    \A r \in RidsOf(file) : Expected(r) /\ Untouched(r) => Delivered(r)

(***************************************************************************)
(* A log that is only torn at its tail, read from the start, reports no   *)
(* corruption: a truncated header or payload at end of file is EOF, and   *)
(* an unfinished fragmented record is dropped silently (ReadRecord kEof). *)
(***************************************************************************)
TornTailSilent ==
  damage = NoDamage /\ initial = 0 => drops = 0

(***************************************************************************)
(* The reader reports a drop only when the file is damaged.  The          *)
(* specification (4.4) says records that began before the initial offset  *)
(* are discarded and corruption is reported on checksum mismatch or a     *)
(* bad header.                                                             *)
(***************************************************************************)
NoSpuriousReport ==
  damage = NoDamage => drops = 0

-----------------------------------------------------------------------------
(***************************************************************************)
(* Refinement: the log as the abstract WalLog.  Records are numbered in   *)
(* the order they were appended; a record returned that is not intact     *)
(* maps to 0, which no abstract step can deliver.                          *)
(***************************************************************************)
Abs == INSTANCE WalLog WITH
         count     <- Cardinality(RidsOf(file)),
         crashed   <- phase # "write",
         durable   <- IF phase = "write" THEN 0
                      ELSE Cardinality({r \in RidsOf(file) : RecEnd(file, r) <= flen}),
         delivered <- [i \in DOMAIN out |->
                         IF Intact(out[i]) THEN out[i].rec[1].rid ELSE 0]

\* The reader returns a strictly increasing sequence of durable records.
WalRefinesLog == Abs!Spec
=============================================================================
