----------------------------- MODULE LogFormat -----------------------------
(***************************************************************************)
(* Physical layout of a write-ahead log file, shared by the writer        *)
(* (logwriter.h) and the reader (logreader.cc).                            *)
(*                                                                         *)
(* A log file is a sequence of blocks of BlockSize bytes.  Each physical   *)
(* record is a 7-byte header {crc, length, type} followed by length bytes *)
(* of payload and never crosses a block boundary; a block tail of fewer   *)
(* than 7 bytes is zero padding.  The payload bytes are abstracted: the   *)
(* file is the sequence of its physical records (chunks), each carrying   *)
(* its byte offset, type, payload length and the identity of the logical *)
(* record (rid) and fragment (part) it holds.  Padding is the gap between *)
(* a chunk's end and the next block start.                                 *)
(***************************************************************************)
EXTENDS Integers, Sequences, FiniteSets

CONSTANT BlockSize   \* kBlockSize (32768 in the code); small so that
                     \* fragmentation, padding and trailers all occur.
ASSUME BlockSize \in Nat /\ BlockSize > 7

kHeaderSize == 7     \* checksum (4) + length (2) + type (1)

\* Physical record types written to the file (kFullType .. kLastType).  The
\* reader adds "Eof" and "Bad" (kEof, kBadRecord).
RecordTypes == {"Full", "First", "Middle", "Last"}

Chunk == [off : Nat, type : RecordTypes, len : Nat, rid : Nat, part : Nat]

\* The block that holds byte offset o.
BlockOf(o) == o \div BlockSize

\* One past the last byte of chunk c.
ChunkEnd(c) == c.off + kHeaderSize + c.len

MinOf(a, b) == IF a < b THEN a ELSE b

\* Logical records of a file, and their extent.
RidsOf(f) == {f[i].rid : i \in DOMAIN f}
FragsOf(f, r) == SelectSeq(f, LAMBDA c : c.rid = r)
RecStart(f, r) == FragsOf(f, r)[1].off
RecEnd(f, r) == ChunkEnd(FragsOf(f, r)[Len(FragsOf(f, r))])

\* A length field larger than any block: what a corrupted length reads as
\* when it is not caught by the checksum first.
CorruptLength == 65535
=============================================================================
