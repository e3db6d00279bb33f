------------------------------ MODULE Crc32c -------------------------------
(***************************************************************************)
(* crc32c.h: Mask and Unmask, the transformation of a crc32c checksum     *)
(* before it is stored in a WAL record header (LogWriter) and after it is *)
(* read back (logreader.cc: Unmask(DecodeFixed32(header)) compared with   *)
(* the checksum of type and payload).  Checksums are uint32_t words.      *)
(* Extend and Value, the checksum itself, are only declared in the header *)
(* and are not modelled.                                                   *)
(***************************************************************************)
EXTENDS Words

\* kMaskDelta = 0xa282ead8ul.
kMaskDelta == Concat(ToWord(41602, 16), ToWord(60120, 16))

\* Mask: rotate right by 15 bits and add kMaskDelta, wrapping at 2^32.
Mask(crc) == Plus(BitOr(ShiftRight(crc, 15), ShiftLeft(crc, 17)), kMaskDelta)

\* Seeded fault: Unmask rotates by the amounts of Mask instead of back.
UnmaskSameRotation(maskedcrc) ==
  LET rot == Minus(maskedcrc, kMaskDelta)
  IN BitOr(ShiftRight(rot, 15), ShiftLeft(rot, 17))

\* Unmask: subtract kMaskDelta, wrapping, and rotate right by 17 bits.
Unmask(maskedcrc) ==
  LET rot == Minus(maskedcrc, kMaskDelta)
  IN BitOr(ShiftRight(rot, 17), ShiftLeft(rot, 15))

-----------------------------------------------------------------------------
(***************************************************************************)
(* The checksums the round trip is checked on: every word made of two     *)
(* 16-bit halves at the edges (0, 1, the bits around the rotation points, *)
(* all ones, the halves of kMaskDelta and of 2^32 - kMaskDelta), and the  *)
(* checksums whose rotation plus kMaskDelta is exactly 2^32 (Mask gives   *)
(* 0), one less and one more.                                              *)
(***************************************************************************)
Halves == {0, 1, 16384, 32767, 32768, 65535, 41602, 60120, 23933, 5416}

RotateLeft15(x) == BitOr(ShiftLeft(x, 15), ShiftRight(x, 17))

WrapRotations ==
  LET r == Minus(ToWord(0, 32), kMaskDelta)
  IN {r, Minus(r, ToWord(1, 32)), Plus(r, ToWord(1, 32))}

CrcEdges ==
  {Concat(ToWord(h, 16), ToWord(l, 16)) : h, l \in Halves}
    \cup {RotateLeft15(r) : r \in WrapRotations}

\* Unmask(Mask(crc)), which logreader.cc compares with the checksum of the
\* record read back.
MaskRoundTripFor(crc) == Unmask(Mask(crc)) = crc
=============================================================================
