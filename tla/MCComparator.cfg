\* dbformat.cc key shortening against the reference orders, crc32c.h's
\* Mask/Unmask and the 64-bit internal-key tag on edge words.
CONSTANTS
  Bytes <- MCBytes
  MaxLen = 3
  MaxSequence = 1
  TableKeys <- MCTableKeys
  MaxEntries = 3
  BlockEntries = 2

SPECIFICATION MCSpec
INVARIANTS
  SeparatorInBounds
  InternalSeparatorInBounds
  SuccessorIsShortest
  MaskRoundTrip
  PackedTagOrder
  TableGetExact
