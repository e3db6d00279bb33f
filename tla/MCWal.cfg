CONSTANTS
  BlockSize <- MCBlockSize
  RecLens <- MCRecLens
  MaxRecords = 3
  InitialOffsets <- MCInitialOffsets
SPECIFICATION Spec
INVARIANT TypeOK
INVARIANT LastRecordOffsetExact
INVARIANT DamageConfined
INVARIANT TornTailSilent
PROPERTY WalRefinesLog
\* Replay ends when ReadRecord returns false: the final state has no successor.
CHECK_DEADLOCK FALSE
