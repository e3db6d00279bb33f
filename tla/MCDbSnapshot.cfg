\* A snapshot taken by GetSnapshot must keep reading the same values.
CONSTANTS
  Keys <- MCKeys
  Values <- MCValues
  c1 = c1
  c2 = c2
  Clients <- MCClient
  KeySize = 1
  ValueSize = 1
  WriteBufferSize = 12
  L0CompactionTrigger = 2
  MaxSequence = 5
  MaxCrashes = 1
  MaxSnapshots = 1

SPECIFICATION Spec
INVARIANT SnapshotReadStable
\* The bound on sequence numbers ends every behaviour.
CHECK_DEADLOCK FALSE
