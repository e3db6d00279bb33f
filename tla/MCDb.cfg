\* Write path, flush, compaction and snapshot calls of the DB engine.
CONSTANTS
  Keys <- MCKeys
  Values <- MCValues
  c1 = c1
  c2 = c2
  Clients <- MCClients
  KeySize = 1
  ValueSize = 1
  WriteBufferSize = 11
  L0CompactionTrigger = 2
  MaxSequence = 4
  MaxCrashes = 1
  MaxSnapshots = 1

SPECIFICATION Spec
SYMMETRY ClientSymmetry
INVARIANTS
  TypeOK
  ReadAtLastSequence
  NewerProbedFirst
  SyncedWritesSurvive
PROPERTY
  WokenWritersWritten
\* The bound on sequence numbers ends every behaviour.
CHECK_DEADLOCK FALSE
