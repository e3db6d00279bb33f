\* parseRequest over every split of three request streams into reads.
CONSTANTS
  Methods <- MCMethods
  ColonWords <- MCColonWords
  PathSplit <- MCPathSplit
  Streams <- MCStreams
  MaxFragment = 3

SPECIFICATION Spec
INVARIANTS
  ChunkingIndependent
CHECK_DEADLOCK FALSE
