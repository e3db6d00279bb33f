\* parseResponse over every split of two back-to-back responses into reads.
CONSTANTS
  Methods <- MCMethods
  ColonWords <- MCColonWords
  PathSplit <- MCPathSplit
  Streams <- MCStreams
  MaxFragment = 3

SPECIFICATION Spec
INVARIANT ArrivedResponsesParsed
CHECK_DEADLOCK FALSE
