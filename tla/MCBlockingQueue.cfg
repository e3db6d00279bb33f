\* blockqueue.h: producers and consumers on the mutex and notEmpty.
CONSTANTS
  p1 = p1
  p2 = p2
  c1 = c1
  c2 = c2
  Producers <- MCProducers
  Consumers <- MCConsumers
  PutsEach = 2

SPECIFICATION Spec
INVARIANT TakenThenQueuedIsPut
PROPERTY EveryPutTaken
