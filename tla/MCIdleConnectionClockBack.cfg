\* EchoServer whose wall clock steps back by up to two seconds.
CONSTANTS
  c1 = c1
  c2 = c2
  c3 = c3
  Conns <- MCConns
  IdleArg = 1
  MaxTime = 4
  BackStep = 2

SPECIFICATION Spec
SYMMETRY ConnSymmetry
PROPERTY TickShutsAllIdle
