\* EchoServer with a monotonic clock and idleSeconds = 1.
CONSTANTS
  c1 = c1
  c2 = c2
  c3 = c3
  Conns <- MCConns
  IdleArg = 1
  MaxTime = 4
  BackStep = 0

SPECIFICATION Spec
INVARIANT ListIsLive
PROPERTY TickShutsAllIdle
PROPERTY IdleConnectionClosed
