\* EchoServer started with an idle timeout of 130 seconds (argv[3]).
CONSTANTS
  c1 = c1
  c2 = c2
  c3 = c3
  Conns <- MCConns
  IdleArg = 130
  MaxTime = 4
  BackStep = 0

SPECIFICATION Spec
SYMMETRY ConnSymmetry
PROPERTY ShutOnlyIdle
