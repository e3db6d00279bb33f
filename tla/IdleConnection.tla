--------------------------- MODULE IdleConnection ---------------------------
(***************************************************************************)
(* EchoServer (idleconnection/idelconnection.cc): every connection is on  *)
(* connectionList, least recently active first; onMessage echoes and moves *)
(* the connection to the back; a one-second repeating timer walks the     *)
(* list from the front, shuts down connections idle longer than           *)
(* idleSeconds and stops at the first one that is not.  All callbacks run *)
(* on the one EventLoop thread, so each is one step; what varies is the   *)
(* order in which connections open, send, close and the timer fires, and *)
(* the wall clock (xTimeStamp::now), which may step backward.              *)
(*                                                                         *)
(* A connection goes "new" -> "connected" -> "closing" (after the timer's *)
(* shutdown) -> "closed".  A connection on the list is alive (the list is *)
(* erased in the disconnect callback, before the TcpConnection dies), so  *)
(* the weak_ptr lock in onTimer always succeeds and its "expired" branch  *)
(* is not modelled.                                                        *)
(***************************************************************************)
EXTENDS Integers, Sequences, SequencesExt

CONSTANTS
  Conns,       \* TcpConnection objects
  IdleArg,     \* argv[3], the idle timeout in seconds
  MaxTime,     \* the last clock reading (seconds)
  BackStep     \* how far the wall clock may step backward (0: monotonic)

VARIABLES
  now,         \* xTimeStamp::now(), whole seconds
  st,          \* each connection's state
  list,        \* connectionList, front first
  last         \* each connection's Node::lastReceiveTime

vars == <<now, st, list, last>>

\* static_cast<int8_t>(atoi(argv[3])): the argument wraps to 8 bits.
Int8(n) == ((n + 128) % 256) - 128

idleSeconds == Int8(IdleArg)

Init ==
  /\ now = 0
  /\ st = [c \in Conns |-> "new"]
  /\ list = <<>>
  /\ last = [c \in Conns |-> 0]

\* onConnection, connected: stamp the node and push it at the back.
Connect(c) ==
  /\ st[c] = "new"
  /\ st' = [st EXCEPT ![c] = "connected"]
  /\ last' = [last EXCEPT ![c] = now]
  /\ list' = Append(list, c)
  /\ UNCHANGED now

(***************************************************************************)
(* onMessage: echo, restamp the node and splice it to the back.  Data     *)
(* still arrives on a connection the timer has shut down for writing.     *)
(***************************************************************************)
\* Seeded fault: the node is restamped but left where it is.
MessageNoSplice(c) ==
  /\ st[c] \in {"connected", "closing"}
  /\ last' = [last EXCEPT ![c] = now]
  /\ UNCHANGED <<now, st, list>>

Message(c) ==
  /\ st[c] \in {"connected", "closing"}
  /\ last' = [last EXCEPT ![c] = now]
  /\ list' = Append(Remove(list, c), c)
  /\ UNCHANGED <<now, st>>

(***************************************************************************)
(* onConnection, disconnected: the peer closed, or forceCloseWithDelay    *)
(* closed a connection the timer shut down; the node is erased.           *)
(***************************************************************************)
\* Seeded fault: the disconnect callback does not erase the node.
DisconnectKeeps(c) ==
  /\ st[c] \in {"connected", "closing"}
  /\ st' = [st EXCEPT ![c] = "closed"]
  /\ UNCHANGED <<now, list, last>>

Disconnect(c) ==
  /\ st[c] \in {"connected", "closing"}
  /\ st' = [st EXCEPT ![c] = "closed"]
  /\ list' = Remove(list, c)
  /\ UNCHANGED <<now, last>>

(***************************************************************************)
(* The loop of onTimer over the list l: a node older than idleSeconds is  *)
(* shut down if still connected; a node stamped in the future is          *)
(* restamped to now; the first other node ends the walk.  Returns the    *)
(* connections shut down and restamped.                                   *)
(***************************************************************************)
\* age > idleSeconds: the int8_t is promoted and compared with the double.
IsIdle(age) == age > idleSeconds

RECURSIVE Walk(_, _)
Walk(l, acc) ==
  IF l = <<>> THEN acc
  ELSE LET c == Head(l)
           age == now - last[c]
       IN IF IsIdle(age)
          THEN Walk(Tail(l), [acc EXCEPT !.shut = IF st[c] = "connected" THEN @ \cup {c} ELSE @])
          ELSE IF age < 0
          THEN Walk(Tail(l), [acc EXCEPT !.reset = @ \cup {c}])
          ELSE acc

\* onTimer: shutdown() the idle connections (forceCloseWithDelay is the
\* later Disconnect) and restamp the future ones.
Tick ==
  LET w == Walk(list, [shut |-> {}, reset |-> {}])
  IN /\ st' = [c \in Conns |-> IF c \in w.shut THEN "closing" ELSE st[c]]
     /\ last' = [c \in Conns |-> IF c \in w.reset THEN now ELSE last[c]]
     /\ UNCHANGED <<now, list>>

\* The wall clock advances a second, or steps back by up to BackStep.
Clock ==
  \E t \in (now - BackStep)..(now + 1) :
    /\ t \in 0..MaxTime
    /\ t # now
    /\ now' = t
    /\ UNCHANGED <<st, list, last>>

Next ==
  \/ \E c \in Conns : Connect(c) \/ Message(c) \/ Disconnect(c)
  \/ Tick
  \/ Clock

(***************************************************************************)
(* Fairness the code provides.  onTimer is a repeating one-second timer    *)
(* (runAfter with repeat), so a tick that would change something comes.  *)
(* A connection the timer shut down gets forceCloseWithDelay(3.5), so     *)
(* it is closed even if the peer never answers the shutdown.  Connects,  *)
(* messages and the peer's own closes are the clients' choice: no        *)
(* fairness.                                                               *)
(***************************************************************************)
TimerFires == WF_vars(Tick)

\* Seeded fault: the timer only shuts down, without the delayed force close.
NoForcedClose == TRUE

ForcedClose == \A c \in Conns : WF_vars(st[c] = "closing" /\ Disconnect(c))

Spec == Init /\ [][Next]_vars /\ TimerFires /\ ForcedClose

-----------------------------------------------------------------------------
TypeOK ==
  /\ now \in 0..MaxTime
  /\ st \in [Conns -> {"new", "connected", "closing", "closed"}]
  /\ list \in Seq(Conns)
  /\ last \in [Conns -> 0..MaxTime]

(***************************************************************************)
(* connectionList holds each open connection exactly once and nothing     *)
(* else, over any order of connects, messages, timer shutdowns and        *)
(* closes (onConnection's push_back and erase, onMessage's splice).       *)
(***************************************************************************)
ListIsLive ==
  /\ IsInjective(list)
  /\ ToSet(list) = {c \in Conns : st[c] \in {"connected", "closing"}}

(***************************************************************************)
(* onTimer's walk stops at the first active connection, so it relies on   *)
(* the list being ordered by lastReceiveTime: after a tick, no connection *)
(* that is still connected has been idle longer than idleSeconds.         *)
(***************************************************************************)
TickShutsAllIdle ==
  [][Tick => \A c \in ToSet(list) :
               st'[c] = "connected" => now - last[c] <= idleSeconds]_vars

(***************************************************************************)
(* The timer only shuts down a connection that has received nothing for   *)
(* longer than the idle timeout given on the command line.                *)
(***************************************************************************)
ShutOnlyIdle ==
  [][\A c \in Conns :
       st[c] = "connected" /\ st'[c] = "closing" => now - last[c] > IdleArg]_vars

(***************************************************************************)
(* The server's purpose: a connection that stays connected and idle past  *)
(* the timeout is eventually closed, unless it becomes active again while *)
(* still connected.  It needs the timer to fire, its walk to reach every  *)
(* idle connection, and the forced close after the shutdown.              *)
(***************************************************************************)
IdleConnectionClosed ==
  \A c \in Conns :
    (st[c] = "connected" /\ now - last[c] > idleSeconds)
      ~> (st[c] = "closed" \/ (st[c] = "connected" /\ now - last[c] <= idleSeconds))
=============================================================================
