--------------------------- MODULE BlockingQueue ---------------------------
(***************************************************************************)
(* BlockingQueue (blockqueue.h): a deque guarded by a mutex, with one      *)
(* condition variable notEmpty.  Producer threads put; consumer threads    *)
(* take in a loop, waiting on notEmpty while the deque is empty.  The      *)
(* condition variable may wake a waiter spuriously; notify_one wakes one   *)
(* waiter, if any, which must then reacquire the mutex.                    *)
(*                                                                         *)
(* put holds the mutex for its whole body, so it is one step.  A consumer *)
(* is at one of these points of take():                                    *)
(*   "idle"    about to call take (or between two calls)                   *)
(*   "check"   holds the mutex at the while (queue.empty()) test           *)
(*   "waiting" inside notEmpty.wait, mutex released                        *)
(*   "woken"   notified or spuriously woken, reacquiring the mutex         *)
(***************************************************************************)
EXTENDS Integers, Sequences

CONSTANTS
  Producers,    \* producer threads
  Consumers,    \* consumer threads
  PutsEach      \* items each producer puts (bound)

None == "none"

VARIABLES
  queue,     \* the deque
  mutex,     \* the thread holding the mutex, or None
  pc,        \* each consumer's point in take()
  sent,      \* items each producer has put so far
  putlog,    \* history: every item put, in put order
  taken      \* history: every item taken, in take order

vars == <<queue, mutex, pc, sent, putlog, taken>>

\* An item is the producer that put it and its number.
Item == [p : Producers, n : 1..PutsEach]

Init ==
  /\ queue = <<>>
  /\ mutex = None
  /\ pc = [c \in Consumers |-> "idle"]
  /\ sent = [p \in Producers |-> 0]
  /\ putlog = <<>>
  /\ taken = <<>>

\* Seeded fault: put does not notify a waiting consumer.
NotifyNone == UNCHANGED pc

\* notEmpty.notify_one(): one waiting consumer, if there is one, wakes.
NotifyOne ==
  IF \E c \in Consumers : pc[c] = "waiting"
  THEN \E c \in Consumers : pc[c] = "waiting" /\ pc' = [pc EXCEPT ![c] = "woken"]
  ELSE UNCHANGED pc

\* put(x): lock, push_back, notify_one, unlock.
Put(p) ==
  /\ mutex = None
  /\ sent[p] < PutsEach
  /\ LET x == [p |-> p, n |-> sent[p] + 1]
     IN /\ queue' = Append(queue, x)
        /\ putlog' = Append(putlog, x)
  /\ sent' = [sent EXCEPT ![p] = @ + 1]
  /\ NotifyOne
  /\ UNCHANGED <<mutex, taken>>

\* take(): the unique_lock at its top.
Lock(c) ==
  /\ pc[c] = "idle"
  /\ mutex = None
  /\ mutex' = c
  /\ pc' = [pc EXCEPT ![c] = "check"]
  /\ UNCHANGED <<queue, sent, putlog, taken>>

\* Seeded fault: the item taken is the back (back(), pop_back()).
TakeBack(q) == [item |-> q[Len(q)], rest |-> SubSeq(q, 1, Len(q) - 1)]

\* std::move(queue.front()), then queue.pop_front().
TakeFront(q) == [item |-> Head(q), rest |-> Tail(q)]

(***************************************************************************)
(* The while (queue.empty()) test, holding the mutex: an empty deque      *)
(* sends the consumer into notEmpty.wait, which releases the mutex;       *)
(* otherwise it moves the front out, pops it and returns (the unique_lock *)
(* unlocks).                                                               *)
(***************************************************************************)
Check(c) ==
  /\ pc[c] = "check"
  /\ mutex' = None
  /\ IF queue = <<>>
     THEN /\ pc' = [pc EXCEPT ![c] = "waiting"]
          /\ UNCHANGED <<queue, taken>>
     ELSE /\ taken' = Append(taken, TakeFront(queue).item)
          /\ queue' = TakeFront(queue).rest
          /\ pc' = [pc EXCEPT ![c] = "idle"]
  /\ UNCHANGED <<sent, putlog>>

\* notEmpty.wait returns without a notify (spurious wakeup).
SpuriousWake(c) ==
  /\ pc[c] = "waiting"
  /\ pc' = [pc EXCEPT ![c] = "woken"]
  /\ UNCHANGED <<queue, mutex, sent, putlog, taken>>

\* notEmpty.wait reacquires the mutex before returning to the test.
Reacquire(c) ==
  /\ pc[c] = "woken"
  /\ mutex = None
  /\ mutex' = c
  /\ pc' = [pc EXCEPT ![c] = "check"]
  /\ UNCHANGED <<queue, sent, putlog, taken>>

Next ==
  \/ \E p \in Producers : Put(p)
  \/ \E c \in Consumers : Lock(c) \/ Check(c) \/ SpuriousWake(c) \/ Reacquire(c)

(***************************************************************************)
(* Every thread that can run eventually runs (weak fairness of each step  *)
(* of each thread); no fairness for spurious wakeups, which the program  *)
(* may never get.  A consumer reacquiring the mutex competes only with   *)
(* steps that take an item or go back to waiting, so weak fairness is    *)
(* enough once the finite puts are done.                                  *)
(***************************************************************************)
Fairness ==
  /\ \A p \in Producers : WF_vars(Put(p))
  /\ \A c \in Consumers : WF_vars(Lock(c)) /\ WF_vars(Check(c)) /\ WF_vars(Reacquire(c))

Spec == Init /\ [][Next]_vars /\ Fairness

-----------------------------------------------------------------------------
(***************************************************************************)
(* Nothing is lost, duplicated, invented or reordered: the items taken,   *)
(* followed by the deque, are exactly the items put, in put order (take  *)
(* moves the front, put pushes the back, under the mutex; a woken         *)
(* consumer re-tests emptiness).                                           *)
(***************************************************************************)
TakenThenQueuedIsPut ==
  taken \o queue = putlog

(***************************************************************************)
(* No lost wakeup: every item put is eventually taken by some consumer,   *)
(* even when every consumer was waiting on notEmpty when it was put.     *)
(***************************************************************************)
EveryPutTaken ==
  \A x \in Item :
    (\E i \in DOMAIN putlog : putlog[i] = x) ~> (\E i \in DOMAIN taken : taken[i] = x)
=============================================================================
