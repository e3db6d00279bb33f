------------------------- MODULE MCBlockingQueue ---------------------------
(***************************************************************************)
(* Two producers putting two items each and two consumers: enough for    *)
(* both consumers to wait on an empty queue at once, for a put to wake    *)
(* one of them while the other keeps waiting, for spurious wakeups to     *)
(* race a notified consumer for the last item, and for two items from     *)
(* different producers to be queued at the same time.                      *)
(***************************************************************************)
EXTENDS BlockingQueue

CONSTANTS p1, p2, c1, c2

MCProducers == {p1, p2}
MCConsumers == {c1, c2}
=============================================================================
