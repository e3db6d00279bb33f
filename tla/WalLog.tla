------------------------------- MODULE WalLog -------------------------------
(***************************************************************************)
(* What a write-ahead log promises, without blocks or bytes: records are  *)
(* appended and numbered 1, 2, ...; a crash keeps some prefix of them     *)
(* durable; replay then hands back durable records in append order, each *)
(* at most once.  It may skip records (damage, an initial offset) but     *)
(* never invents, repeats or reorders one.                                 *)
(***************************************************************************)
EXTENDS Naturals, Sequences

VARIABLES
  count,      \* records appended
  crashed,    \* the writer has stopped
  durable,    \* records 1..durable survived
  delivered   \* records handed back by replay, in order

vars == <<count, crashed, durable, delivered>>

Init ==
  /\ count = 0
  /\ crashed = FALSE
  /\ durable = 0
  /\ delivered = <<>>

Append1 ==
  /\ ~crashed
  /\ count' = count + 1
  /\ UNCHANGED <<crashed, durable, delivered>>

Crash ==
  /\ ~crashed
  /\ crashed' = TRUE
  /\ durable' \in 0..count
  /\ UNCHANGED <<count, delivered>>

Deliver(i) ==
  /\ crashed
  /\ i \in 1..durable
  /\ delivered = <<>> \/ i > delivered[Len(delivered)]
  /\ delivered' = Append(delivered, i)
  /\ UNCHANGED <<count, crashed, durable>>

Next == Append1 \/ Crash \/ \E i \in 1..durable : Deliver(i)

Spec == Init /\ [][Next]_vars
=============================================================================
