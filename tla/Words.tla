------------------------------- MODULE Words -------------------------------
(***************************************************************************)
(* C++ unsigned integers of a fixed width (uint8_t, uint32_t, uint64_t)   *)
(* as their bits: a w-bit word is a function from 0..w-1 to {0, 1}, bit  *)
(* i of weight 2^i.  The operators are the C++ operators on unsigned      *)
(* operands of one width: shifts drop the bits pushed out, + and - wrap   *)
(* modulo 2^w.  Words wider than TLC's integers (uint32_t and uint64_t   *)
(* values of 2^31 and more) are handled bit by bit.                       *)
(***************************************************************************)
EXTENDS Integers, FiniteSets

Word(w) == [0..w-1 -> {0, 1}]

Width(x) == Cardinality(DOMAIN x)

\* The w-bit word of a natural n < 2^30 (a literal of the code).
ToWord(n, w) == [i \in 0..w-1 |-> IF i < 30 THEN (n \div 2^i) % 2 ELSE 0]

\* The natural a word of fewer than 31 bits stands for.
NatOf(x) ==
  LET RECURSIVE V(_)
      V(i) == IF i < 0 THEN 0 ELSE x[i] * 2^i + V(i - 1)
  IN V(Width(x) - 1)

\* The word whose high bits are hi and low bits lo (a wide literal).
Concat(hi, lo) ==
  [i \in 0..Width(hi) + Width(lo) - 1 |->
     IF i < Width(lo) THEN lo[i] ELSE hi[i - Width(lo)]]

\* x >> k and x << k.
ShiftRight(x, k) == [i \in DOMAIN x |-> IF i + k \in DOMAIN x THEN x[i + k] ELSE 0]
ShiftLeft(x, k) == [i \in DOMAIN x |-> IF i - k \in DOMAIN x THEN x[i - k] ELSE 0]

\* x | y, ~x, and x & (2^k - 1) narrowed to k bits.
BitOr(x, y) == [i \in DOMAIN x |-> IF x[i] + y[i] > 0 THEN 1 ELSE 0]
BitNot(x) == [i \in DOMAIN x |-> 1 - x[i]]
LowBits(x, k) == [i \in 0..k-1 |-> x[i]]

\* x + y: the carry into each bit from the bits below; the carry out of the
\* top bit is lost.
Plus(x, y) ==
  LET RECURSIVE Carry(_)
      Carry(i) == IF i = 0 THEN 0
                  ELSE (x[i - 1] + y[i - 1] + Carry(i - 1)) \div 2
  IN [i \in DOMAIN x |-> (x[i] + y[i] + Carry(i)) % 2]

\* x - y: x + ~y + 1.
Minus(x, y) == Plus(Plus(x, BitNot(y)), ToWord(1, Width(x)))

\* x < y on unsigned words: at the highest bit where they differ, y has 1.
WordLess(x, y) ==
  \E i \in DOMAIN x : /\ x[i] < y[i]
                      /\ \A j \in DOMAIN x : j > i => x[j] = y[j]
=============================================================================
