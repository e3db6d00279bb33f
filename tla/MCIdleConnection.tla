------------------------- MODULE MCIdleConnection --------------------------
(***************************************************************************)
(* Three connections, a one-second idle timeout and four seconds of clock: *)
(* enough for connections to open at different seconds, for a message to *)
(* move one behind another, and for the timer to find idle connections    *)
(* behind an idle one and behind an active one.  The connections are     *)
(* interchangeable, so their permutations are a symmetry.                 *)
(***************************************************************************)
EXTENDS IdleConnection, TLC

CONSTANTS c1, c2, c3

MCConns == {c1, c2, c3}

ConnSymmetry == Permutations(MCConns)
=============================================================================
