------------------------- MODULE MCRequestScheduler -------------------------
(* RequestScheduler for TLC.                                               *)
EXTENDS RequestScheduler, TLC

\* The slots and the handles are interchangeable.
Symmetry == Permutations(Req) \cup Permutations(Handle)
=============================================================================
