--------------------------- MODULE MCResultCache ---------------------------
(* A small instance of ResultCache for TLC: p08, on which the capacity     *)
(* depends, p07, its unit, and p50, whose changes the counter does not     *)
(* show.                                                                   *)
EXTENDS ResultCache, TLC

CONSTANTS p07, p08, p50, capacity

MCParameters == {p07, p08, p50}
MCEntries    == {p07, p08, p50, capacity}
MCSource     == [e \in MCEntries |-> IF e = capacity THEN p08 ELSE e]
MCSilent     == {p50}
Symmetry     == Permutations(Tasks) \cup Permutations(Values)
=============================================================================
