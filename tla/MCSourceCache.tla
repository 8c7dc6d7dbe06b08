--------------------------- MODULE MCSourceCache ---------------------------
(* Instances of SourceCache for TLC. *)
EXTENDS SourceCache, TLC

CONSTANTS f1, f2, p1, p2

Symmetry == Permutations(Files) \cup Permutations(Processes)
=============================================================================
