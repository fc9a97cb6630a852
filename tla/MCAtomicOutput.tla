--------------------------- MODULE MCAtomicOutput ---------------------------
(* Instances of AtomicOutput for TLC.  Writers that commit in the same way *)
(* are interchangeable, and every assignment of modes is an initial state. *)
EXTENDS AtomicOutput, TLC
Symmetry == Permutations(Writer)
=============================================================================
