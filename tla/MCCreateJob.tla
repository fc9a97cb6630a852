---------------------------- MODULE MCCreateJob ----------------------------
(* Jobs over two member paths, in up to three volumes, for TLC. *)
EXTENDS CreateJob, TLC
CONSTANTS p1, p2
MCPaths == {p1, p2}
MCSymmetry == Permutations(MCPaths)
\* One, two and three volumes; headers at and around the ends of volumes.
MCArchives == {[locals |-> <<0>>, start |-> 1], [locals |-> <<0>>, start |-> 4],
               [locals |-> <<0, 2>>, start |-> 5], [locals |-> <<0, 4, 7>>, start |-> 8]}
============================================================================
