-------------------------- MODULE MCIdentityStore --------------------------
(* Two processes and two keys, one of them with a damaged entry: the       *)
(* smallest instance in which a save adds one key and carries another      *)
(* over, and two operations overlap.                                       *)
EXTENDS IdentityStore

CONSTANTS p1, p2, k1, k2, r1, r2

MCProc == {p1, p2}
MCKey == {k1, k2}
MCRef == {r1, r2}
MCDamaged == {k2}
=============================================================================
