--------------------------- MODULE MCArchiveTrust ---------------------------
(* Two keys, one of them certified under the staging root. *)
EXTENDS ArchiveTrust

CONSTANTS k1, k2

MCKeys == {k1, k2}
MCStaging == {k2}

\* A certificate that is renewed, one that fails twice, one that outlives an
\* answer and expires, and volumes that change.
MCBudgets == {[issues |-> 2, events |-> 0, damage |-> 0, ticks |-> 2],
              [issues |-> 1, events |-> 2, damage |-> 0, ticks |-> 2],
              [issues |-> 1, events |-> 1, damage |-> 0, ticks |-> 3],
              [issues |-> 1, events |-> 0, damage |-> 2, ticks |-> 1]}

\* A renewal on a device with two keys.
MCRenewals == {[issues |-> 3, events |-> 0, damage |-> 0, ticks |-> 1]}
=============================================================================
