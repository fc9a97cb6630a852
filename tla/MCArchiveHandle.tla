-------------------------- MODULE MCArchiveHandle --------------------------
(* Handles that are opened and closed one after the other, for TLC. *)
EXTENDS ArchiveHandle, TLC
CONSTANTS h1
MCHandles == {h1}
============================================================================
