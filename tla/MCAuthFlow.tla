----------------------------- MODULE MCAuthFlow -----------------------------
(* Two processes of the CLI and one of the desktop application. *)
EXTENDS AuthFlow

CONSTANTS p1, p2, p3

MCProc == {p1, p2, p3}
MCApp == {"cli", "desktop"}
MCAppOf == [p \in MCProc |-> IF p = p3 THEN "desktop" ELSE "cli"]
=============================================================================
