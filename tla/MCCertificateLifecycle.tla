----------------------- MODULE MCCertificateLifecycle -----------------------
(* One process with faults and late requests, or two that share the inventory. *)
EXTENDS CertificateLifecycle

CONSTANTS p1, p2, k1, k2, c1, c2, o1, o2, o3, o4

MCProc == {p1, p2}
MCKey == {k1, k2}
MCCert == {c1, c2}
MCOpId == {o1, o2, o3, o4}
MCScenarios ==
    {[procs |-> {p1}, keys |-> K, late |-> TRUE, faults |-> 3] : K \in {{}, {k1, k2}}}
        \cup {[procs |-> {p1, p2}, keys |-> {}, late |-> FALSE, faults |-> 1]}
=============================================================================
