------------------------ MODULE MCLocalSendRegistry ------------------------
(* One shell thread and a request, or two threads that overlap; two servers *)
(* and one peer.                                                            *)
EXTENDS LocalSendRegistry

CONSTANTS t1, t2, s1, s2, d1, r1

MCTwoThreads == {t1, t2}
MCTwoServers == {s1, s2}
MCPeer == {d1}
MCOneRequest == {r1}
MCScenarios ==
    { [threads |-> {t1}, requests |-> {r1}, noise |-> 2],
      [threads |-> {t1, t2}, requests |-> {}, noise |-> 1] }
=============================================================================
