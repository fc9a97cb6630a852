SPECIFICATION FairSpec
CONSTANTS
    t1 = t1
    t2 = t2
    s1 = s1
    s2 = s2
    d1 = d1
    r1 = r1
    None = None
    Thread <- MCTwoThreads
    Server <- MCTwoServers
    Peer <- MCPeer
    Request <- MCOneRequest
    MaxQueued = 1
    Scenarios <- MCScenarios
INVARIANTS ShellIsToldTruly SweepReportsPeers
PROPERTIES RequestIsDelivered
