SPECIFICATION FairSpec
CONSTANTS
    p1 = p1
    p2 = p2
    p3 = p3
    NoProc = NoProc
    Proc <- MCProc
    App <- MCApp
    AppOf <- MCAppOf
    MaxFlows = 3
    MaxFaults = 2
INVARIANTS TypeOK SlotIsSound
PROPERTIES SessionNeverRegresses RestartRepairs
