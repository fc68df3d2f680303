CONSTANTS
    w1 = w1  w2 = w2  w3 = w3
    c1 = c1  c2 = c2  c3 = c3
    Workers <- ThreeWorkers
    Clients <- ThreeClients
    SignalPoints <- OutsideCriticalSection
    Main = Main
    NULL = NULL
SPECIFICATION FairSpec
INVARIANTS TypeOK QueueShape NodesOwnedOnce NoLostWakeup AllServedAtStop
PROPERTIES QueueContract QueuedClientIsPickedUp EveryClientServed ShutdownCompletes
