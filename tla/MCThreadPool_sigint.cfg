CONSTANTS
    w1 = w1  w2 = w2  w3 = w3
    c1 = c1  c2 = c2  c3 = c3
    Workers <- TwoWorkers
    Clients <- ThreeClients
    SignalPoints <- Anywhere
    Main = Main
    NULL = NULL
CHECK_DEADLOCK FALSE
SPECIFICATION FairSpec
PROPERTY ShutdownCompletes
