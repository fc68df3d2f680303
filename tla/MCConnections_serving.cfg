CONSTANTS
    w1 = w1  w2 = w2
    c1 = c1  c2 = c2  c3 = c3  c4 = c4
    Workers <- TwoWorkers
    Clients <- FourClients
    Fds <- FiveNumbers
    NULL = NULL
    Polite <- HalfPolite
CHECK_DEADLOCK FALSE
SPECIFICATION ServingSpec
INVARIANTS ConnTypeOK OpenIsOwned KeptAmongPolite
PROPERTY QueuedIsClosed
