CONSTANTS
    w1 = w1  w2 = w2  c1 = c1  c2 = c2  c3 = c3
    NULL = NULL  FREE = FREE  TORN = TORN
    Workers <- TwoWorkers
    Clients <- TwoClients
    Kind <- OneBrowser
    Script <- Conversation
    Users <- TwoUsers
    Passwords <- TwoHashes
    Initially <- BothRegistered
    DbFails = FALSE
    Fds <- TwoNumbers
    Cut <- StoredWhole
    MAX_ONLINE_USERS = 2
CHECK_DEADLOCK FALSE
SPECIFICATION Spec
INVARIANT AnswersFramed
