CONSTANTS
    alice = alice  bob = bob  p = p
    Users <- People
    Passwords <- Secrets
    Registered <- Nobody
    Forms <- Tried
    MAX_VISITS = 2
    MAX_EVENTS = 2
    MAX_SOCKETS = 3
    MAX_LINES = 3
    MAX_UNREAD = 2
SPECIFICATION Spec
INVARIANTS ClientsTypeOK OneMoreLine LoggedInRight FormFree OneChain ChatsRight
PROPERTIES QuitEnds AttemptEnds Reconnects
CHECK_DEADLOCK FALSE
