CONSTANTS
    MAX_ONLINE_USERS = 3
    Accounts <- TwoAccounts
    Cut <- ShortLogins
    Fds <- TwoSockets
    FREE = FREE
    Threads = {t1, t2}
    NOBODY = NOBODY
    IDLE = IDLE
    PENDING = PENDING
SPECIFICATION FairSpec
INVARIANTS CallsTypeOK CountExact
PROPERTIES TableIsBag AsAtomic CallsReturn
