SPECIFICATION Spec
CONSTANTS
    Txn = {t1, t2}
    NoTxn = NoTxn
    Zone = {"UTC"}
    Isolation = "repeatable_read"
    MaxId = 3
    MaxClock = 3
INVARIANT NoFork
SYMMETRY Symmetric
CHECK_DEADLOCK FALSE
