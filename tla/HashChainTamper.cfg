SPECIFICATION TamperSpec
CONSTANTS
    Txn = {t1, t2}
    NoTxn = NoTxn
    Zone = {"UTC"}
    Isolation = "read_committed"
    MaxId = 3
    MaxClock = 3
INVARIANTS TamperEvident RewriteEvident
SYMMETRY Symmetric
CHECK_DEADLOCK FALSE
