SPECIFICATION Spec
CONSTANTS
    Txn = {t1, t2}
    NoTxn = NoTxn
    Zone = {"UTC"}
    Isolation = "read_committed"
    MaxId = 4
    MaxClock = 3
INVARIANTS TypeOK NoFalseAlarm ChainInv
PROPERTY AppendsOnly
CHECK_DEADLOCK FALSE
