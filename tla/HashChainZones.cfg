SPECIFICATION Spec
CONSTANTS
    Txn = {t1, t2}
    NoTxn = NoTxn
    Zone = {"UTC", "CET"}
    Isolation = "read_committed"
    MaxId = 3
    MaxClock = 3
INVARIANT NoFalseAlarm
SYMMETRY Symmetric
CHECK_DEADLOCK FALSE
