SPECIFICATION ReadersSpec
CONSTANTS
    Obj = {o1}
    Col = {a, b}
    Tracked = {a, b}
    Val = {v1}
    Txn = {t1, t2}
    NoRow = NoRow
    Null = Null
    Error = Error
    Skipped = {}
    Modes = {"full", "diff"}
    MaxEvents = 3
    MaxClock = 2
INVARIANTS TypeOK RowTableAgree TimeTravelExact NeverInvented SnapshotsRedundant IdIsWriteOrder
    HistoryAgreesWithTravel RevertUndoes ReadersNeedNoSnapshots
VIEW LaterView
SYMMETRY Symmetric
CHECK_DEADLOCK FALSE
