SPECIFICATION RetentionSpec
CONSTANTS
    Obj = {o1}
    Col = {a, b}
    Tracked = {a, b}
    TrackedThen = {a}
    Releases = {"0.3", "current"}
    Predating = {}
    MaxBypass = 1
    Val = {v1}
    Txn = {t1}
    NoRow = NoRow
    Null = Null
    Error = Error
    Skipped = {}
    Modes = {"full", "diff"}
    MaxEvents = 3
    MaxClock = 2
    MonthsAhead = {1}
INVARIANTS UntouchedClean VerifyExact CleanMeansExact ShortcutSound RetentionExact
SYMMETRY Symmetric
VIEW CalmView
CHECK_DEADLOCK FALSE
