SPECIFICATION CompactionSpec
CONSTANTS
    Obj = {1, 2}
    Col = {a, b}
    Tracked = {a, b}
    TrackedThen = {a}
    Releases = {"0.3", "0.6.1", "current"}
    Predating = {}
    MaxBypass = 1
    Val = {v1}
    Txn = {t1}
    NoRow = NoRow
    Null = Null
    Error = Error
    Skipped = {}
    Modes = {"full", "diff"}
    MaxEvents = 2
    MaxClock = 1
    BatchSize = 1
    HashedFrom = {2}
    MaxJobs = 1
INVARIANT CompactionLossless
PROPERTY CompactionComplete
VIEW JobView
SYMMETRY Symmetric
CHECK_DEADLOCK FALSE
