SPECIFICATION LiveSpec
CONSTANTS
    Deploy = {d1, d2}
    Body = {b1, b2}
    None = None
    Modes = {TRUE, FALSE}
    MaxCalls = 4
INVARIANTS TypeOK Agreement
PROPERTY LockProgress
CHECK_DEADLOCK FALSE
