SPECIFICATION Spec
CONSTANTS
    Deploy = {d1, d2}
    Body = {b1, b2}
    None = None
    Modes = {TRUE}
    MaxCalls = 2
INVARIANT NoLockLeft
SYMMETRY Symmetric
CHECK_DEADLOCK FALSE
