SPECIFICATION ContextsSpec
CONSTANTS
    Task = {t1, t2}
    Decorator = {d}
    Job = {j}
    Key = {k}
    Val = {v1}
    NoCtx = NoCtx
    NoToken = NoToken
    MaxCtx = 2
    MaxBlocks = 3
    Name = {n}
    Text = {x1, x2}
    Reason = {r}
    NoVal = NoVal
    MaxFrames = 3
    MaxReasons = 2
INVARIANTS TypeOK AttributionLocal RootKept VariablesTypeOK NeverStale Stamped
PROPERTY ContextRestored
VIEW AskedView
SYMMETRY Symmetric
CHECK_DEADLOCK FALSE
