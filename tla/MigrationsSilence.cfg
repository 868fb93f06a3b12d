SPECIFICATION Spec
CONSTANTS
    Model = {m}
    App = {1, 2}
    TableName = {t1, t2}
    Version = {v1, v2}
    Database = {db}
    None = None
    MaxRelease = 2
    MaxFiles = 6
    MaxEdits = 4
SYMMETRY Symmetric
INVARIANT SilenceIsTrue
CHECK_DEADLOCK FALSE
