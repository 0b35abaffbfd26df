SPECIFICATION Spec
CONSTANTS
    Casts = {c1}
    Calls = {k1}
    Loops = {l1, l2}
    NoMsg = NoMsg
    BatchSize = 1
    MaxMigrations = 1
SYMMETRY Symmetry
CHECK_DEADLOCK FALSE
INVARIANT NothingLeftBehind
