SPECIFICATION Spec
CONSTANTS
    Casts = {c1}
    Calls = {k1}
    Loops = {l1, l2}
    NoMsg = NoMsg
    BatchSize = 1
    MaxMigrations = 0
SYMMETRY Symmetry
CHECK_DEADLOCK FALSE
INVARIANT NeverOverlap
