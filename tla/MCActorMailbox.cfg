SPECIFICATION FairSpec
CONSTANTS
    Casts = {c1, c2}
    Calls = {k1}
    Loops = {l1, l2}
    NoMsg = NoMsg
    BatchSize = 1
    MaxMigrations = 1
CHECK_DEADLOCK FALSE
INVARIANTS NoLostWakeup StartOrder OneHandler CapturedAtRest
PROPERTIES CastsHandled CallsSettle
