SPECIFICATION FairSpec
CONSTANTS
    Watches = {w1}
    Actors = {a1}
    Target <- TargetOne
    MaxFaults = 3
CHECK_DEADLOCK FALSE
INVARIANTS OneEnding NoFalseDown NoOrphans
PROPERTY EndingsReported
