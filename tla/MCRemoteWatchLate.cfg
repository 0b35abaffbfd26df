SPECIFICATION Spec
CONSTANTS
    Watches = {w1}
    Actors = {a1}
    Target <- TargetOne
    MaxFaults = 0
CHECK_DEADLOCK FALSE
INVARIANT ToldOfDeath
