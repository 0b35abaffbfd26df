SPECIFICATION Spec
CONSTANTS
    Nodes = {1, 2}
    Names = {"a", "b"}
    Homes <- MixedHomes
    Generations = {1, 2}
    None = None
    MaxTicks = 3
    MaxRepublish = 1
    MaxLost = 1
    MaxLeaves = 1
CHECK_DEADLOCK FALSE
INVARIANTS HeldAreCovered OwnNamesSettle
