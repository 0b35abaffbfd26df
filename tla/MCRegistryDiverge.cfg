SPECIFICATION Spec
CONSTANTS
    Nodes = {1, 2}
    Names = {"a", "b"}
    Homes <- MixedHomes
    Generations = {1, 2}
    None = None
    MaxTicks = 2
    MaxRepublish = 0
    MaxLost = 0
    MaxLeaves = 0
CHECK_DEADLOCK FALSE
INVARIANT Agreement
