SPECIFICATION GroupSpec
CONSTANTS
    Nodes = {1, 2}
    Seeds <- EachOther
    Founders = {1}
    Callers = {}
    NoPeer = NoPeer
    MaxHeartbeat = 1
    MaxFaults = 2
    Actors = {"x", "y", "z"}
    Home <- TwoHomes
    Born <- Births
    MaxOps = 3
INVARIANTS OwnMembersKept NoGhosts
