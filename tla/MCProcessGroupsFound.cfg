SPECIFICATION GroupSpec
CONSTANTS
    Nodes = {1, 2}
    Seeds <- EachOther
    Founders = {1}
    Callers = {}
    NoPeer = NoPeer
    MaxHeartbeat = 1
    MaxFaults = 0
    Actors = {"x", "y"}
    Home <- TwoHomes
    Born <- Births
    MaxOps = 1
INVARIANT MembersFound
