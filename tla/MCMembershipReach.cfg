SPECIFICATION Spec
CONSTANTS
    Nodes = {1, 2, 3}
    Seeds <- TwoSeeds
    Founders = {1, 2}
    Callers = {}
    NoPeer = NoPeer
    MaxHeartbeat = 1
    MaxFaults = 1
INVARIANT LiveAreReachable
