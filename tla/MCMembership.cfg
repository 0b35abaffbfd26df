SPECIFICATION Spec
CONSTANTS
    Nodes = {1, 2, 3}
    Seeds <- TwoSeeds
    Founders = {1, 2}
    Callers = {3}
    NoPeer = NoPeer
    MaxHeartbeat = 1
    MaxFaults = 2
INVARIANT EventsTrack
PROPERTIES LeaversStayOut PeersSurviveEvents Converges
