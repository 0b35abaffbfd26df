SPECIFICATION FairSpec
CONSTANTS
    Peers = {p1, p2}
    MaxMissed = 2
    StaggerPings = TRUE
    MaxPings = 2
    MaxJoins = 1
PROPERTIES DeclaredDeadInTime SilentAreDropped
