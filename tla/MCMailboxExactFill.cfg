SPECIFICATION Spec
CONSTANTS
    Casts = {c1, c2}
    Calls = {k1}
    Empty = Empty
    Configs <- MCConfigs
    InitCap = 2
    MaxLen = 4
    MaxDropped = 2
    MaxBatch = 2
    MaxDoublings = 3
INVARIANT CountedAreThere
