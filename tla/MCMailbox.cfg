SPECIFICATION SpecNoExactFill
CONSTANTS
    Casts = {c1, c2}
    Calls = {k1}
    Empty = Empty
    Configs <- MCConfigs
    InitCap = 2
    MaxLen = 5
    MaxDropped = 2
    MaxBatch = 2
    MaxDoublings = 3
PROPERTY ImplementsFifo
