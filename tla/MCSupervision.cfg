SPECIFICATION Spec
CONSTANTS
    near1 = near1
    near2 = near2
    distant = distant
    Specs <- MCSpecs
    FarSpecs <- MCFarSpecs
    Strategies <- MCStrategies
    MaxRestarts = 1
    MaxChildren = 1
    MaxParents = 2
    MaxFaults = 1
    MaxEvents = 2
SYMMETRY MCSymmetry
CHECK_DEADLOCK FALSE
INVARIANTS
    ListsAgree
    RestartsRestore
    StopsCascade
    CrashedAreReplaced
