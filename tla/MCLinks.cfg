SPECIFICATION Spec
CONSTANTS
    Actors <- MCActors
    NodeOf <- MCNodeOf
    Links <- MCLinkIds
    Linker <- MCLinker
    Linked <- MCLinked
    Watches <- MCWatches
    Watcher <- MCWatcher
    Watched <- MCWatched
    MaxRestarts = 1
    TrapSets <- MCTrapSets
    MaxFaults = 1
    MaxEvents = 2
CHECK_DEADLOCK FALSE
INVARIANTS
    TablesAgree
    OneExit
    CrashesPropagate
