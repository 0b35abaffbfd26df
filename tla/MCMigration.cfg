SPECIFICATION MigrationSpec
CONSTANTS
    Nodes = {1, 2}
    Names = {"a"}
    Homes <- AnyHome
    Generations = {1}
    None = None
    MaxTicks = 0
    MaxRepublish = 0
    MaxLost = 0
    MaxLeaves = 0
    Name = "a"
    Home = 1
    Msgs = {m1}
    NoMsg = NoMsg
    MaxCopies = 3
    MaxMigrations = 2
    MaxEvents = 2
CHECK_DEADLOCK FALSE
INVARIANTS HandledOnce StateCarried NotLeftPaused
PROPERTY DrainedAreHandled
