SPECIFICATION Spec
CONSTANTS
    Producers = {"p"}
    ProducerConsumers = {"pc"}
    Consumers = {"cons"}
    Supervisors = {"sup"}
    Tags = {"a", "b", "c"}
    Up <- MCUp
    Down <- MCDown
    Dispatchers <- MCDispatchers
    NumPartitions = 2
    PartOptions <- MCPartOptions
    MaxDemand = 2
    MinDemand = 1
    BufferSize = 1
    BufferKeep = "last"
    Overshoot = 1
    MaxEvents <- MCMaxEvents
    MaxCrashes = 1
    MaxLeaves = 1
CHECK_DEADLOCK FALSE
INVARIANT SlotsReturn
