\* Both sinks, one and two channels, a ring of three samples that wraps twice.
SPECIFICATION FairSpec
CONSTANTS
    BufferSize = 3
    Setups <- MCEverySink
    NewSizes = {1, 2}
    Frames = {1, 2}
    MaxSamples = 6
INVARIANTS TypeOK SpaceAccounted
PROPERTIES ImplementsQueue CycleReturns
CHECK_DEADLOCK FALSE
