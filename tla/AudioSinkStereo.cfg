\* JACK with two channels: the second ring is popped on the usage of the first.
SPECIFICATION Spec
CONSTANTS
    BufferSize = 3
    Setups <- MCJackStereo
    NewSizes = {1, 2}
    Frames = {1, 2}
    MaxSamples = 5
INVARIANT EveryRingInOrder
CHECK_DEADLOCK FALSE
