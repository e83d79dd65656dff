SPECIFICATION FairSpec
CONSTANTS
    PcmFrames = 2
    OpusPackets = 2
PROPERTIES
    ImplementsStreams
    ControlPortFreed
    ShutdownAlwaysCompletes
    AudioStarts
CHECK_DEADLOCK FALSE
