SPECIFICATION FairSpec
CONSTANTS
    Base = 64
    Frames <- MCFrames
    MaxFrames = 2
    Capacity = 8
PROPERTIES
    ImplementsChannel
    FramesArrive
