CONSTANTS
    Frames <- MCFrames
    MaxFrameLen = 2
    Threshold = 5
    ReadMax = 4
    MaxFrames = 3
SPECIFICATION FairSpec
CHECK_DEADLOCK FALSE
INVARIANTS
    StreamConserved
    RejectsOnlyBad
    BufferBounded
    ActsAsAsked
PROPERTIES
    AllHandled
