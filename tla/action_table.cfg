SPECIFICATION Spec
CONSTANTS
    Base = 8
    IntBytes = 2
    Acts <- MCActs
    FrameType <- MCFrameType
    Can <- MCCan
    Does <- MCDoes
    MaxActions = 3
    SomeBytes <- MCBytes
    Longest = 5
INVARIANTS SameGame OnlyListed TextReadsBack TensorShowsChanges Restored Advances
