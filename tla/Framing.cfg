SPECIFICATION Spec
CONSTANTS
    Base = 2
    Magic <- BitMagic
    LengthBytes = 2
    MaxPayloadBytes = 2
    Streams <- MCStreams
INVARIANTS DeliversWholeFrames ErrorExact
PROPERTIES EveryFrameHandled
CHECK_DEADLOCK FALSE
