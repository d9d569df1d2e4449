SPECIFICATION Spec
CONSTANTS
    Modulus = 32
    MaxPort = 3
    MaxHeartbeat = 5
    Headroom = 4
    Numerals = {0, 1, 2, 3, 4, 5, 6, 27, 28, 31, 32, 33}
    MaxOptions = 4
INVARIANTS ServesValidConfig
CHECK_DEADLOCK FALSE
