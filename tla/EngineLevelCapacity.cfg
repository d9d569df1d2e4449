SPECIFICATION OrderBookSpec
VIEW LiveView
CONSTANTS
    Capacity = 3
    Modulus = 4
    Participants = {1, 2}
    Prices = {1, 2}
    Quantities = {1, 3}
    MaxPriceLevels = 1
    MaxSequence = 3
INVARIANT LevelCapacityAsserted
CHECK_DEADLOCK FALSE
