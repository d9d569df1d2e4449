SPECIFICATION OrderBookFairSpec
VIEW LiveView
CONSTANTS
    Capacity = 4
    Modulus = 4
    Participants = {1, 2}
    Prices = {1, 2, 3}
    Quantities = {1, 3}
    MaxPriceLevels = 2
    MaxSequence = 4
INVARIANTS StructuresIntact TotalQuantityTracksQueue
PROPERTIES ImplementsMatchingBook CallReturns
CHECK_DEADLOCK FALSE
