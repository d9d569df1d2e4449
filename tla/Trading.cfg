SPECIFICATION TradingFairSpec
CONSTANTS
    MM = mm
    NT = nt
    Participants = {mm, nt}
    Cids = {1, 2, 3, 4, 5, 6}
    EmptyCid = none
    Prices = {0, 1, 2, 3, 4, 5, 6, 7, 8, 9, 10}
    Quantities = {1, 2}
    OrderIds = {1, 2, 3, 4, 5, 6, 7, 8}
    SoftCap = 6
    Messages <- MCMessages
    Unit = 3
    FairValues = {16}
    Spread = 6
    SkewK = 3
    QuoteSize = 1
    NoiseQuantities = {2}
    MaxTicks = 3
    MaxFires = 1
    Interrupted = TRUE
INVARIANTS PositionAccounted OnePairResting
PROPERTIES MissedOnlyAfterGrace MakerNeverRejected BookEmpties
CHECK_DEADLOCK FALSE
