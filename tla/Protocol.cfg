SPECIFICATION WireSpec
CONSTANTS
    Words = {"type", "NEW_ORDER", "client_order_id", "symbol", "side", "SELL", "price", "qty", "CANCEL"}
    Raws <- MCRaws
    Base = 3
    MaxUint32 = 31
    MaxLength = 5
    MaxTokens = 9
INVARIANTS ScalarsExact PriceRoundTrip EchoExact MessageExact
CHECK_DEADLOCK FALSE
