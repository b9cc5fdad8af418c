\* Two active orders of one price, one of which the status machine forgets.
SPECIFICATION ExchangeSpec
CONSTANTS
    Orders <- MCBids
    PriceMin = 1
    TimestampMin = 1
    MaxMessages = 2
INVARIANT
    EveryActiveOrderIsKnown
CHECK_DEADLOCK FALSE
