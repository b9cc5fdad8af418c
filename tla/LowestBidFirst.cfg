\* A bid trades while a higher one rests.
SPECIFICATION Spec
CONSTANTS
    Orders <- MCOrders
    PriceMin <- MCPriceMin
    TimestampMin = 1
    MaxMessages = 3
PROPERTY
    HighestBidFirst
CHECK_DEADLOCK FALSE
