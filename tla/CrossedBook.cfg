\* Orders that cross are left on the book.
SPECIFICATION Spec
CONSTANTS
    Orders <- MCOrders
    PriceMin <- MCPriceMin
    TimestampMin = 1
    MaxMessages = 3
INVARIANT
    NothingLeftCrossed
CHECK_DEADLOCK FALSE
