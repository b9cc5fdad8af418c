\* Two orders with one timestamp.
SPECIFICATION Spec
CONSTANTS
    Orders <- MCOrders
    PriceMin <- MCPriceMin
    TimestampMin = 1
    MaxMessages = 2
PROPERTY
    ArrivalDisplacesNobody
CHECK_DEADLOCK FALSE
