\* An order is announced as Finished and stays on the book.
SPECIFICATION Spec
CONSTANTS
    Orders <- MCOrders
    PriceMin <- MCPriceMin
    TimestampMin = 1
    MaxMessages = 2
PROPERTY
    FinishedMeansExecuted
CHECK_DEADLOCK FALSE
