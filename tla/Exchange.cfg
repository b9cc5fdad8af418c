\* Up to four orders on their way through the exchange.
SPECIFICATION ExchangeSpec
CONSTANTS
    Orders <- MCOrders
    PriceMin = 1
    TimestampMin = 1
    MaxMessages = 4
INVARIANTS
    ExchangeTypeOK
    SoldIsBought
    NeverAborts
    DiesOnlyOfUnreadAdd
PROPERTIES
    Drains
\* A read past the end may stop the process, and so may a wild write.
CHECK_DEADLOCK FALSE
