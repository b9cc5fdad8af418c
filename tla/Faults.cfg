\* Two orders and up to two faults.
SPECIFICATION FaultsSpec
CONSTANTS
    Orders <- MCOrders
    PriceMin = 1
    TimestampMin = 1
    MaxMessages = 4
    MaxOrders = 2
    MaxFaults = 2
INVARIANTS
    FaultsTypeOK
    BalancedInThisLife
    DiesOnlyOfUnreadAdd
    ExecutedWithinDeliveries
PROPERTIES
    EachLifeMatches
    OnlyEndOrTimeoutLosesHalf
    KeepsUp
\* The process may die and not be started again.
CHECK_DEADLOCK FALSE
