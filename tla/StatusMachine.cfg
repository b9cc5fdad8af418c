\* The status machine against every sequence of up to four messages.
SPECIFICATION Spec
CONSTANTS
    Orders <- MCOrders
    PriceMin = 1
    TimestampMin = 1
    MaxMessages = 4
INVARIANTS
    TypeOK
    HoldsFirstOfPrice
    DiesOfUnknownPrice
\* The wild write after a Finished for an unknown price may stop it.
CHECK_DEADLOCK FALSE
