\* The matcher against every sequence of up to five messages.
SPECIFICATION Spec
CONSTANTS
    Orders <- MCOrders
    PriceMin <- MCPriceMin
    TimestampMin = 1
    MaxMessages = 5
INVARIANTS
    TypeOK
    BookWellFormed
    Quiet
    ViewsAgree
    RemovesEarliest
PROPERTIES
    ResolveNeverAborts
    OneEventPerExecutedOrder
    TurnsRunOut
    AsksAreAnnounced
    ImplementsMatching
    ResolveEnds
\* An assert or the read past the end may stop the process.
CHECK_DEADLOCK FALSE
