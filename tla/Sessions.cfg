\* One client that follows Client.cpp and one that does not.
SPECIFICATION Spec
CONSTANTS
    Clients = {"honest", "other"}
    Honest = {"honest"}
    Addresses = {1, 2, 3}
    SendBuffer = 1
    Arrivals <- MCArrivals
    MaxRequests <- MCMaxRequests
INVARIANTS
    TypeOK
    OneCallbackEach
    HonestRequestsAreWhole
    AnswersMatchRequests
PROPERTIES
    RequestAnswered
    GoneClientsAreFreed
\* The process may end.
CHECK_DEADLOCK FALSE
