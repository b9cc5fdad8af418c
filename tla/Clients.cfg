\* Four clients with two IDs; the process is started again once.
SPECIFICATION Spec
CONSTANTS
    Names = {"n1", "n2"}
    StringHash <- MCStringHash
    BitXor <- MCXor
    MaxMessages = 3
    MaxRestarts = 1
INVARIANTS
    TypeOK
    FirstOfItsID
PROPERTIES
    ToldIsKnown
\* Nobody has to register.
CHECK_DEADLOCK FALSE
