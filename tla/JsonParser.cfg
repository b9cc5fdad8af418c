\* Every text of up to eleven tokens, the end included.
SPECIFICATION Spec
CONSTANT
    MaxTokens = 11
INVARIANTS
    TypeOK
    AcceptsOnlyDocuments
    NoFalseAlarm
    StacksAgree
\* The text comes to an end.
CHECK_DEADLOCK FALSE
