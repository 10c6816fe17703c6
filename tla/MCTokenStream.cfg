CONSTANTS
    Capacity = 2
    MaxTokens = 5
    MaxSegs = 2
SPECIFICATION FairSpec
INVARIANTS
    TypeOK
    TokensInOrder
    NoLostWakeup
PROPERTIES
    EverythingSpoken
CHECK_DEADLOCK FALSE
