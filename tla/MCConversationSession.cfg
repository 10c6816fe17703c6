CONSTANTS
    MaxSeq = 4
    MaxItems = 1
    MaxInterrupts = 2
SPECIFICATION Spec
INVARIANTS
    TypeOK
    ChunksInOrder
PROPERTIES
    ReassemblySpec
    EndedIsFinal
CHECK_DEADLOCK FALSE
