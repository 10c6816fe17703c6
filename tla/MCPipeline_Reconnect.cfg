CONSTANTS
    Conns = {c1, c2}
    Streams = {s1}
    Rates = {r8}
    Texts = {t1}
    None = None
    Overlap = TRUE
    MaxSessions = 2
    MaxUtts = 1
    MaxSegs = 1
SPECIFICATION FairSpec
INVARIANTS
    RegisteredIsOpen
    SpeakingEnds
    EndedStaysQuiet
PROPERTIES
    EventWorkedOff
CHECK_DEADLOCK FALSE
