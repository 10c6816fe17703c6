CONSTANTS
    Conns = {c1}
    Streams = {s1}
    Rates = {r8}
    Texts = {t1}
    None = None
    Overlap = FALSE
    MaxSessions = 1
    MaxUtts = 1
    MaxSegs = 1
SPECIFICATION Spec
INVARIANT SpeakingIsInterruptible
CHECK_DEADLOCK FALSE
