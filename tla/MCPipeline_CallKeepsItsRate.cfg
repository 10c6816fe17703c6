CONSTANTS
    Conns = {c1, c2}
    Streams = {s1, s2}
    Rates = {r8, r16}
    Texts = {t1}
    None = None
    Overlap = FALSE
    MaxSessions = 2
    MaxUtts = 1
    MaxSegs = 1
SPECIFICATION Spec
INVARIANT CallKeepsItsRate
CHECK_DEADLOCK FALSE
