CONSTANTS
    Conns = {c1, c2}
    Streams = {s1, s2}
    Rates = {r8}
    Texts = {t1}
    None = None
    Overlap = FALSE
    MaxSessions = 2
    MaxUtts = 2
    MaxSegs = 2
SYMMETRY CallSymmetry
SPECIFICATION Spec
INVARIANTS
    TypeOK
    OneActiveSession
    LiveCallReachable
    AnswersReachTheirCaller
PROPERTY StopCleansUp
CHECK_DEADLOCK FALSE
