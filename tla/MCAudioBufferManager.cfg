CONSTANTS
    Silence = 2
    MaxAge = 4
    MaxLen = 4
    Unset = Unset
SPECIFICATION FairSpec
INVARIANTS
    TypeOK
    StateMatchesBuffer
    SpeechKept
PROPERTIES
    CutOnlyWhenDue
    QuietCallerIsAnswered
CHECK_DEADLOCK FALSE
