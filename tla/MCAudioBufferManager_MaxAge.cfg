CONSTANTS
    Silence = 2
    MaxAge = 4
    MaxLen = 4
    Unset = Unset
SPECIFICATION Spec
PROPERTY MaxAgeIsEnforced
CHECK_DEADLOCK FALSE
