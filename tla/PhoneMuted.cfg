SPECIFICATION PhoneSpec
CONSTANTS
    NCalls = 2
    Sessions = {s1, s2}
    NoSession = NoSession
    MaxReg = 0
SYMMETRY Symmetry
CONSTRAINT OnCourse
INVARIANTS MutedUntilAsked
CHECK_DEADLOCK FALSE
