SPECIFICATION PhoneSpec
CONSTANTS
    NCalls = 2
    Sessions = {s1, s2}
    NoSession = NoSession
    MaxReg = 0
SYMMETRY Symmetry
CONSTRAINT OnCourse
VIEW PhoneView
INVARIANTS PhoneTypeOK StaysAnswerable 
CHECK_DEADLOCK FALSE
