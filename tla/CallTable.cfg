SPECIFICATION Spec
CONSTANTS
    NCalls = 2
    Sessions = {s1, s2, s3}
    NoSession = NoSession
    MaxReg = 1
SYMMETRY Symmetry
CONSTRAINT OnCourse
VIEW TableView
INVARIANTS TypeOK LineHasCall NoSharedSession SessionsOwned OneSelected
PROPERTIES NeverDisplaced NoSilentChange PhoneSafety
