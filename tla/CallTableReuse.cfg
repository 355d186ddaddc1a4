SPECIFICATION Spec
CONSTANTS
    NCalls = 2
    Sessions = {s1, s2}
    NoSession = NoSession
    MaxReg = 1
SYMMETRY Symmetry
VIEW TableView
PROPERTIES FinalEndsOwn
