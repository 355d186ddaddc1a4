SPECIFICATION Spec
CONSTANTS
    Numbers = {n1, n2}
    Blank = Blank
    NTypes = 2
    MAXLOG = 3
    MaxPos = 5
SYMMETRY Symmetry
CONSTRAINT OnTime
INVARIANTS TypeOK NewestFirst RecordOnTop
