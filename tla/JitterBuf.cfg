SPECIFICATION Spec
CONSTANTS
    HISTORY_SZ = 3
    MAXBUF_SZ = 2
    DROPPCT = 34
    TARGET_EXTRA = 1
    ADJUST_DELAY = 1
    SHRINK_EMPTY = 2
    SHRINK_FULL = 3
    SHRINK_SILENT = 0
    resync_threshold = 3
    max_jitterbuf = 0
    max_contig_interp = 0
    DISCONT_LIMIT = 1
    LONGMAX = 1000
    Cells = {c1, c2, c3}
    NULL = NULL
    Spans = {2}
    Interpl = 1
    Delays <- MCDelays
    Late = {0,3}
    Early = {3}
    WRAP = 16
    BIG = 12
    MaxIn = 3
    MaxNow = 6
SYMMETRY Symmetry
CHECK_DEADLOCK FALSE
INVARIANTS TypeOK WellLinked CalcExact JitterSane
PROPERTIES PlayoutSafety NextStillValid
