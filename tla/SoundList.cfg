SPECIFICATION Spec
CONSTANTS
    Lines = {0, 1}
    FileLen = 2
    ToneLen = 3
    ToneRepeat = 1
    Frames = 4
    MaxId = 4
INVARIANTS TypeOK PlayedOut RingsSurvive
PROPERTIES ToneStops
