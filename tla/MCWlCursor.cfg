\* Two outputs, two shapes of the pointer, two sources.
\* The plugin may crash: the behaviour then ends.
CHECK_DEADLOCK FALSE
SPECIFICATION WlSpec
SYMMETRY MCSymmetry
CONSTANTS
    Outputs = {o1, o2}
    NoOutput = noOutput
    Shapes = {s1, s2}
    Blank = blank
    MaxSources = 2
    MaxEvents = 2
INVARIANTS
    WlTypeOK
    OneSessionPerOutput
    PictureIsCurrent
    CursorAtRest
    CursorTornDown
