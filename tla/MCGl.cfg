\* Two windows, without a size or of two. A lost texture uses up a name, so
\* two can be lost.
SPECIFICATION GlSpec
CONSTANTS
    Surfaces = {s1, s2}
    NoSurface = noSurface
    Names = {n1, n2, n3}
    NoName = noName
    MaxSize = 2
INVARIANTS
    GlTypeOK
    NothingLeaks
PROPERTIES
    IsAHook
    ResizeIsNoticed
