\* Two threads, two instances, three surfaces, two windows.
SPECIFICATION InstSpec
SYMMETRY MCSymmetry
CONSTANTS
    Threads = {t1, t2}
    Instances = {i1, i2}
    Surfaces = {s1, s2, s3}
    Windows = {w1, w2}
    NoInstance = noInstance
    NoSurface = noSurface
    NoWindow = noWindow
    NoSwapchain = noSwapchain
INVARIANTS
    InstTypeOK
    InstancesAreKnown
    ListsAreReady
    WindowIsItsOwn
