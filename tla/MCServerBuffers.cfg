\* Two clients send buffers of one and of three planes.
\* OBS may be unloaded and the connections used up: the behaviour then ends.
CHECK_DEADLOCK FALSE
SPECIFICATION ServerOpenSpec
CONSTANTS
    exeA = exeA
    exeB = exeB
    Sources = {s1}
    Windows <- MCWindowA
    Exes = {exeA}
    NoExe = noExe
    NFds = {1, 3}
    MaxConns = 2
    MaxTex = 2
    SockBuf = 2
    MaxActivated = 1
INVARIANTS
    UpToDateTexture
    FdsAccountedFor
PROPERTIES
    HungUpIsRemoved
    GoneIsNoticed
    UnloadEnds
