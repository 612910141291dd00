\* One game; a source takes it, leaves it out and takes it again.
\* OBS may be unloaded and the connections used up: the behaviour then ends.
CHECK_DEADLOCK FALSE
SPECIFICATION Spec
CONSTANTS
    g1 = g1
    exeA = exeA
    exeB = exeB
    Games = {g1}
    ExeOf <- MCOneGame
    Sources = {s1}
    Windows <- MCTakeOrLeave
    Exes = {exeA}
    NoExe = noExe
    NFds = {1}
    MaxConns = 1
    MaxTex = 1
    SockBuf = 2
    MaxActivated = 2
PROPERTIES
    BufferReachesObs
    StopReachesGame
