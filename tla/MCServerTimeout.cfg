\* A source whose import failed meets the next client.
\* OBS may be unloaded and the connections used up: the behaviour then ends.
CHECK_DEADLOCK FALSE
SPECIFICATION ServerOpenSpec
CONSTANTS
    exeA = exeA
    exeB = exeB
    Sources = {s1}
    Windows <- MCWindowA
    Exes = {exeA}
    NoExe = noExe
    NFds = {1}
    MaxConns = 2
    MaxTex = 1
    SockBuf = 2
    MaxActivated = 2
INVARIANT
    TimeoutCoversSilence
