\* One client hangs up while the next one is given up.
\* OBS may be unloaded and the connections used up: the behaviour then ends.
CHECK_DEADLOCK FALSE
SPECIFICATION ServerOpenSpec
CONSTANTS
    exeA = exeA
    exeB = exeB
    Sources = {s1}
    Windows <- MCWindowA
    Exes = {exeA, exeB}
    NoExe = noExe
    NFds = {1}
    MaxConns = 2
    MaxTex = 0
    SockBuf = 1
    MaxActivated = 2
PROPERTY
    UnresponsiveIsDisconnected
