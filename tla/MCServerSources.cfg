\* Two sources share one client.
\* OBS may be unloaded and the connections used up: the behaviour then ends.
CHECK_DEADLOCK FALSE
SPECIFICATION ServerOpenSpec
CONSTANTS
    exeA = exeA
    exeB = exeB
    Sources = {s1, s2}
    Windows <- MCTakeOrLeave
    Exes = {exeA}
    NoExe = noExe
    NFds = {1}
    MaxConns = 1
    MaxTex = 1
    SockBuf = 2
    MaxActivated = 2
INVARIANTS
    ServerOpenTypeOK
    ControlAgreement
    ActivatedCoversSources
